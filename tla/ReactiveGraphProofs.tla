------------------------ MODULE ReactiveGraphProofs ------------------------
(***************************************************************************)
(* Proofs about the reactive graph for every set of nodes and every        *)
(* environment.  Type correctness, the agreement of the two edge maps, the  *)
(* latch of the lane and the absence of reentry are theorems about any      *)
(* graph: they cite no assumption of AcyclicGraph.  Coherence and what      *)
(* follows it are about closures that respect a rank, and computed closures *)
(* that are pure.                                                          *)
(***************************************************************************)
EXTENDS AcyclicGraph, SequenceTheorems, TLAPS

-----------------------------------------------------------------------------
(* The call stack.                                                         *)

(* A new frame is well formed. *)
LEMMA FrameType ==
  ASSUME NEW n \in Observers, NEW k \in KindsOf(n), NEW t \in BOOLEAN
  PROVE  Frame(k, n, t) \in Frames
BY DEF Frame, Frames, EdgeMaps, NoEdges, Kinds, KindsOf

(* So is one that carries a copy of the recorded edges. *)
LEMMA VerifyFrameType ==
  ASSUME TypeOK, NEW n \in Observers, NEW t \in BOOLEAN
  PROVE  VerifyFrame(n, t) \in Frames
<1>1. dependencies[n] \in EdgeMaps
  BY DEF TypeOK
<1>2. QED
  BY <1>1 DEF VerifyFrame, Frames, Frame, Kinds, KindsOf

(* The first n elements of a sequence. *)
LEMMA PrefixProperties ==
  ASSUME NEW S, NEW s \in Seq(S), NEW n \in 0 .. Len(s)
  PROVE  /\ SubSeq(s, 1, n) \in Seq(S) /\ Len(SubSeq(s, 1, n)) = n
         /\ \A i \in 1 .. n : SubSeq(s, 1, n)[i] = s[i]
OBVIOUS

(* What popping and replacing the top frame leaves behind. *)
LEMMA TopType ==
  ASSUME TypeOK, ~Idle
  PROVE  /\ Len(stack) \in Nat \ {0}
         /\ Top \in Frames
         /\ Pop \in Seq(Frames) /\ Len(Pop) = Len(stack) - 1
         /\ \A i \in 1 .. Len(Pop) : Pop[i] = stack[i]
         /\ \A f \in Frames :
              /\ Retop(f) \in Seq(Frames) /\ Len(Retop(f)) = Len(stack)
              /\ \A i \in 1 .. Len(stack) :
                   Retop(f)[i] = IF i = Len(stack) THEN f ELSE stack[i]
<1>1. stack \in Seq(Frames) /\ stack # <<>>
  BY DEF TypeOK, Idle
<1>2. Len(stack) \in Nat \ {0}
  BY <1>1, EmptySeq
<1>3. \A i \in 1 .. Len(stack) : stack[i] \in Frames
  BY <1>1, ElementOfSeq
<1>4. Top \in Frames
  BY <1>2, <1>3 DEF Top
<1>5. /\ Pop \in Seq(Frames) /\ Len(Pop) = Len(stack) - 1
      /\ \A i \in 1 .. Len(Pop) : Pop[i] = stack[i]
  <2>1. Len(stack) - 1 \in 0 .. Len(stack)
    BY <1>2
  <2>2. QED
    BY <1>1, <2>1, PrefixProperties DEF Pop
<1>6. ASSUME NEW f \in Frames
      PROVE  /\ Retop(f) \in Seq(Frames) /\ Len(Retop(f)) = Len(stack)
             /\ \A i \in 1 .. Len(stack) :
                  Retop(f)[i] = IF i = Len(stack) THEN f ELSE stack[i]
  <2>1. Len(stack) \in 1 .. Len(stack)
    BY <1>2
  <2>2. QED
    BY <1>1, <2>1, ExceptSeq DEF Retop
<1>7. QED
  BY <1>2, <1>4, <1>5, <1>6

(* A node that has a frame keeps the stack from being empty. *)
LEMMA HasFrameNotIdle ==
  ASSUME NEW n, NEW ks, TypeOK, HasFrame(n, ks)
  PROVE  ~Idle
BY DEF HasFrame, Idle, TypeOK

(* The observer that reads are recorded for is an observer. *)
LEMMA ObserverOnType ==
  ASSUME NEW stk \in Seq(Frames)
  PROVE  ObserverOn(stk) \in Observers \cup {None}
<1>1. stk # <<>> => stk[Len(stk)] \in Frames
  OBVIOUS
<1>2. QED
  BY <1>1 DEF ObserverOn, Frames

(* When reads are recorded, it is for the node on top of the stack. *)
LEMMA TopObserverType ==
  ASSUME TypeOK, ObserverOn(stack) # None
  PROVE  ~Idle /\ Top.node \in Observers /\ ObserverOn(stack) = Top.node
<1>1. ~Idle /\ ObserverOn(stack) = Top.node
  BY DEF ObserverOn, Idle, Top
<1>2. QED
  BY <1>1, TopType DEF Frames

-----------------------------------------------------------------------------
(* The helpers of the actions keep their variables well typed.              *)

(* Recording an edge (try_observe). *)
LEMMA ObserveType ==
  ASSUME TypeOK, NEW o \in Observers, NEW d \in Observables, NEW v \in Nat,
         Observe(o, d, v)
  PROVE  /\ dependencies' \in [Observers -> EdgeMaps]
         /\ dependents' \in [Observables -> SUBSET Observers]
BY DEF TypeOK, Observe, EdgeMaps

(* Forgetting what an observer read (clear_observer_dependencies). *)
LEMMA ClearDependenciesType ==
  ASSUME TypeOK, NEW o, ClearDependencies(o)
  PROVE  /\ dependencies' \in [Observers -> EdgeMaps]
         /\ dependents' \in [Observables -> SUBSET Observers]
BY DEF TypeOK, ClearDependencies, EdgeMaps, NoEdges

(* Forgetting an observable (Reactor::dispose). *)
LEMMA ForgetObservableType ==
  ASSUME TypeOK, NEW n \in Observables, ForgetObservable(n)
  PROVE  /\ dependencies' \in [Observers -> EdgeMaps]
         /\ dependents' \in [Observables -> SUBSET Observers]
<1>1. ASSUME NEW o \in Observers
      PROVE  [dependencies[o] EXCEPT ![n] = None] \in EdgeMaps
  BY DEF TypeOK, EdgeMaps
<1>2. NoEdges \in EdgeMaps
  BY DEF EdgeMaps, NoEdges
<1>3. QED
  BY <1>1, <1>2 DEF TypeOK, ForgetObservable

(* Latching and queueing a set of effects (EffectInner::schedule). *)
LEMMA ScheduleType ==
  ASSUME TypeOK, NEW E \in SUBSET Effects, Schedule(E)
  PROVE  scheduled' \subseteq Effects /\ lane' \in [Effects -> Nat]
BY DEF TypeOK, Schedule

(* Bumping a version and marking what depends on it (Reactor::trigger). *)
LEMMA TriggerType ==
  ASSUME TypeOK, NEW s \in Signals, Trigger(s)
  PROVE  /\ version' \in [Observables -> Nat]
         /\ state' \in [Observers -> {"Clean", "Check", "Dirty"}]
         /\ scheduled' \subseteq Effects /\ lane' \in [Effects -> Nat]
<1>1. version' \in [Observables -> Nat]
  BY DEF TypeOK, Trigger, Observables
<1>2. state' \in [Observers -> {"Clean", "Check", "Dirty"}]
  BY DEF TypeOK, Trigger, Marked
<1>3. QED
  BY <1>1, <1>2, ScheduleType DEF Trigger

(* Starting a refresh pushes one frame. *)
LEMMA StartComputeType ==
  ASSUME TypeOK, NEW c \in Computed, NEW t \in BOOLEAN, NEW stk \in Seq(Frames),
         StartCompute(c, t, stk)
  PROVE  /\ state' \in [Observers -> {"Clean", "Check", "Dirty"}]
         /\ dependencies' \in [Observers -> EdgeMaps]
         /\ dependents' \in [Observables -> SUBSET Observers]
         /\ stack' \in Seq(Frames) /\ stack' # <<>>
<1>1. Frame("compute", c, t) \in Frames
  BY FrameType DEF KindsOf, Observers
<1>2. stack' \in Seq(Frames) /\ stack' # <<>>
  BY <1>1 DEF StartCompute
<1>3. state' \in [Observers -> {"Clean", "Check", "Dirty"}]
  BY DEF StartCompute, TypeOK
<1>4. QED
  BY <1>2, <1>3, ClearDependenciesType DEF StartCompute

(* A stale node is verified or recomputed, which pushes one frame as well. *)
LEMMA StartRefreshType ==
  ASSUME TypeOK, NEW c \in Computed, NEW t \in BOOLEAN, NEW stk \in Seq(Frames),
         StartRefresh(c, t, stk)
  PROVE  /\ state' \in [Observers -> {"Clean", "Check", "Dirty"}]
         /\ dependencies' \in [Observers -> EdgeMaps]
         /\ dependents' \in [Observables -> SUBSET Observers]
         /\ stack' \in Seq(Frames) /\ stack' # <<>>
<1>1. CASE state[c] = "Check" /\ stack' = Append(stk, VerifyFrame(c, t))
           /\ UNCHANGED <<edges, state>>
  <2>1. VerifyFrame(c, t) \in Frames
    BY VerifyFrameType DEF Observers
  <2>2. QED
    BY <1>1, <2>1 DEF TypeOK, edges
<1>2. CASE StartCompute(c, t, stk)
  BY <1>2, StartComputeType
<1>3. QED
  BY <1>1, <1>2 DEF StartRefresh

(* The read that ends a refresh records an edge or leaves the maps alone. *)
LEMMA ObserveOnType ==
  ASSUME TypeOK, NEW stk \in Seq(Frames), NEW t \in BOOLEAN, NEW d \in Observables,
         NEW v \in Nat, ObserveOn(stk, t, d, v)
  PROVE  /\ dependencies' \in [Observers -> EdgeMaps]
         /\ dependents' \in [Observables -> SUBSET Observers]
<1>1. CASE t /\ ObserverOn(stk) # None
  BY <1>1, ObserverOnType, ObserveType DEF ObserveOn
<1>2. CASE ~(t /\ ObserverOn(stk) # None)
  BY <1>2 DEF ObserveOn, TypeOK, edges
<1>3. QED
  BY <1>1, <1>2

(* Leaving a frame while a panic unwinds. *)
LEMMA PopUnwindingType ==
  ASSUME TypeOK, ~Idle, PopUnwinding
  PROVE  stack' \in Seq(Frames) /\ panicking' \in BOOLEAN /\ (panicking' => ~Idle')
<1>1. stack' = Pop /\ panicking' = (Len(stack) > 1)
  BY DEF PopUnwinding
<1>2. Pop \in Seq(Frames) /\ Len(Pop) = Len(stack) - 1 /\ Len(stack) \in Nat
  BY TopType
<1>3. Len(stack) > 1 => Pop # <<>>
  BY <1>2
<1>4. panicking' \in BOOLEAN
  BY <1>1
<1>5. panicking' => stack' # <<>>
  BY <1>1, <1>3, Zenon
<1>6. QED
  BY <1>1, <1>2, <1>4, <1>5 DEF Idle

(* The cleanups of an effect to be disposed start. *)
LEMMA StartDisposeType ==
  ASSUME TypeOK, NEW e \in Effects, NEW stk \in Seq(Frames), StartDispose(e, stk)
  PROVE  disposed' \subseteq Effects /\ stack' \in Seq(Frames)
<1>1. Frame("dispose", e, FALSE) \in Frames
  BY FrameType, NodesAssumption DEF Kinds, KindsOf, Observers
<1>2. stack' = Append(stk, Frame("dispose", e, FALSE)) /\ disposed' = disposed \cup {e}
  BY DEF StartDispose
<1>3. Append(stk, Frame("dispose", e, FALSE)) \in Seq(Frames)
  BY <1>1, AppendProperties
<1>4. QED
  BY <1>2, <1>3 DEF TypeOK

-----------------------------------------------------------------------------
(* Type correctness.                                                       *)

(* User code runs only while no panic is in flight. *)
LEMMA UserStepType ==
  ASSUME TypeOK,
         \/ \E s \in Signals : Write(s) \/ ReadSignal(s)
         \/ \E c \in Computed : ReadCycle(c) \/ ReadClean(c) \/ ReadStale(c)
         \/ \E n \in Observables : DropHandle(n)
         \/ Panic
  PROVE  TypeOK'
<1>1. ASSUME NEW s \in Signals, Write(s) PROVE TypeOK'
  BY <1>1, TriggerType DEF Write, TypeOK, UserCode, edges, Idle
<1>2. ASSUME NEW s \in Signals, ReadSignal(s) PROVE TypeOK'
  <2>1. Top.node \in Observers
    BY <1>2, TopObserverType DEF ReadSignal
  <2>2. s \in Observables /\ version[s] \in Nat
    BY DEF TypeOK, Observables
  <2>3. /\ dependencies' \in [Observers -> EdgeMaps]
        /\ dependents' \in [Observables -> SUBSET Observers]
    <3>1. Observe(Top.node, s, version[s])
      BY <1>2 DEF ReadSignal
    <3>2. QED
      BY <2>1, <2>2, <3>1, ObserveType
  <2>4. QED
    BY <1>2, <2>3 DEF ReadSignal, TypeOK, UserCode, queue, Idle
<1>3. ASSUME NEW c \in Computed, ReadCycle(c) PROVE TypeOK'
  <2>1. ~Idle
    BY <1>3, HasFrameNotIdle DEF ReadCycle, Active
  <2>2. QED
    BY <1>3, <2>1 DEF ReadCycle, TypeOK, edges, queue, Idle
<1>4. ASSUME NEW c \in Computed, ReadClean(c) PROVE TypeOK'
  <2>1. Top.node \in Observers
    BY <1>4, TopObserverType DEF ReadClean
  <2>2. c \in Observables /\ version[c] \in Nat
    BY DEF TypeOK, Observables
  <2>3. /\ dependencies' \in [Observers -> EdgeMaps]
        /\ dependents' \in [Observables -> SUBSET Observers]
    <3>1. Observe(Top.node, c, version[c])
      BY <1>4 DEF ReadClean
    <3>2. QED
      BY <2>1, <2>2, <3>1, ObserveType
  <2>4. QED
    BY <1>4, <2>3 DEF ReadClean, CanRead, TypeOK, UserCode, queue, Idle
<1>5. ASSUME NEW c \in Computed, ReadStale(c) PROVE TypeOK'
  <2>1. PICK t \in BOOLEAN : StartRefresh(c, t, stack)
    BY <1>5 DEF ReadStale, TrackModes
  <2>2. QED
    BY <1>5, <2>1, StartRefreshType DEF ReadStale, CanRead, TypeOK, UserCode, queue, Idle
<1>6. ASSUME NEW n \in Observables, DropHandle(n) PROVE TypeOK'
  BY <1>6, ForgetObservableType DEF DropHandle, TypeOK, UserCode, queue, Idle
<1>7. ASSUME Panic PROVE TypeOK'
  BY <1>7 DEF Panic, TypeOK, edges, queue, Idle
<1>8. QED
  BY <1>1, <1>2, <1>3, <1>4, <1>5, <1>6, <1>7

(* So do the steps that take a run from a lane, dispose an effect or drop a run. *)
LEMMA EffectStepType ==
  ASSUME TypeOK, NEW e \in Effects, RunReady(e) \/ Dispose(e) \/ Discard(e)
  PROVE  TypeOK'
<1>1. ASSUME TakeRun(e)
      PROVE  scheduled' \subseteq Effects /\ lane' \in [Effects -> Nat] /\ ~panicking
  BY <1>1 DEF TakeRun, TypeOK, UserCode
<1>2. CASE RunNothing(e)
  BY <1>1, <1>2 DEF RunNothing, TypeOK, edges, Idle
<1>3. CASE RunDeferred(e)
  BY <1>1, <1>3 DEF RunDeferred, TypeOK, edges, Idle
<1>4. CASE RunStale(e)
  <2>1. Frame("teardown", e, FALSE) \in Frames /\ VerifyFrame(e, FALSE) \in Frames
    BY FrameType, VerifyFrameType, NodesAssumption DEF Kinds, KindsOf, Observers
  <2>2. stack' \in Seq(Frames)
    <3>1. /\ Append(stack, Frame("teardown", e, FALSE)) \in Seq(Frames)
          /\ Append(stack, VerifyFrame(e, FALSE)) \in Seq(Frames)
      BY <2>1, AppendProperties DEF TypeOK
    <3>2. QED
      BY <1>4, <3>1 DEF RunStale
  <2>3. QED
    BY <1>1, <1>4, <2>2 DEF RunStale, TypeOK, edges, Idle
<1>5. CASE Dispose(e)
  BY <1>5, StartDisposeType DEF Dispose, TypeOK, UserCode, edges, Idle
<1>6. CASE Discard(e)
  BY <1>6 DEF Discard, TypeOK, UserCode, edges, Idle
<1>7. QED
  BY <1>2, <1>3, <1>4, <1>5, <1>6 DEF RunReady

(* The steps of a verification. *)
LEMMA VerifyStepType ==
  ASSUME TypeOK,
         \/ \E d \in Observables : VerifyCycle(d) \/ VerifyRefresh(d)
         \/ VerifySame \/ VerifyChangedComputed \/ VerifyUnchangedComputed
         \/ VerifyChangedEffect \/ VerifyUnchangedEffect
  PROVE  TypeOK'
<1>1. ~panicking /\ ~Idle /\ Verifying
  BY DEF VerifyCycle, VerifyRefresh, VerifySame, VerifyChangedComputed,
         VerifyUnchangedComputed, VerifyChangedEffect, VerifyUnchangedEffect, Verifying
<1>2. Top \in Frames /\ Pop \in Seq(Frames)
  BY <1>1, TopType
<1>3. ASSUME NEW d \in Observables, VerifyCycle(d) PROVE TypeOK'
  BY <1>1, <1>3 DEF VerifyCycle, TypeOK, edges, queue, Idle
<1>4. ASSUME NEW d \in Observables, VerifyRefresh(d) PROVE TypeOK'
  <2> DEFINE stk == Retop([Top EXCEPT !.cur = d])
  <2>1. [Top EXCEPT !.cur = d] \in Frames
    BY <1>2 DEF Frames
  <2>2. stk \in Seq(Frames)
    BY <1>1, <2>1, TopType
  <2>3. CASE d \in Computed /\ StartRefresh(d, FALSE, stk)
    BY <1>1, <1>4, <2>2, <2>3, StartRefreshType DEF VerifyRefresh, TypeOK, queue, Idle
  <2>4. CASE stack' = stk /\ UNCHANGED <<edges, state>>
    BY <1>1, <1>4, <2>2, <2>4 DEF VerifyRefresh, TypeOK, edges, queue, Idle
  <2>5. QED
    BY <1>4, <2>3, <2>4 DEF VerifyRefresh
<1>5. CASE VerifySame
  <2>1. [Top EXCEPT !.cur = None, !.todo[Top.cur] = None] \in Frames
    <3>1. Top.todo \in EdgeMaps /\ [Top.todo EXCEPT ![Top.cur] = None] \in EdgeMaps
      BY <1>2 DEF Frames, EdgeMaps
    <3>2. QED
      BY <1>2, <3>1 DEF Frames
  <2>2. stack' \in Seq(Frames)
    BY <1>1, <1>5, <2>1, TopType DEF VerifySame
  <2>3. QED
    BY <1>1, <1>5, <2>2 DEF VerifySame, TypeOK, edges, queue, Idle
<1>6. CASE VerifyChangedComputed
  <2>1. StartCompute(Top.node, Top.tracked, Pop) /\ Top.node \in Computed
        /\ Top.tracked \in BOOLEAN
    BY <1>2, <1>6 DEF VerifyChangedComputed, Frames
  <2>2. QED
    BY <1>1, <1>2, <1>6, <2>1, StartComputeType DEF VerifyChangedComputed, TypeOK, queue, Idle
<1>7. CASE VerifyUnchangedComputed
  <2>1. /\ Top.tracked \in BOOLEAN /\ Top.node \in Observables
        /\ version[Top.node] \in Nat
    BY <1>2, <1>7 DEF VerifyUnchangedComputed, Frames, TypeOK, Observables
  <2>2. QED
    BY <1>1, <1>2, <1>7, <2>1, ObserveOnType DEF VerifyUnchangedComputed, TypeOK, queue, Idle
<1>8. CASE VerifyChangedEffect
  <2>1. Frame("teardown", Top.node, FALSE) \in Frames
    BY <1>2, <1>8, FrameType, NodesAssumption DEF VerifyChangedEffect, Frames, Kinds, KindsOf
  <2>2. stack' \in Seq(Frames)
    BY <1>1, <1>2, <1>8, <2>1, TopType DEF VerifyChangedEffect
  <2>3. QED
    BY <1>1, <1>8, <2>2 DEF VerifyChangedEffect, TypeOK, edges, queue, Idle
<1>9. CASE VerifyUnchangedEffect
  BY <1>1, <1>2, <1>9 DEF VerifyUnchangedEffect, TypeOK, edges, queue, Idle
<1>10. QED
  BY <1>3, <1>4, <1>5, <1>6, <1>7, <1>8, <1>9

(* The steps of effects that come to an end, and of computations. *)
LEMMA ReturnStepType ==
  ASSUME TypeOK, ComputeReturn \/ TeardownReturn \/ BodyReturn \/ DisposeReturn
  PROVE  TypeOK'
<1>1. ~panicking /\ ~Idle
  BY DEF ComputeReturn, TeardownReturn, BodyReturn, DisposeReturn
<1>2. Top \in Frames /\ Pop \in Seq(Frames)
  BY <1>1, TopType
<1>3. CASE ComputeReturn
  <2>1. Top.node \in Computed
    BY <1>2, <1>3 DEF ComputeReturn, Frames, KindsOf, Kinds
  <2>2. PICK v \in Nat : /\ version' = [version EXCEPT ![Top.node] = v]
                         /\ ObserveOn(Pop, Top.tracked, Top.node, v)
    <3>1. PICK changed \in BOOLEAN :
            LET v == IF changed THEN version[Top.node] + 1 ELSE version[Top.node] IN
            /\ version' = [version EXCEPT ![Top.node] = v]
            /\ ObserveOn(Pop, Top.tracked, Top.node, v)
      BY <1>3 DEF ComputeReturn
    <3>2. version[Top.node] \in Nat /\ version[Top.node] + 1 \in Nat
      BY <2>1 DEF TypeOK, Observables
    <3>3. CASE changed
      BY <3>1, <3>2, <3>3, Zenon
    <3>4. CASE ~changed
      BY <3>1, <3>2, <3>4, Zenon
    <3>5. QED
      BY <3>3, <3>4
  <2>3. version' \in [Observables -> Nat]
    BY <2>2 DEF TypeOK
  <2>4. /\ dependencies' \in [Observers -> EdgeMaps]
        /\ dependents' \in [Observables -> SUBSET Observers]
    BY <1>2, <2>1, <2>2, ObserveOnType DEF Frames, Observables
  <2>5. QED
    BY <1>1, <1>2, <1>3, <2>3, <2>4 DEF ComputeReturn, TypeOK, queue, Idle
<1>4. CASE TeardownReturn
  <2>1. Frame("body", Top.node, FALSE) \in Frames
    BY <1>2, <1>4, FrameType DEF TeardownReturn, Frames, Kinds, KindsOf
  <2>2. stack' \in Seq(Frames)
    BY <1>1, <1>2, <1>4, <2>1, TopType DEF TeardownReturn
  <2>3. /\ dependencies' \in [Observers -> EdgeMaps]
        /\ dependents' \in [Observables -> SUBSET Observers]
    BY <1>4, ClearDependenciesType DEF TeardownReturn, TypeOK, edges
  <2>4. QED
    BY <1>1, <1>4, <2>2, <2>3 DEF TeardownReturn, TypeOK, queue, Idle
<1>5. CASE BodyReturn
  <2>1. {Top.node} \cap rerun \in SUBSET Effects
    BY DEF TypeOK
  <2>2. scheduled' \subseteq Effects /\ lane' \in [Effects -> Nat]
    BY <1>5, <2>1, ScheduleType DEF BodyReturn
  <2>3. QED
    BY <1>1, <1>2, <1>5, <2>2 DEF BodyReturn, TypeOK, edges, Idle
<1>6. CASE DisposeReturn
  BY <1>1, <1>2, <1>6, ClearDependenciesType DEF DisposeReturn, Unhook, TypeOK, queue, Idle
<1>7. QED
  BY <1>3, <1>4, <1>5, <1>6

(* The guards that run while a panic unwinds. *)
LEMMA UnwindStepType ==
  ASSUME TypeOK,
         \/ ComparatorPanic
         \/ UnwindComputed \/ UnwindEffect \/ BoundaryCatch \/ UnwindDispose
  PROVE  TypeOK'
<1>1. ~Idle
  BY DEF ComparatorPanic, UnwindComputed, UnwindEffect, BoundaryCatch, UnwindDispose, TypeOK
<1>2. Top \in Frames /\ Pop \in Seq(Frames)
  BY <1>1, TopType
<1>3. PopUnwinding =>
        stack' \in Seq(Frames) /\ panicking' \in BOOLEAN /\ (panicking' => ~Idle')
  BY <1>1, PopUnwindingType
<1>4. CASE ComparatorPanic
  BY <1>3, <1>4 DEF ComparatorPanic, TypeOK, edges, queue
<1>5. CASE UnwindComputed
  BY <1>3, <1>5 DEF UnwindComputed, TypeOK, edges, queue
<1>6. CASE UnwindEffect
  <2>1. {Top.node} \in SUBSET Effects
    BY <1>6 DEF UnwindEffect
  <2>2. /\ scheduled' \subseteq Effects /\ lane' \in [Effects -> Nat]
        /\ state' \in [Observers -> {"Clean", "Check", "Dirty"}]
    BY <1>6, <2>1, ScheduleType DEF UnwindEffect, Recover, TypeOK
  <2>3. QED
    BY <1>3, <1>6, <2>2 DEF UnwindEffect, TypeOK, edges
<1>7. CASE BoundaryCatch
  <2>1. Top.node \in Effects
    BY <1>7, ClosuresAssumption DEF BoundaryCatch
  <2>2. stack' \in Seq(Frames) /\ disposed' \subseteq Effects
    BY <1>2, <1>7, <2>1, StartDisposeType DEF BoundaryCatch, TypeOK
  <2>3. /\ state' \in [Observers -> {"Clean", "Check", "Dirty"}]
        /\ scheduled' \subseteq Effects /\ lane' \in [Effects -> Nat]
    BY <1>7, <2>1 DEF BoundaryCatch, TypeOK
  <2>4. QED
    BY <1>7, <2>2, <2>3 DEF BoundaryCatch, TypeOK, edges, Idle
<1>8. CASE UnwindDispose
  BY <1>3, <1>8, ClearDependenciesType DEF UnwindDispose, Unhook, TypeOK, queue
<1>9. QED
  BY <1>4, <1>5, <1>6, <1>7, <1>8

(* TypeOK is an invariant of the specification: the stack holds well-formed *)
(* frames only, and a panic is in flight only while there is a frame left   *)
(* to unwind.                                                               *)
THEOREM TypeCorrect == Spec => []TypeOK
<1>1. Init => TypeOK
  <2>1. NoEdges \in EdgeMaps
    BY DEF NoEdges, EdgeMaps
  <2>2. QED
    <3> SUFFICES ASSUME Init PROVE TypeOK
      OBVIOUS
    <3>1. <<>> \in Seq(Frames)
      OBVIOUS
    <3>2. QED
      BY <2>1, <3>1 DEF Init, TypeOK, Idle
<1>2. TypeOK /\ [Next]_vars => TypeOK'
  <2>1. SUFFICES ASSUME TypeOK, Next \/ UNCHANGED vars PROVE TypeOK'
    OBVIOUS
  <2>2. CASE UNCHANGED vars
    BY <2>1, <2>2 DEF vars, edges, queue, TypeOK, Idle
  <2>3. CASE Next
    BY <2>1, <2>3, UserStepType, EffectStepType, VerifyStepType, ReturnStepType,
       UnwindStepType DEF Next, Continue
  <2>4. QED
    BY <2>1, <2>2, <2>3
<1>3. QED
  BY <1>1, <1>2, PTL DEF Spec

-----------------------------------------------------------------------------
(* The two edge maps.                                                      *)

(* The three ways in which a step may change the edges. *)
EdgeStep ==
  \/ UNCHANGED edges
  \/ \E o \in Observers, d \in Observables, v \in Nat : Observe(o, d, v)
  \/ \E o \in Observers : ClearDependencies(o)
  \/ \E n \in Observables : ForgetObservable(n)

(* Each of the three updates both maps. *)
LEMMA EdgeStepAgrees ==
  ASSUME TypeOK, EdgesAgree, EdgeStep
  PROVE  EdgesAgree'
<1>1. CASE UNCHANGED edges
  BY <1>1 DEF EdgesAgree, edges
<1>2. ASSUME NEW o \in Observers, NEW d \in Observables, NEW v \in Nat, Observe(o, d, v)
      PROVE  EdgesAgree'
  <2>1. v # None
    BY NodesAssumption
  <2>2. ASSUME NEW p \in Observers, NEW e \in Observables
        PROVE  dependencies'[p][e] # None <=> p \in dependents'[e]
    <3>1. dependencies[p][e] # None <=> p \in dependents[e]
      BY DEF EdgesAgree
    <3>2. /\ dependencies'[p][e] = IF p = o /\ e = d THEN v ELSE dependencies[p][e]
          /\ dependents'[e] = IF e = d THEN dependents[e] \cup {o} ELSE dependents[e]
      BY <1>2 DEF Observe, TypeOK, EdgeMaps
    <3>3. QED
      BY <2>1, <3>1, <3>2
  <2>3. QED
    BY <2>2 DEF EdgesAgree
<1>3. ASSUME NEW o \in Observers, ClearDependencies(o)
      PROVE  EdgesAgree'
  <2>1. ASSUME NEW p \in Observers, NEW e \in Observables
        PROVE  dependencies'[p][e] # None <=> p \in dependents'[e]
    <3>1. dependencies[p][e] # None <=> p \in dependents[e]
      BY DEF EdgesAgree
    <3>2. /\ dependencies'[p] = IF p = o THEN NoEdges ELSE dependencies[p]
          /\ dependents'[e] = dependents[e] \ {o}
      BY <1>3 DEF ClearDependencies, TypeOK
    <3>3. QED
      BY <3>1, <3>2 DEF NoEdges
  <2>2. QED
    BY <2>1 DEF EdgesAgree
<1>4. ASSUME NEW n \in Observables, ForgetObservable(n)
      PROVE  EdgesAgree'
  <2>1. ASSUME NEW p \in Observers, NEW e \in Observables
        PROVE  dependencies'[p][e] # None <=> p \in dependents'[e]
    <3>1. dependencies[p][e] # None <=> p \in dependents[e]
      BY DEF EdgesAgree
    <3>2. dependencies'[p] = IF p = n THEN NoEdges
                            ELSE [dependencies[p] EXCEPT ![n] = None]
      BY <1>4 DEF ForgetObservable
    <3>3. dependencies'[p][e] = IF p = n \/ e = n THEN None ELSE dependencies[p][e]
      BY <3>2 DEF NoEdges, TypeOK, EdgeMaps
    <3>4. dependents'[e] = IF e = n THEN {} ELSE dependents[e] \ {n}
      BY <1>4 DEF ForgetObservable
    <3>5. QED
      BY <3>1, <3>3, <3>4
  <2>2. QED
    BY <2>1 DEF EdgesAgree
<1>5. QED
  BY <1>1, <1>2, <1>3, <1>4 DEF EdgeStep

(* The helpers that touch edges take such a step. *)
LEMMA HelperEdges ==
  ASSUME TypeOK, NEW stk \in Seq(Frames), NEW c \in Computed, NEW t \in BOOLEAN
  PROVE  /\ StartRefresh(c, t, stk) => EdgeStep
         /\ StartCompute(c, t, stk) => EdgeStep
         /\ \A v \in Nat : ObserveOn(stk, t, c, v) => EdgeStep
<1>1. StartCompute(c, t, stk) => EdgeStep
  BY DEF StartCompute, EdgeStep, Observers
<1>2. StartRefresh(c, t, stk) => EdgeStep
  BY <1>1 DEF StartRefresh, EdgeStep, edges
<1>3. ASSUME NEW v \in Nat, ObserveOn(stk, t, c, v) PROVE EdgeStep
  BY <1>3, ObserverOnType DEF ObserveOn, EdgeStep, Observables
<1>4. QED
  BY <1>1, <1>2, <1>3

(* So does every step of the system. *)
LEMMA NextEdges ==
  ASSUME TypeOK, Next
  PROVE  EdgeStep
<1>1. ASSUME NEW s \in Signals, Write(s) \/ ReadSignal(s) PROVE EdgeStep
  <2>1. CASE Write(s)
    BY <2>1 DEF Write, EdgeStep
  <2>2. CASE ReadSignal(s)
    <3>1. Top.node \in Observers /\ s \in Observables /\ version[s] \in Nat
      BY <2>2, TopObserverType DEF ReadSignal, TypeOK, Observables
    <3>2. QED
      BY <2>2, <3>1 DEF ReadSignal, EdgeStep
  <2>3. QED
    BY <1>1, <2>1, <2>2
<1>2. ASSUME NEW c \in Computed, ReadCycle(c) \/ ReadClean(c) \/ ReadStale(c) PROVE EdgeStep
  <2>1. CASE ReadCycle(c)
    BY <2>1 DEF ReadCycle, EdgeStep
  <2>2. CASE ReadClean(c)
    <3>1. Top.node \in Observers /\ c \in Observables /\ version[c] \in Nat
      BY <2>2, TopObserverType DEF ReadClean, TypeOK, Observables
    <3>2. QED
      BY <2>2, <3>1 DEF ReadClean, EdgeStep
  <2>3. CASE ReadStale(c)
    <3>1. PICK t \in BOOLEAN : StartRefresh(c, t, stack)
      BY <2>3 DEF ReadStale, TrackModes
    <3>2. stack \in Seq(Frames)
      BY DEF TypeOK
    <3>3. QED
      BY <3>1, <3>2, HelperEdges
  <2>4. QED
    BY <1>2, <2>1, <2>2, <2>3
<1>3. ASSUME NEW e \in Effects, RunReady(e) \/ Dispose(e) \/ Discard(e) PROVE EdgeStep
  BY <1>3 DEF RunReady, RunNothing, RunDeferred, RunStale, Dispose, Discard, EdgeStep
<1>4. ASSUME NEW n \in Observables, DropHandle(n) PROVE EdgeStep
  BY <1>4 DEF DropHandle, EdgeStep
<1>5. CASE Panic \/ ComparatorPanic
  BY <1>5 DEF Panic, ComparatorPanic, EdgeStep
<1>6. CASE VerifySame \/ VerifyChangedEffect \/ VerifyUnchangedEffect
           \/ BodyReturn \/ UnwindComputed \/ UnwindEffect \/ BoundaryCatch
  BY <1>6 DEF VerifySame, VerifyChangedEffect, VerifyUnchangedEffect, BodyReturn,
              UnwindComputed, UnwindEffect, BoundaryCatch, EdgeStep
<1>7. ASSUME NEW d \in Observables, VerifyCycle(d) \/ VerifyRefresh(d) PROVE EdgeStep
  <2>1. CASE VerifyCycle(d)
    BY <2>1 DEF VerifyCycle, EdgeStep
  <2>2. CASE VerifyRefresh(d)
    <3>1. ~Idle
      BY <2>2 DEF VerifyRefresh, Verifying
    <3>2. [Top EXCEPT !.cur = d] \in Frames
      BY <3>1, TopType DEF Frames
    <3>3. Retop([Top EXCEPT !.cur = d]) \in Seq(Frames)
      BY <3>1, <3>2, TopType
    <3>4. CASE d \in Computed /\ StartRefresh(d, FALSE, Retop([Top EXCEPT !.cur = d]))
      BY <3>3, <3>4, HelperEdges
    <3>5. CASE UNCHANGED edges
      BY <3>5 DEF EdgeStep
    <3>6. QED
      BY <2>2, <3>4, <3>5 DEF VerifyRefresh
  <2>3. QED
    BY <1>7, <2>1, <2>2
<1>8. CASE VerifyChangedComputed \/ VerifyUnchangedComputed \/ ComputeReturn
  <2>1. ~Idle
    BY <1>8 DEF VerifyChangedComputed, VerifyUnchangedComputed, ComputeReturn, Verifying
  <2>2. Top \in Frames /\ Pop \in Seq(Frames)
    BY <2>1, TopType
  <2>3. Top.node \in Computed /\ Top.tracked \in BOOLEAN
    BY <1>8, <2>2 DEF VerifyChangedComputed, VerifyUnchangedComputed, ComputeReturn,
                      Frames, KindsOf, Kinds
  <2>4. version[Top.node] \in Nat /\ version[Top.node] + 1 \in Nat
    BY <2>3 DEF TypeOK, Observables
  <2>5. CASE VerifyChangedComputed
    BY <2>2, <2>3, <2>5, HelperEdges DEF VerifyChangedComputed
  <2>6. CASE VerifyUnchangedComputed
    BY <2>2, <2>3, <2>4, <2>6, HelperEdges DEF VerifyUnchangedComputed
  <2>7. CASE ComputeReturn
    <3>1. \E v \in {version[Top.node], version[Top.node] + 1} :
            ObserveOn(Pop, Top.tracked, Top.node, v)
      BY <2>7 DEF ComputeReturn
    <3>2. QED
      BY <2>2, <2>3, <2>4, <3>1, HelperEdges
  <2>8. QED
    BY <1>8, <2>5, <2>6, <2>7
<1>9. CASE TeardownReturn \/ DisposeReturn \/ UnwindDispose
  <2>1. ~Idle
    BY <1>9 DEF TeardownReturn, DisposeReturn, UnwindDispose, TypeOK
  <2>2. Top.node \in Observers
    BY <2>1, TopType DEF Frames
  <2>3. QED
    BY <1>9, <2>2 DEF TeardownReturn, DisposeReturn, UnwindDispose, Unhook, EdgeStep
<1>10. QED
  BY <1>1, <1>2, <1>3, <1>4, <1>5, <1>6, <1>7, <1>8, <1>9 DEF Next, Continue

(* EdgesAgree is an invariant: the reactor's two edge maps mirror each other *)
(* whatever closures, disposals and panics interleave.                       *)
THEOREM EdgesCorrect == Spec => []EdgesAgree
<1>1. Init => EdgesAgree
  BY DEF Init, EdgesAgree, NoEdges
<1>2. TypeOK /\ EdgesAgree /\ [Next]_vars => EdgesAgree'
  <2>1. TypeOK /\ [Next]_vars => EdgeStep
    BY NextEdges DEF EdgeStep, vars
  <2>2. QED
    BY <2>1, EdgeStepAgrees
<1>3. QED
  BY <1>1, <1>2, TypeCorrect, PTL DEF Spec

-----------------------------------------------------------------------------
(* Latch and lane change together, in one of five ways. *)
LatchStep ==
  \/ UNCHANGED <<scheduled, lane, disposed>>
  \/ /\ \E E \in SUBSET Effects : Schedule(E)
     /\ UNCHANGED disposed
  \/ /\ \E e \in Effects :
          /\ lane[e] > 0
          /\ lane' = [lane EXCEPT ![e] = @ - 1]
          /\ scheduled' = scheduled \ {e}
     /\ UNCHANGED disposed
  \/ \E e \in Effects :
       /\ lane' = lane
       /\ scheduled' = scheduled \ {e} /\ disposed' = disposed \cup {e}
  \/ \E e \in Effects \ (disposed \cup scheduled) :
       /\ lane' = [lane EXCEPT ![e] = @ + 1]
       /\ scheduled' = scheduled \ {e} /\ disposed' = disposed \cup {e}

(* Each of them keeps the latch. *)
LEMMA LatchStepMatches ==
  ASSUME TypeOK, LatchMatchesLane, LatchStep
  PROVE  LatchMatchesLane'
<1>0. lane \in [Effects -> Nat]
  BY DEF TypeOK
<1>1. CASE UNCHANGED <<scheduled, lane, disposed>>
  BY <1>1 DEF LatchMatchesLane
<1>2. ASSUME NEW E \in SUBSET Effects, Schedule(E), UNCHANGED disposed
      PROVE  LatchMatchesLane'
  <2> DEFINE fresh == (E \cap registered) \ (disposed \cup scheduled)
  <2>1. scheduled' = scheduled \cup fresh
    BY <1>2 DEF Schedule
  <2>2. ASSUME NEW e \in Effects
        PROVE  lane'[e] = IF e \in fresh THEN lane[e] + 1 ELSE lane[e]
    BY <1>0, <1>2 DEF Schedule
  <2>3. ASSUME NEW e \in Effects, e \in fresh PROVE lane[e] = 0
    BY <1>0, <2>3 DEF LatchMatchesLane
  <2> HIDE DEF fresh
  <2>4. \A e \in fresh : e \notin disposed /\ e \notin scheduled
    BY DEF fresh
  <2>5. QED
    BY <1>0, <1>2, <2>1, <2>2, <2>3, <2>4 DEF LatchMatchesLane
<1>3. ASSUME NEW e \in Effects, lane[e] > 0, lane' = [lane EXCEPT ![e] = @ - 1],
             scheduled' = scheduled \ {e}, UNCHANGED disposed
      PROVE  LatchMatchesLane'
  BY <1>0, <1>3 DEF LatchMatchesLane
<1>4. ASSUME NEW e \in Effects, lane' = lane, scheduled' = scheduled \ {e},
             disposed' = disposed \cup {e}
      PROVE  LatchMatchesLane'
  BY <1>4 DEF LatchMatchesLane
<1>5. ASSUME NEW e \in Effects \ (disposed \cup scheduled),
             lane' = [lane EXCEPT ![e] = @ + 1],
             scheduled' = scheduled \ {e}, disposed' = disposed \cup {e}
      PROVE  LatchMatchesLane'
  BY <1>0, <1>5 DEF LatchMatchesLane
<1>6. QED
  BY <1>1, <1>2, <1>3, <1>4, <1>5 DEF LatchStep

(* And every step of the system is one of them. *)
LEMMA NextLatch ==
  ASSUME TypeOK, Next
  PROVE  LatchStep
<1>1. ASSUME NEW s \in Signals, Write(s) \/ ReadSignal(s) PROVE LatchStep
  <2>1. Reached(s) \cap Effects \in SUBSET Effects
    OBVIOUS
  <2>2. CASE Write(s)
    BY <2>1, <2>2 DEF Write, Trigger, LatchStep
  <2>3. CASE ReadSignal(s)
    BY <2>3 DEF ReadSignal, LatchStep, queue
  <2>4. QED
    BY <1>1, <2>2, <2>3
<1>2. ASSUME NEW c \in Computed, ReadCycle(c) \/ ReadClean(c) \/ ReadStale(c)
      PROVE  LatchStep
  BY <1>2 DEF ReadCycle, ReadClean, ReadStale, LatchStep, queue
<1>3. ASSUME NEW e \in Effects, RunReady(e) \/ Dispose(e) \/ Discard(e) PROVE LatchStep
  <2>1. CASE RunReady(e) \/ Discard(e)
    BY <2>1 DEF RunReady, RunNothing, RunDeferred, RunStale, TakeRun, Discard, LatchStep
  <2>2. CASE Dispose(e)
    BY <2>2 DEF Dispose, StartDispose, LatchStep
  <2>3. QED
    BY <1>3, <2>1, <2>2
<1>4. ASSUME NEW n \in Observables, DropHandle(n) PROVE LatchStep
  BY <1>4 DEF DropHandle, LatchStep, queue
<1>5. ASSUME NEW d \in Observables, VerifyCycle(d) \/ VerifyRefresh(d) PROVE LatchStep
  BY <1>5 DEF VerifyCycle, VerifyRefresh, LatchStep, queue
<1>6. CASE \/ Panic \/ ComparatorPanic \/ UnwindComputed \/ UnwindDispose
           \/ VerifySame \/ VerifyChangedComputed \/ VerifyUnchangedComputed
           \/ VerifyChangedEffect \/ VerifyUnchangedEffect
           \/ ComputeReturn \/ TeardownReturn \/ DisposeReturn
  BY <1>6 DEF Panic, ComparatorPanic, UnwindComputed, UnwindDispose,
              VerifySame, VerifyChangedComputed, VerifyUnchangedComputed,
              VerifyChangedEffect, VerifyUnchangedEffect,
              ComputeReturn, TeardownReturn, DisposeReturn, LatchStep, queue
<1>7. CASE BodyReturn \/ UnwindEffect \/ BoundaryCatch
  <2>1. ~Idle
    BY <1>7 DEF BodyReturn, UnwindEffect, BoundaryCatch, TypeOK
  <2>2. Top \in Frames
    BY <2>1, TopType
  <2>3. CASE BodyReturn
    <3>1. Top.node \in Effects
      BY <2>2, <2>3 DEF BodyReturn, Frames, KindsOf, Kinds, Observers
    <3>2. {Top.node} \cap rerun \in SUBSET Effects
      BY <3>1
    <3>3. QED
      BY <2>3, <3>2 DEF BodyReturn, LatchStep
  <2>4. CASE UnwindEffect
    <3>1. {Top.node} \in SUBSET Effects
      BY <2>4 DEF UnwindEffect
    <3>2. QED
      BY <2>4, <3>1 DEF UnwindEffect, Recover, LatchStep
  <2>5. CASE BoundaryCatch
    <3>1. Top.node \in Effects
      BY <2>5, ClosuresAssumption DEF BoundaryCatch
    <3>2. CASE Top.node \in disposed
      BY <2>5, <3>2 DEF BoundaryCatch, LatchStep
    <3>3. CASE Top.node \notin disposed /\ Top.kind = "verify" /\ Top.node \notin scheduled
      BY <2>5, <3>1, <3>3 DEF BoundaryCatch, StartDispose, LatchStep
    <3>4. CASE Top.node \notin disposed /\ ~(Top.kind = "verify" /\ Top.node \notin scheduled)
      BY <2>5, <3>1, <3>4 DEF BoundaryCatch, StartDispose, LatchStep
    <3>5. QED
      BY <3>2, <3>3, <3>4
  <2>6. QED
    BY <1>7, <2>3, <2>4, <2>5
<1>8. QED
  BY <1>1, <1>2, <1>3, <1>4, <1>5, <1>6, <1>7 DEF Next, Continue

(* LatchMatchesLane is an invariant: no effect is ever queued twice, and a   *)
(* live one is queued exactly while its latch is set, though four places of  *)
(* the code change the latch and each of them can unwind.                    *)
THEOREM LatchCorrect == Spec => []LatchMatchesLane
<1>1. Init => LatchMatchesLane
  BY DEF Init, LatchMatchesLane
<1>2. TypeOK /\ LatchMatchesLane /\ [Next]_vars => LatchMatchesLane'
  <2>1. TypeOK /\ [Next]_vars => LatchStep
    BY NextLatch DEF LatchStep, vars, queue
  <2>2. QED
    BY <2>1, LatchStepMatches
<1>3. QED
  BY <1>1, <1>2, TypeCorrect, PTL DEF Spec

-----------------------------------------------------------------------------
(* Above a frame in which a node runs, nothing of the node but its disposal  *)
(* is ever on the stack.  Unlike NoReentry this is inductive: it speaks also *)
(* of what may come to run, a verification or a teardown.                    *)
RunningKinds == {"compute", "teardown", "body"}
Runs(stk, n) == \E i \in DOMAIN stk : stk[i].node = n /\ stk[i].kind \in RunningKinds
Exclusive(stk) ==
  \A i, j \in DOMAIN stk :
    j < i /\ stk[i].node = stk[j].node /\ stk[j].kind \in RunningKinds
      => stk[i].kind = "dispose"

(* Popping and replacing the top frame keep the others. *)
LEMMA PopExclusive ==
  ASSUME TypeOK, ~Idle, Exclusive(stack)
  PROVE  /\ Exclusive(Pop)
         /\ Top.kind # "dispose" => ~Runs(Pop, Top.node)
<1>1. /\ Len(stack) \in Nat \ {0} /\ Pop \in Seq(Frames) /\ Len(Pop) = Len(stack) - 1
      /\ \A i \in 1 .. Len(Pop) : Pop[i] = stack[i]
  BY TopType
<1>2. DOMAIN stack = 1 .. Len(stack) /\ DOMAIN Pop = 1 .. Len(Pop) /\ Top = stack[Len(stack)]
  BY <1>1 DEF TypeOK, Top
<1>3. DOMAIN Pop \subseteq DOMAIN stack /\ \A i \in DOMAIN Pop : Pop[i] = stack[i]
  BY <1>1, <1>2
<1>4. Len(stack) \in DOMAIN stack /\ \A i \in DOMAIN Pop : i < Len(stack)
  BY <1>1, <1>2
<1>5. QED
  BY <1>2, <1>3, <1>4 DEF Exclusive, Runs

(* Pushing a frame of a node that does not run, or of a disposal. *)
LEMMA PushExclusive ==
  ASSUME NEW stk \in Seq(Frames), Exclusive(stk), NEW f \in Frames,
         f.kind = "dispose" \/ ~Runs(stk, f.node)
  PROVE  Exclusive(Append(stk, f))
<1>1. /\ DOMAIN Append(stk, f) = 1 .. Len(stk) + 1 /\ DOMAIN stk = 1 .. Len(stk)
      /\ Len(stk) \in Nat
      /\ Append(stk, f)[Len(stk) + 1] = f
      /\ \A i \in 1 .. Len(stk) : Append(stk, f)[i] = stk[i]
  OBVIOUS
<1>2. ASSUME NEW i \in DOMAIN Append(stk, f), NEW j \in DOMAIN Append(stk, f), j < i,
             Append(stk, f)[i].node = Append(stk, f)[j].node,
             Append(stk, f)[j].kind \in RunningKinds
      PROVE  Append(stk, f)[i].kind = "dispose"
  <2>1. j \in DOMAIN stk /\ Append(stk, f)[j] = stk[j]
    BY <1>1, <1>2
  <2>2. CASE i \in DOMAIN stk
    BY <1>1, <1>2, <2>1, <2>2 DEF Exclusive
  <2>3. CASE i \notin DOMAIN stk
    <3>1. Append(stk, f)[i] = f
      BY <1>1, <2>3
    <3>2. QED
      BY <1>2, <2>1, <3>1 DEF Runs
  <2>4. QED
    BY <2>2, <2>3
<1>3. QED
  BY <1>2 DEF Exclusive

(* What replaces the top frame is what is pushed on the rest. *)
LEMMA RetopIsPush ==
  ASSUME TypeOK, ~Idle, NEW f \in Frames
  PROVE  Retop(f) = Append(Pop, f)
<1>1. /\ Len(stack) \in Nat \ {0} /\ Pop \in Seq(Frames) /\ Len(Pop) = Len(stack) - 1
      /\ \A i \in 1 .. Len(Pop) : Pop[i] = stack[i]
  BY TopType
<1>2. stack \in Seq(Frames)
  BY DEF TypeOK
<1>3. Retop(f) \in Seq(Frames) /\ Len(Retop(f)) = Len(stack)
      /\ \A i \in 1 .. Len(stack) : Retop(f)[i] = IF i = Len(stack) THEN f ELSE stack[i]
  BY <1>1, <1>2 DEF Retop
<1>4. Append(Pop, f) \in Seq(Frames) /\ Len(Append(Pop, f)) = Len(stack)
      /\ \A i \in 1 .. Len(stack) : Append(Pop, f)[i] = IF i = Len(stack) THEN f ELSE stack[i]
  BY <1>1
<1>5. QED
  BY <1>3, <1>4

(* The checks of the code tell whether a node runs. *)
LEMMA ChecksTell ==
  ASSUME TypeOK
  PROVE  /\ \A c \in Computed : ~Active(c) => ~Runs(stack, c)
         /\ \A e \in Effects : ~Running(e) => ~Runs(stack, e)
<1>1. \A i \in DOMAIN stack : stack[i] \in Frames
  BY DEF TypeOK
<1>2. \A i \in DOMAIN stack : stack[i].kind \in KindsOf(stack[i].node)
  BY <1>1 DEF Frames
<1>3. \A i \in DOMAIN stack :
        /\ stack[i].node \in Computed => stack[i].kind \in {"verify", "compute"}
        /\ stack[i].node \in Effects => stack[i].kind # "compute"
  BY <1>2, NodesAssumption DEF KindsOf, Kinds
<1>4. QED
  BY <1>3 DEF Active, Running, HasFrame, Runs, RunningKinds

(* The frames of a step: one is taken away, replaced by one of its node,     *)
(* pushed where the node does not run, perhaps on a verification that has    *)
(* been advanced.                                                            *)
FrameStep ==
  \/ UNCHANGED stack
  \/ ~Idle /\ stack' = Pop
  \/ /\ ~Idle
     /\ \E f \in Frames :
          /\ f.kind = "dispose" \/ (f.node = Top.node /\ Top.kind # "dispose")
          /\ stack' = Append(Pop, f)
  \/ \E f \in Frames :
       /\ f.kind = "dispose" \/ ~Runs(stack, f.node)
       /\ stack' = Append(stack, f)
  \/ /\ ~Idle /\ Top.kind = "verify"
     /\ \E f \in Frames, g \in Frames :
          /\ g.node = Top.node /\ g.kind = "verify" /\ ~Runs(stack, f.node)
          /\ stack' = Append(Append(Pop, g), f)

LEMMA FrameStepExclusive ==
  ASSUME TypeOK, Exclusive(stack), FrameStep
  PROVE  Exclusive(stack')
<1>1. CASE UNCHANGED stack
  BY <1>1
<1>2. CASE ~Idle /\ stack' = Pop
  BY <1>2, PopExclusive
<1>3. ASSUME ~Idle, NEW f \in Frames, stack' = Append(Pop, f),
             f.kind = "dispose" \/ (f.node = Top.node /\ Top.kind # "dispose")
      PROVE  Exclusive(stack')
  <2>1. Pop \in Seq(Frames) /\ Exclusive(Pop)
    BY <1>3, TopType, PopExclusive
  <2>2. f.kind = "dispose" \/ ~Runs(Pop, f.node)
    BY <1>3, PopExclusive
  <2>3. QED
    BY <1>3, <2>1, <2>2, PushExclusive
<1>4. ASSUME NEW f \in Frames, f.kind = "dispose" \/ ~Runs(stack, f.node),
             stack' = Append(stack, f)
      PROVE  Exclusive(stack')
  <2>1. stack \in Seq(Frames)
    BY DEF TypeOK
  <2>2. QED
    BY <1>4, <2>1, PushExclusive
<1>5. ASSUME ~Idle, Top.kind = "verify", NEW f \in Frames, NEW g \in Frames,
             g.node = Top.node, g.kind = "verify", ~Runs(stack, f.node),
             stack' = Append(Append(Pop, g), f)
      PROVE  Exclusive(stack')
  <2>1. /\ Pop \in Seq(Frames) /\ Exclusive(Pop) /\ ~Runs(Pop, g.node)
        /\ Len(Pop) = Len(stack) - 1 /\ Len(stack) \in Nat \ {0}
        /\ \A i \in 1 .. Len(Pop) : Pop[i] = stack[i]
    BY <1>5, TopType, PopExclusive
  <2>2. Append(Pop, g) \in Seq(Frames) /\ Exclusive(Append(Pop, g))
    BY <2>1, PushExclusive
  <2>3. ~Runs(Append(Pop, g), f.node)
    <3>1. DOMAIN stack = 1 .. Len(stack)
      BY DEF TypeOK
    <3>2. /\ DOMAIN Append(Pop, g) = 1 .. Len(stack)
          /\ Append(Pop, g)[Len(stack)] = g
          /\ \A i \in 1 .. Len(Pop) : Append(Pop, g)[i] = stack[i]
      BY <2>1
    <3>3. SUFFICES ASSUME NEW i \in 1 .. Len(stack), Append(Pop, g)[i].node = f.node,
                          Append(Pop, g)[i].kind \in RunningKinds
                   PROVE  FALSE
      BY <3>2 DEF Runs
    <3>4. i # Len(stack)
      BY <1>5, <3>2, <3>3 DEF RunningKinds
    <3>5. Append(Pop, g)[i] = stack[i]
      BY <2>1, <3>2, <3>4
    <3>6. QED
      BY <1>5, <3>1, <3>3, <3>5 DEF Runs
  <2>4. QED
    BY <1>5, <2>2, <2>3, PushExclusive
<1>6. QED
  BY <1>1, <1>2, <1>3, <1>4, <1>5 DEF FrameStep

(* What a refresh pushes is a frame of the node it refreshes. *)
LEMMA RefreshPushes ==
  ASSUME TypeOK, NEW c \in Computed, NEW t \in BOOLEAN, NEW stk
  PROVE  /\ StartCompute(c, t, stk) =>
              \E f \in Frames : f.node = c /\ stack' = Append(stk, f)
         /\ StartRefresh(c, t, stk) =>
              \E f \in Frames : f.node = c /\ stack' = Append(stk, f)
<1>1. c \in Observers /\ "compute" \in KindsOf(c)
  BY DEF Observers, KindsOf
<1>2. Frame("compute", c, t) \in Frames /\ VerifyFrame(c, t) \in Frames
  BY <1>1, FrameType, VerifyFrameType
<1>3. Frame("compute", c, t).node = c /\ VerifyFrame(c, t).node = c
  BY DEF Frame, VerifyFrame
<1>4. QED
  BY <1>2, <1>3 DEF StartCompute, StartRefresh

LEMMA UserFrames ==
  ASSUME TypeOK,
         \/ \E s \in Signals : Write(s) \/ ReadSignal(s)
         \/ \E c \in Computed : ReadCycle(c) \/ ReadClean(c) \/ ReadStale(c)
         \/ \E e \in Effects : RunReady(e) \/ Dispose(e) \/ Discard(e)
         \/ \E n \in Observables : DropHandle(n)
         \/ Panic
  PROVE  FrameStep
<1>1. ASSUME NEW c \in Computed, ReadStale(c) PROVE FrameStep
  <2>1. PICK t \in BOOLEAN : StartRefresh(c, t, stack)
    BY <1>1 DEF ReadStale, TrackModes
  <2>2. PICK f \in Frames : f.node = c /\ stack' = Append(stack, f)
    BY <2>1, RefreshPushes
  <2>3. ~Runs(stack, c)
    BY <1>1, ChecksTell DEF ReadStale
  <2>4. QED
    BY <2>2, <2>3 DEF FrameStep
<1>2. ASSUME NEW e \in Effects, RunReady(e) \/ Dispose(e) \/ Discard(e) PROVE FrameStep
  <2>1. e \in Observers /\ KindsOf(e) = {"verify", "teardown", "body", "dispose"}
    BY NodesAssumption DEF Observers, KindsOf, Kinds
  <2>2. /\ Frame("teardown", e, FALSE) \in Frames /\ Frame("dispose", e, FALSE) \in Frames
        /\ VerifyFrame(e, FALSE) \in Frames
    BY <2>1, FrameType, VerifyFrameType
  <2>3. /\ Frame("teardown", e, FALSE).node = e /\ VerifyFrame(e, FALSE).node = e
        /\ Frame("dispose", e, FALSE).kind = "dispose"
    BY DEF Frame, VerifyFrame
  <2>4. CASE RunStale(e)
    BY <2>2, <2>3, <2>4, ChecksTell DEF RunStale, FrameStep
  <2>5. CASE Dispose(e)
    BY <2>2, <2>3, <2>5 DEF Dispose, StartDispose, FrameStep
  <2>6. CASE RunNothing(e) \/ RunDeferred(e) \/ Discard(e)
    BY <2>6 DEF RunNothing, RunDeferred, Discard, FrameStep
  <2>7. QED
    BY <1>2, <2>4, <2>5, <2>6 DEF RunReady
<1>3. QED
  BY <1>1, <1>2 DEF Write, ReadSignal, ReadCycle, ReadClean, DropHandle, Panic, FrameStep

LEMMA LibraryFrames ==
  ASSUME TypeOK, ComparatorPanic \/ Continue
  PROVE  FrameStep
<1>1. ~Idle
  BY DEF Continue, VerifyCycle, VerifyRefresh, VerifySame, VerifyChangedComputed,
         VerifyUnchangedComputed, VerifyChangedEffect, VerifyUnchangedEffect, Verifying,
         ComputeReturn, TeardownReturn, BodyReturn, DisposeReturn, ComparatorPanic,
         UnwindComputed, UnwindEffect, BoundaryCatch, UnwindDispose, TypeOK
<1>2. Top \in Frames /\ Top.node \in Observers /\ Top.kind \in KindsOf(Top.node)
  BY <1>1, TopType DEF Frames
<1>3. ASSUME NEW d \in Observables, VerifyCycle(d) \/ VerifyRefresh(d) PROVE FrameStep
  <2> DEFINE g == [Top EXCEPT !.cur = d]
  <2>1. g \in Frames /\ g.node = Top.node /\ g.kind = Top.kind
    BY <1>2 DEF Frames
  <2>2. Retop(g) = Append(Pop, g)
    BY <1>1, <2>1, RetopIsPush
  <2>3. CASE VerifyCycle(d)
    BY <2>3 DEF VerifyCycle, FrameStep
  <2>4. CASE VerifyRefresh(d) /\ d \in Computed /\ StartRefresh(d, FALSE, Retop(g))
    <3>1. PICK f \in Frames : f.node = d /\ stack' = Append(Retop(g), f)
      BY <2>4, RefreshPushes
    <3>2. ~Runs(stack, d) /\ Top.kind = "verify"
      BY <2>4, ChecksTell DEF VerifyRefresh, Verifying
    <3>3. QED
      BY <1>1, <2>1, <2>2, <3>1, <3>2 DEF FrameStep
  <2>5. CASE VerifyRefresh(d) /\ stack' = Retop(g)
    <3>1. Top.kind = "verify"
      BY <2>5 DEF VerifyRefresh, Verifying
    <3>2. QED
      BY <1>1, <2>1, <2>2, <2>5, <3>1 DEF FrameStep
  <2>6. QED
    BY <1>3, <2>3, <2>4, <2>5 DEF VerifyRefresh
<1>4. CASE VerifySame
  <2> DEFINE g == [Top EXCEPT !.cur = None, !.todo[Top.cur] = None]
  <2>1. g \in Frames /\ g.node = Top.node
    BY <1>2 DEF Frames, EdgeMaps
  <2>2. stack' = Append(Pop, g) /\ Top.kind = "verify"
    BY <1>1, <1>4, <2>1, RetopIsPush DEF VerifySame, Verifying
  <2>3. QED
    BY <1>1, <2>1, <2>2 DEF FrameStep
<1>5. CASE VerifyChangedComputed
  <2>1. PICK f \in Frames : f.node = Top.node /\ stack' = Append(Pop, f)
    BY <1>2, <1>5, RefreshPushes DEF VerifyChangedComputed, Frames
  <2>2. Top.kind = "verify"
    BY <1>5 DEF VerifyChangedComputed, Verifying
  <2>3. QED
    BY <1>1, <2>1, <2>2 DEF FrameStep
<1>6. CASE VerifyChangedEffect \/ TeardownReturn
  <2>1. Top.node \in Effects /\ Top.kind # "dispose"
    BY <1>2, <1>6, NodesAssumption
       DEF VerifyChangedEffect, Verifying, TeardownReturn, KindsOf, Observers
  <2>2. KindsOf(Top.node) = {"verify", "teardown", "body", "dispose"}
    BY <2>1, NodesAssumption DEF KindsOf, Kinds
  <2>3. \A k \in {"teardown", "body"} :
          /\ Frame(k, Top.node, FALSE) \in Frames
          /\ Retop(Frame(k, Top.node, FALSE)) = Append(Pop, Frame(k, Top.node, FALSE))
          /\ Frame(k, Top.node, FALSE).node = Top.node
    BY <1>1, <1>2, <2>2, FrameType, RetopIsPush DEF Frame
  <2>4. stack' = Pop \/ \E k \in {"teardown", "body"} : stack' = Retop(Frame(k, Top.node, FALSE))
    BY <1>6 DEF VerifyChangedEffect, TeardownReturn
  <2>5. QED
    BY <1>1, <2>1, <2>3, <2>4 DEF FrameStep
<1>7. CASE BoundaryCatch
  <2>1. Top.node \in Effects
    BY <1>7, ClosuresAssumption DEF BoundaryCatch
  <2>2. Frame("dispose", Top.node, FALSE) \in Frames
    BY <1>2, <2>1, FrameType, NodesAssumption DEF KindsOf, Kinds
  <2>3. Frame("dispose", Top.node, FALSE).kind = "dispose"
    BY DEF Frame
  <2>4. stack' = Pop \/ stack' = Append(Pop, Frame("dispose", Top.node, FALSE))
    BY <1>7 DEF BoundaryCatch, StartDispose
  <2>5. QED
    BY <1>1, <2>2, <2>3, <2>4 DEF FrameStep
<1>8. CASE \/ VerifyUnchangedComputed \/ VerifyUnchangedEffect \/ ComputeReturn
           \/ BodyReturn \/ DisposeReturn \/ ComparatorPanic
           \/ UnwindComputed \/ UnwindEffect \/ UnwindDispose
  BY <1>1, <1>8 DEF VerifyUnchangedComputed, VerifyUnchangedEffect, ComputeReturn, BodyReturn,
     DisposeReturn, ComparatorPanic, UnwindComputed, UnwindEffect, UnwindDispose,
     PopUnwinding, FrameStep
<1>9. QED
  BY <1>3, <1>4, <1>5, <1>6, <1>7, <1>8 DEF Continue

(* NoReentry is an invariant: whatever reads whatever, flushes nest however  *)
(* deep and closures panic where they like, no closure is entered again      *)
(* while it runs.                                                            *)
THEOREM NeverReentered == Spec => []NoReentry
<1>1. Init => Exclusive(stack)
  BY DEF Init, Exclusive
<1>2. TypeOK /\ Exclusive(stack) /\ [Next]_vars => Exclusive(stack)'
  <2>1. TypeOK /\ [Next]_vars => FrameStep
    BY UserFrames, LibraryFrames DEF Next, FrameStep, vars
  <2>2. QED
    BY <2>1, FrameStepExclusive
<1>3. TypeOK /\ Exclusive(stack) => NoReentry
  <2>1. SUFFICES ASSUME TypeOK, Exclusive(stack), NEW i \in DOMAIN stack, NEW j \in DOMAIN stack,
                        stack[i].node = stack[j].node,
                        stack[i].kind \in {"compute", "body"},
                        stack[j].kind \in {"compute", "body"}
                 PROVE  i = j
    BY DEF NoReentry
  <2>2. i \in Nat /\ j \in Nat
    BY <2>1 DEF TypeOK
  <2>3. ~(j < i) /\ ~(i < j)
    BY <2>1 DEF Exclusive, RunningKinds
  <2>4. QED
    BY <2>2, <2>3
<1>4. QED
  BY <1>1, <1>2, <1>3, TypeCorrect, PTL DEF Spec

-----------------------------------------------------------------------------
(* Coherence: a cached value is never stale, a running closure never sees a *)
(* mixture of old and new, an effect at rest has seen the last write, every *)
(* write tells whom it concerns, and nothing runs without need.            *)
(*                                                                         *)
(* None of these is inductive by itself: a verification trusts the edges it *)
(* has compared so far, a computation those it has read so far, and each of *)
(* them goes on for many steps in which other nodes are refreshed.  The     *)
(* invariant says what every frame on the stack may rely on.               *)

(* A refresh only ever starts refreshes of nodes further down the graph.    *)
Refreshing == {"verify", "compute"}
RankedStack(stk) ==
  \A i, j \in DOMAIN stk :
    i < j /\ stk[i].kind \in Refreshing =>
      /\ stk[j].kind \in Refreshing /\ stk[j].node \in Computed
      /\ Rank[stk[j].node] < Rank[stk[i].node]

(* The node a refresh is about is one that the frame below asked for.       *)
AskedFor(stk) ==
  \A i, j \in DOMAIN stk :
    j = i + 1 /\ stk[j].kind \in Refreshing /\ stk[j].node \in Computed =>
      /\ stk[j].node \in Reads[stk[i].node]
      /\ stk[i].kind = "verify" => stk[i].cur = stk[j].node

(* Edges lead to nodes that exist, at versions they have had.               *)
EdgesInGraph ==
  \A o \in Observers : \A d \in Keys(dependencies[o]) :
    d \in Reads[o] \cap registered /\ dependencies[o][d] <= version[d]

(* An effect keeps its hook until it is disposed. *)
LiveEffectsHooked == \A e \in Effects : e \notin disposed => e \in registered

(* A computed node that is gone has no edges left. *)
GoneHaveNoEdges == \A c \in Computed \ registered : Keys(dependencies[c]) = {}

(* What a computation has read so far is current. *)
ComputeSound(f) ==
  f.kind = "compute" =>
    f.node \in registered /\ state[f.node] = "Clean" /\ UpToDateWithAll(f.node)

(* A verification knows the recorded version of what it has still to        *)
(* compare, and what it has compared is current.                            *)
VerifySound(f) ==
  f.kind = "verify" =>
    /\ f.node \in Computed => f.node \in registered /\ state[f.node] = "Check"
    /\ \A d \in Keys(f.todo) : f.todo[d] = dependencies[f.node][d]
    /\ \A d \in Keys(dependencies[f.node]) : d \in Keys(f.todo) \/ UpToDate(f.node, d)
    /\ f.cur # None => f.cur \in Keys(f.todo)

(* What the body of an unmarked effect has read so far is current. *)
BodySound(f) ==
  f.kind = "body" /\ f.node \notin disposed /\ state[f.node] = "Clean"
    => UpToDateWithAll(f.node)

(* What is being taken down has been disposed. *)
DisposeSound(f) == f.kind = "dispose" => f.node \in disposed

FrameSound(f) == ComputeSound(f) /\ VerifySound(f) /\ BodySound(f) /\ DisposeSound(f)
FramesOf(stk) == {stk[i] : i \in DOMAIN stk}
FramesSound(stk) == \A f \in FramesOf(stk) : FrameSound(f)

(* What a verification is about to compare is fresh. *)
CursorSettled ==
  ~Idle /\ Top.kind = "verify" /\ Top.cur # None /\ ~panicking => Settled(Top.cur)

(* Why a cache hit is never stale, and a computation never torn.            *)
CoreInv ==
  /\ RankedStack(stack) /\ AskedFor(stack)
  /\ EdgesInGraph /\ GoneHaveNoEdges /\ LiveEffectsHooked
  /\ Coherent
  /\ FramesSound(stack) /\ CursorSettled

(* Why no effect is stranded. *)
Rested ==
  \A e \in Effects \ (disposed \cup abandoned) :
    state[e] = "Clean" /\ ~HasFrame(e, {"verify", "teardown"}) => UpToDateWithAll(e)
Owed ==
  \A e \in Effects \ (disposed \cup abandoned) :
    state[e] # "Clean" => e \in scheduled \/ (e \in rerun /\ Running(e))

-----------------------------------------------------------------------------
(* The stack of an acyclic graph.                                          *)

(* Every frame has a kind that suits its node. *)
LEMMA FrameKinds ==
  ASSUME NEW f \in Frames
  PROVE  /\ f.node \in Observers /\ f.kind \in Kinds
         /\ f.node \in Computed <=> f.node \notin Effects
         /\ f.node \in Computed => f.kind \in Refreshing
         /\ f.node \in Effects => f.kind # "compute"
         /\ f.todo \in EdgeMaps /\ f.cur \in Observables \cup {None} /\ f.tracked \in BOOLEAN
         /\ f.node \in Nodes
BY NodesAssumption DEF Frames, KindsOf, Kinds, Refreshing, Observers, Nodes

(* Whatever has a rank smaller than another node is another node. *)
LEMMA RankType ==
  ASSUME NEW n \in Nodes
  PROVE  Rank[n] \in Nat
BY RankAssumption

(* Reading leads down. *)
LEMMA ReadsGoDown ==
  ASSUME NEW o \in Observers, NEW d \in Reads[o]
  PROVE  d \in Observables /\ Rank[d] < Rank[o]
BY RankAssumption, ClosuresAssumption

(* A prefix of the stack keeps the order. *)
LEMMA PopRanked ==
  ASSUME TypeOK, ~Idle
  PROVE  /\ RankedStack(stack) => RankedStack(Pop)
         /\ AskedFor(stack) => AskedFor(Pop)
         /\ DOMAIN Pop = 1 .. Len(stack) - 1 /\ DOMAIN stack = 1 .. Len(stack)
         /\ \A i \in DOMAIN Pop : Pop[i] = stack[i] /\ i < Len(stack)
<1>1. /\ Len(stack) \in Nat \ {0} /\ Pop \in Seq(Frames) /\ Len(Pop) = Len(stack) - 1
      /\ \A i \in 1 .. Len(Pop) : Pop[i] = stack[i]
  BY TopType
<1>2. DOMAIN stack = 1 .. Len(stack) /\ DOMAIN Pop = 1 .. Len(stack) - 1
  BY <1>1 DEF TypeOK
<1>3. DOMAIN Pop \subseteq DOMAIN stack /\ \A i \in DOMAIN Pop : Pop[i] = stack[i] /\ i < Len(stack)
  BY <1>1, <1>2
<1>4. QED
  BY <1>2, <1>3, Zenon DEF RankedStack, AskedFor

(* The frames after a push. *)
LEMMA PushedFrames ==
  ASSUME NEW stk \in Seq(Frames), NEW f \in Frames
  PROVE  /\ DOMAIN stk = 1 .. Len(stk) /\ Len(stk) \in Nat
         /\ DOMAIN Append(stk, f) = 1 .. Len(stk) + 1
         /\ Len(Append(stk, f)) = Len(stk) + 1 /\ Append(stk, f) \in Seq(Frames)
         /\ Append(stk, f)[Len(stk) + 1] = f
         /\ \A i \in DOMAIN stk : Append(stk, f)[i] = stk[i] /\ i < Len(stk) + 1
         /\ \A i \in DOMAIN Append(stk, f) : i \in DOMAIN stk \/ i = Len(stk) + 1
         /\ \A i \in DOMAIN stk : stk[i] \in Frames
OBVIOUS

(* A frame may be pushed when nothing is being refreshed, or when it        *)
(* refreshes a node that what is on top asked for.                          *)
LEMMA PushRanked ==
  ASSUME NEW stk \in Seq(Frames), RankedStack(stk), AskedFor(stk), NEW f \in Frames,
         \/ /\ \A i \in DOMAIN stk : stk[i].kind \notin Refreshing
            /\ f.node \in Effects
         \/ /\ f.node \in Computed
            /\ stk # <<>> =>
                 LET g == stk[Len(stk)] IN
                 /\ f.node \in Reads[g.node]
                 /\ g.kind = "verify" => g.cur = f.node
  PROVE  RankedStack(Append(stk, f)) /\ AskedFor(Append(stk, f))
<1> DEFINE new == Append(stk, f)
<1>1. /\ DOMAIN stk = 1 .. Len(stk) /\ Len(stk) \in Nat
      /\ new[Len(stk) + 1] = f
      /\ \A i \in DOMAIN stk : new[i] = stk[i] /\ i < Len(stk) + 1
      /\ \A i \in DOMAIN new : i \in DOMAIN stk \/ i = Len(stk) + 1
      /\ \A i \in DOMAIN stk : stk[i] \in Frames
  BY PushedFrames, Zenon
<1> HIDE DEF new
<1>2. ASSUME NEW i \in DOMAIN stk, stk[i].kind \in Refreshing
      PROVE  /\ f.kind \in Refreshing /\ f.node \in Computed
             /\ Rank[f.node] < Rank[stk[i].node]
  <2> DEFINE g == stk[Len(stk)]
  <2>1. f.node \in Computed /\ f.kind \in Refreshing
    BY <1>2, FrameKinds
  <2>2. stk # <<>> /\ Len(stk) \in DOMAIN stk
    BY <1>1, <1>2
  <2>3. g \in Frames /\ f.node \in Reads[g.node]
    BY <1>1, <1>2, <2>1, <2>2, FrameKinds
  <2>4. Rank[f.node] < Rank[g.node] /\ f.node \in Nodes /\ g.node \in Nodes /\ stk[i].node \in Nodes
    BY <1>1, <2>3, FrameKinds, ReadsGoDown
  <2>5. Rank[f.node] \in Nat /\ Rank[g.node] \in Nat /\ Rank[stk[i].node] \in Nat
    BY <2>4, RankType
  <2>6. i = Len(stk) \/ (i < Len(stk) /\ Rank[g.node] < Rank[stk[i].node])
    BY <1>1, <1>2, <2>2 DEF RankedStack
  <2>7. QED
    BY <2>1, <2>4, <2>5, <2>6
<1>3. RankedStack(new)
  <2>1. SUFFICES ASSUME NEW i \in DOMAIN new, NEW j \in DOMAIN new, i < j,
                        new[i].kind \in Refreshing
                 PROVE  /\ new[j].kind \in Refreshing /\ new[j].node \in Computed
                        /\ Rank[new[j].node] < Rank[new[i].node]
    BY DEF RankedStack
  <2>2. i \in DOMAIN stk /\ new[i] = stk[i]
    BY <1>1, <2>1
  <2>3. CASE j \in DOMAIN stk
    BY <1>1, <2>1, <2>2, <2>3, Zenon DEF RankedStack
  <2>4. CASE j = Len(stk) + 1
    BY <1>1, <1>2, <2>1, <2>2, <2>4
  <2>5. QED
    BY <1>1, <2>3, <2>4
<1>4. AskedFor(new)
  <2>1. SUFFICES ASSUME NEW i \in DOMAIN new, NEW j \in DOMAIN new, j = i + 1,
                        new[j].kind \in Refreshing, new[j].node \in Computed
                 PROVE  /\ new[j].node \in Reads[new[i].node]
                        /\ new[i].kind = "verify" => new[i].cur = new[j].node
    BY DEF AskedFor
  <2>2. i \in DOMAIN stk /\ new[i] = stk[i]
    BY <1>1, <2>1
  <2>3. CASE j \in DOMAIN stk
    BY <1>1, <2>1, <2>2, <2>3, Zenon DEF AskedFor
  <2>4. CASE j = Len(stk) + 1
    <3>1. i = Len(stk) /\ new[j] = f /\ stk # <<>> /\ f.node \in Computed
      BY <1>1, <2>1, <2>2, <2>4
    <3>2. f.node \notin Effects
      BY <3>1, FrameKinds
    <3>3. QED
      BY <2>2, <3>1, <3>2
  <2>5. QED
    BY <1>1, <2>3, <2>4
<1>5. QED
  BY <1>3, <1>4 DEF new

(* Code that may have side effects runs only outside every refresh. *)
Outside == \A i \in DOMAIN stack : stack[i].kind \notin Refreshing

LEMMA SideEffectsOutside ==
  ASSUME TypeOK, RankedStack(stack), UserCode, SideEffectAllowed
  PROVE  Outside
<1>1. ~InCompute
  BY PureAssumption DEF SideEffectAllowed
<1>2. SUFFICES ASSUME NEW i \in DOMAIN stack, stack[i].kind \in Refreshing
               PROVE  FALSE
  BY DEF Outside
<1>3. /\ Len(stack) \in DOMAIN stack /\ ~Idle /\ i \in Nat /\ i <= Len(stack)
      /\ Len(stack) \in Nat
  BY <1>2 DEF TypeOK, Idle
<1>4. Top.kind \in Refreshing
  <2>1. i = Len(stack) \/ i < Len(stack)
    BY <1>3
  <2>2. QED
    BY <1>2, <1>3, <2>1 DEF Top, RankedStack
<1>5. Top.kind = "compute"
  BY <1>3, <1>4 DEF UserCode, UserKinds, Refreshing
<1>6. QED
  BY <1>1, <1>3, <1>5 DEF InCompute, Top

(* An effect is never refreshed by another refresh. *)
LEMMA EffectOnTop ==
  ASSUME TypeOK, RankedStack(stack), ~Idle, Top.node \in Effects
  PROVE  /\ \A i \in DOMAIN Pop : Pop[i].kind \notin Refreshing
         /\ Top.kind # "verify" => Outside
<1>1. /\ DOMAIN Pop = 1 .. Len(stack) - 1 /\ DOMAIN stack = 1 .. Len(stack)
      /\ \A i \in DOMAIN Pop : Pop[i] = stack[i] /\ i < Len(stack)
      /\ Top \in Frames /\ Len(stack) \in Nat \ {0}
  BY PopRanked, TopType
<1>2. Top.node \notin Computed /\ Top.kind # "compute"
  BY <1>1, FrameKinds
<1>3. \A i \in DOMAIN stack : i < Len(stack) => stack[i].kind \notin Refreshing
  BY <1>1, <1>2 DEF RankedStack, Top
<1>4. \A i \in DOMAIN stack : i < Len(stack) \/ i = Len(stack)
  BY <1>1
<1>5. QED
  BY <1>1, <1>2, <1>3, <1>4 DEF Outside, Top, Refreshing

(* The frames of a step: one is taken away or replaced by one of its node,  *)
(* or pushed, where nothing is refreshed or where it was asked for.         *)
StackStep ==
  \/ UNCHANGED stack
  \/ ~Idle /\ stack' = Pop
  \/ ~Idle /\ \E f \in Frames : f.node = Top.node /\ stack' = Append(Pop, f)
  \/ \E f \in Frames :
       /\ \/ Outside /\ f.node \in Effects
          \/ /\ f.node \in Computed
             /\ ~Idle => Top.kind # "verify" /\ f.node \in Reads[Top.node]
       /\ stack' = Append(stack, f)
  \/ /\ ~Idle /\ Top.kind = "verify"
     /\ \E f \in Frames, g \in Frames :
          /\ g.node = Top.node /\ g.kind = "verify" /\ g.cur = f.node
          /\ f.node \in Computed \cap Reads[Top.node]
          /\ stack' = Append(Append(Pop, g), f)

(* What replaces the top frame may stand where that stood. *)
LEMMA ReplaceRanked ==
  ASSUME TypeOK, RankedStack(stack), AskedFor(stack), ~Idle,
         NEW f \in Frames, f.node = Top.node
  PROVE  /\ RankedStack(Append(Pop, f)) /\ AskedFor(Append(Pop, f))
         /\ Append(Pop, f) \in Seq(Frames)
<1>1. Pop \in Seq(Frames) /\ RankedStack(Pop) /\ AskedFor(Pop) /\ Top \in Frames
  BY TopType, PopRanked
<1>2. CASE f.node \in Effects
  BY <1>1, <1>2, EffectOnTop, PushRanked, PushedFrames
<1>3. CASE f.node \notin Effects
  <2>1. f.node \in Computed /\ Top.kind \in Refreshing
    BY <1>1, <1>3, FrameKinds
  <2>2. /\ Len(stack) \in Nat \ {0} /\ Len(Pop) = Len(stack) - 1
        /\ DOMAIN Pop = 1 .. Len(stack) - 1 /\ DOMAIN stack = 1 .. Len(stack)
        /\ \A i \in DOMAIN Pop : Pop[i] = stack[i]
    BY TopType, PopRanked
  <2>3. ASSUME Pop # <<>>
        PROVE  LET g == Pop[Len(Pop)] IN
               f.node \in Reads[g.node] /\ (g.kind = "verify" => g.cur = f.node)
    <3>1. Len(Pop) # 0
      BY <1>1, <2>3
    <3>2. Len(Pop) \in DOMAIN Pop /\ Len(stack) = Len(Pop) + 1
          /\ Len(Pop) \in DOMAIN stack /\ Len(stack) \in DOMAIN stack
      BY <2>2, <3>1
    <3>3. QED
      BY <2>1, <2>2, <3>2 DEF AskedFor, Top
  <2>4. QED
    BY <1>1, <2>1, <2>3, PushRanked, PushedFrames
<1>4. QED
  BY <1>2, <1>3

LEMMA StackStepRanked ==
  ASSUME TypeOK, RankedStack(stack), AskedFor(stack), StackStep
  PROVE  RankedStack(stack') /\ AskedFor(stack')
<1>0. stack \in Seq(Frames)
  BY DEF TypeOK
<1>1. CASE UNCHANGED stack
  BY <1>1
<1>2. CASE ~Idle /\ stack' = Pop
  BY <1>2, PopRanked
<1>3. ASSUME ~Idle, NEW f \in Frames, f.node = Top.node, stack' = Append(Pop, f)
      PROVE  RankedStack(stack') /\ AskedFor(stack')
  BY <1>3, ReplaceRanked
<1>4. ASSUME NEW f \in Frames, stack' = Append(stack, f),
             \/ Outside /\ f.node \in Effects
             \/ /\ f.node \in Computed
                /\ ~Idle => Top.kind # "verify" /\ f.node \in Reads[Top.node]
      PROVE  RankedStack(stack') /\ AskedFor(stack')
  BY <1>0, <1>4, PushRanked DEF Outside, Idle, Top
<1>5. ASSUME ~Idle, Top.kind = "verify", NEW f \in Frames, NEW g \in Frames,
             g.node = Top.node, g.kind = "verify", g.cur = f.node,
             f.node \in Computed \cap Reads[Top.node],
             stack' = Append(Append(Pop, g), f)
      PROVE  RankedStack(stack') /\ AskedFor(stack')
  <2> DEFINE stk == Append(Pop, g)
  <2>1. RankedStack(stk) /\ AskedFor(stk) /\ stk \in Seq(Frames)
    BY <1>5, ReplaceRanked
  <2>2. stk # <<>> /\ stk[Len(stk)] = g
    <3>1. Pop \in Seq(Frames)
      BY <1>5, TopType
    <3>2. QED
      BY <3>1
  <2> HIDE DEF stk
  <2>3. QED
    BY <1>5, <2>1, <2>2, PushRanked DEF stk
<1>6. QED
  BY <1>1, <1>2, <1>3, <1>4, <1>5 DEF StackStep

-----------------------------------------------------------------------------
(* What the steps do to the stack.                                         *)

(* A verification still has to compare only recorded edges. *)
LEMMA TodoRecorded ==
  ASSUME TypeOK, EdgesInGraph, FramesSound(stack), NEW i \in DOMAIN stack,
         stack[i].kind = "verify", NEW d \in Keys(stack[i].todo)
  PROVE  /\ d \in Observables /\ d \in registered /\ d \in Reads[stack[i].node]
         /\ d \in Keys(dependencies[stack[i].node])
         /\ stack[i].todo[d] = dependencies[stack[i].node][d]
<1>1. stack[i] \in Frames /\ stack[i].node \in Observers
  BY FrameKinds DEF TypeOK
<1>2. d \in Observables /\ stack[i].todo[d] # None
  BY DEF Keys
<1>3. stack[i].todo[d] = dependencies[stack[i].node][d]
  BY DEF FramesSound, FramesOf, FrameSound, VerifySound
<1>4. d \in Keys(dependencies[stack[i].node])
  BY <1>2, <1>3 DEF Keys
<1>5. QED
  BY <1>1, <1>2, <1>3, <1>4 DEF EdgesInGraph

(* The top of the stack is one of its frames. *)
LEMMA TopIndex ==
  ASSUME TypeOK, ~Idle
  PROVE  /\ Len(stack) \in DOMAIN stack /\ Top = stack[Len(stack)]
         /\ DOMAIN stack = 1 .. Len(stack) /\ Len(stack) \in Nat \ {0}
BY TopType DEF Top, TypeOK

(* A refresh pushes a frame of the node it refreshes. *)
LEMMA PushedRefresh ==
  ASSUME TypeOK, NEW c \in Computed, NEW t \in BOOLEAN
  PROVE  /\ Frame("compute", c, t) \in Frames /\ VerifyFrame(c, t) \in Frames
         /\ Frame("compute", c, t).node = c /\ VerifyFrame(c, t).node = c
         /\ Frame("compute", c, t).kind = "compute" /\ VerifyFrame(c, t).kind = "verify"
         /\ VerifyFrame(c, t).cur = None /\ VerifyFrame(c, t).todo = dependencies[c]
<1>1. c \in Observers /\ "compute" \in KindsOf(c)
  BY DEF Observers, KindsOf
<1>2. QED
  BY <1>1, FrameType, VerifyFrameType DEF Frame, VerifyFrame

(* So do the frames of an effect. *)
LEMMA PushedEffect ==
  ASSUME TypeOK, NEW e \in Effects
  PROVE  /\ \A k \in {"teardown", "body", "dispose"} :
              /\ Frame(k, e, FALSE) \in Frames
              /\ Frame(k, e, FALSE).node = e /\ Frame(k, e, FALSE).kind = k
         /\ VerifyFrame(e, FALSE) \in Frames
         /\ VerifyFrame(e, FALSE).node = e /\ VerifyFrame(e, FALSE).kind = "verify"
         /\ VerifyFrame(e, FALSE).cur = None /\ VerifyFrame(e, FALSE).todo = dependencies[e]
<1>1. e \in Observers /\ KindsOf(e) = Kinds \ {"compute"}
  BY NodesAssumption DEF Observers, KindsOf
<1>2. VerifyFrame(e, FALSE) \in Frames
  BY <1>1, VerifyFrameType
<1>3. \A k \in {"teardown", "body", "dispose"} : Frame(k, e, FALSE) \in Frames
  BY <1>1, FrameType DEF Kinds
<1>4. QED
  BY <1>2, <1>3 DEF Frame, VerifyFrame

(* Whoever reads is not verifying, and reads what its closure may read. *)
LEMMA ReaderAsks ==
  ASSUME TypeOK, NEW c \in Computed, CanRead(c), ~Idle
  PROVE  Top.kind # "verify" /\ c \in Reads[Top.node]
BY DEF CanRead, UserCode, UserKinds, MayRead

LEMMA UserStack ==
  ASSUME TypeOK, CoreInv,
         \/ \E s \in Signals : Write(s) \/ ReadSignal(s)
         \/ \E c \in Computed : ReadCycle(c) \/ ReadClean(c) \/ ReadStale(c)
         \/ \E e \in Effects : RunReady(e) \/ Dispose(e) \/ Discard(e)
         \/ \E n \in Observables : DropHandle(n)
         \/ Panic
  PROVE  StackStep
<1>1. ASSUME NEW c \in Computed, ReadStale(c) PROVE StackStep
  <2>1. PICK t \in BOOLEAN : StartRefresh(c, t, stack)
    BY <1>1 DEF ReadStale, TrackModes
  <2>2. PICK f \in Frames : f.node = c /\ stack' = Append(stack, f)
    BY <2>1, RefreshPushes
  <2>3. ~Idle => Top.kind # "verify" /\ c \in Reads[Top.node]
    BY <1>1, ReaderAsks DEF ReadStale
  <2>4. QED
    BY <2>2, <2>3 DEF StackStep
<1>2. ASSUME NEW e \in Effects, RunStale(e) \/ Dispose(e) PROVE StackStep
  <2>1. Outside
    BY <1>2, SideEffectsOutside DEF RunStale, TakeRun, Dispose, CoreInv
  <2>2. PICK f \in Frames : f.node = e /\ stack' = Append(stack, f)
    BY <1>2, PushedEffect DEF RunStale, Dispose, StartDispose
  <2>3. QED
    BY <2>1, <2>2 DEF StackStep
<1>3. ASSUME NEW e \in Effects, RunNothing(e) \/ RunDeferred(e) \/ Discard(e) PROVE StackStep
  BY <1>3 DEF RunNothing, RunDeferred, Discard, StackStep
<1>4. QED
  BY <1>1, <1>2, <1>3
     DEF Write, ReadSignal, ReadCycle, ReadClean, DropHandle, Panic, RunReady, StackStep

LEMMA LibraryStack ==
  ASSUME TypeOK, CoreInv, ComparatorPanic \/ Continue
  PROVE  StackStep
<1>1. ~Idle
  BY DEF Continue, VerifyCycle, VerifyRefresh, VerifySame, VerifyChangedComputed,
         VerifyUnchangedComputed, VerifyChangedEffect, VerifyUnchangedEffect, Verifying,
         ComputeReturn, TeardownReturn, BodyReturn, DisposeReturn, ComparatorPanic,
         UnwindComputed, UnwindEffect, BoundaryCatch, UnwindDispose, TypeOK
<1>2. Top \in Frames /\ Top.node \in Observers /\ Top.kind \in KindsOf(Top.node)
  BY <1>1, TopType DEF Frames
<1>3. ASSUME NEW d \in Observables, VerifyCycle(d) \/ VerifyRefresh(d) PROVE StackStep
  <2> DEFINE g == [Top EXCEPT !.cur = d]
  <2>1. g \in Frames /\ g.node = Top.node /\ g.kind = Top.kind /\ g.cur = d
    BY <1>2 DEF Frames
  <2>2. Retop(g) = Append(Pop, g)
    BY <1>1, <2>1, RetopIsPush
  <2>3. CASE VerifyCycle(d)
    BY <2>3 DEF VerifyCycle, StackStep
  <2>4. CASE VerifyRefresh(d) /\ d \in Computed /\ StartRefresh(d, FALSE, Retop(g))
    <3>1. PICK f \in Frames : f.node = d /\ stack' = Append(Retop(g), f)
      BY <2>4, RefreshPushes
    <3>2. Top.kind = "verify" /\ d \in Keys(Top.todo)
      BY <2>4 DEF VerifyRefresh, Verifying
    <3>3. d \in Reads[Top.node]
      BY <1>1, <3>2, TopIndex, TodoRecorded DEF CoreInv
    <3>4. QED
      BY <1>1, <2>1, <2>2, <2>4, <3>1, <3>2, <3>3 DEF StackStep
  <2>5. CASE VerifyRefresh(d) /\ stack' = Retop(g)
    BY <1>1, <2>1, <2>2, <2>5 DEF StackStep
  <2>6. QED
    BY <1>3, <2>3, <2>4, <2>5 DEF VerifyRefresh
<1>4. CASE VerifySame
  <2> DEFINE g == [Top EXCEPT !.cur = None, !.todo[Top.cur] = None]
  <2>1. g \in Frames /\ g.node = Top.node
    BY <1>2 DEF Frames, EdgeMaps
  <2>2. stack' = Append(Pop, g)
    BY <1>1, <1>4, <2>1, RetopIsPush DEF VerifySame
  <2>3. QED
    BY <1>1, <2>1, <2>2 DEF StackStep
<1>5. CASE VerifyChangedComputed
  <2>1. PICK f \in Frames : f.node = Top.node /\ stack' = Append(Pop, f)
    BY <1>2, <1>5, RefreshPushes DEF VerifyChangedComputed, Frames
  <2>2. QED
    BY <1>1, <2>1 DEF StackStep
<1>6. CASE VerifyChangedEffect \/ TeardownReturn
  <2>1. Top.node \in Effects
    BY <1>2, <1>6, NodesAssumption
       DEF VerifyChangedEffect, TeardownReturn, KindsOf, Observers
  <2>2. stack' = Pop \/ \E f \in Frames : f.node = Top.node /\ stack' = Retop(f)
    BY <1>6, <2>1, PushedEffect DEF VerifyChangedEffect, TeardownReturn
  <2>3. QED
    BY <1>1, <2>2, RetopIsPush DEF StackStep
<1>7. CASE BoundaryCatch
  <2>1. Top.node \in Effects
    BY <1>7, ClosuresAssumption DEF BoundaryCatch
  <2>2. stack' = Pop \/ \E f \in Frames : f.node = Top.node /\ stack' = Append(Pop, f)
    BY <1>7, <2>1, PushedEffect DEF BoundaryCatch, StartDispose
  <2>3. QED
    BY <1>1, <2>2 DEF StackStep
<1>8. CASE \/ VerifyUnchangedComputed \/ VerifyUnchangedEffect \/ ComputeReturn
           \/ BodyReturn \/ DisposeReturn \/ ComparatorPanic
           \/ UnwindComputed \/ UnwindEffect \/ UnwindDispose
  BY <1>1, <1>8 DEF VerifyUnchangedComputed, VerifyUnchangedEffect, ComputeReturn, BodyReturn,
     DisposeReturn, ComparatorPanic, UnwindComputed, UnwindEffect, UnwindDispose,
     PopUnwinding, StackStep
<1>9. QED
  BY <1>3, <1>4, <1>5, <1>6, <1>7, <1>8 DEF Continue

-----------------------------------------------------------------------------
(* What is settled stays settled, except when a signal is written, and what *)
(* is recorded is settled.                                                  *)

Refreshed(stk, n) == \E i \in DOMAIN stk : stk[i].node = n /\ stk[i].kind \in Refreshing

LEMMA SettledMeans ==
  ASSUME NEW c \in Computed
  PROVE  /\ Settled(c) <=> state[c] = "Clean" /\ ~Refreshed(stack, c)
         /\ Settled(c)' <=> state'[c] = "Clean" /\ ~Refreshed(stack', c)
BY NodesAssumption DEF Settled, HasFrame, Refreshed, Refreshing, Observers, Computed

LEMMA SignalsSettled ==
  ASSUME NEW s \in Signals
  PROVE  Settled(s) /\ Settled(s)'
BY DEF Settled

(* Who is being refreshed after a frame has come or gone. *)
LEMMA RefreshedPushed ==
  ASSUME NEW stk \in Seq(Frames), NEW f \in Frames, NEW n
  PROVE  Refreshed(Append(stk, f), n)
           <=> Refreshed(stk, n) \/ (f.node = n /\ f.kind \in Refreshing)
<1> DEFINE new == Append(stk, f)
<1>1. /\ DOMAIN stk = 1 .. Len(stk) /\ Len(stk) \in Nat /\ DOMAIN new = 1 .. Len(stk) + 1
      /\ new[Len(stk) + 1] = f
      /\ \A i \in DOMAIN stk : new[i] = stk[i]
      /\ \A i \in DOMAIN new : i \in DOMAIN stk \/ i = Len(stk) + 1
  BY PushedFrames, Zenon
<1> HIDE DEF new
<1>2. DOMAIN stk \subseteq DOMAIN new /\ Len(stk) + 1 \in DOMAIN new
  BY <1>1
<1>3. Refreshed(new, n) <=> Refreshed(stk, n) \/ (f.node = n /\ f.kind \in Refreshing)
  BY <1>1, <1>2, Zenon DEF Refreshed
<1>4. QED
  BY <1>3 DEF new

LEMMA RefreshedPopped ==
  ASSUME TypeOK, RankedStack(stack), ~Idle, NEW n
  PROVE  /\ Refreshed(stack, n)
              <=> Refreshed(Pop, n) \/ (Top.node = n /\ Top.kind \in Refreshing)
         /\ Refreshed(Pop, n) => n # Top.node
<1>1. /\ DOMAIN Pop = 1 .. Len(stack) - 1 /\ DOMAIN stack = 1 .. Len(stack)
      /\ \A i \in DOMAIN Pop : Pop[i] = stack[i] /\ i < Len(stack)
      /\ Len(stack) \in Nat \ {0} /\ Len(stack) \in DOMAIN stack
  BY PopRanked, TopIndex
<1>2. \A i \in DOMAIN stack : i \in DOMAIN Pop \/ i = Len(stack)
  BY <1>1
<1>3. DOMAIN Pop \subseteq DOMAIN stack
  BY <1>1
<1>4. Refreshed(stack, n)
        <=> Refreshed(Pop, n) \/ (Top.node = n /\ Top.kind \in Refreshing)
  BY <1>1, <1>2, <1>3, Zenon DEF Refreshed, Top
<1>5. ASSUME Refreshed(Pop, n), n = Top.node PROVE FALSE
  <2>1. PICK i \in DOMAIN Pop : Pop[i].node = n /\ Pop[i].kind \in Refreshing
    BY <1>5 DEF Refreshed
  <2>2. Rank[Top.node] < Rank[n]
    BY <1>1, <1>3, <2>1 DEF RankedStack, Top
  <2>3. Rank[n] \in Nat
    BY <1>5, TopType, FrameKinds, RankType
  <2>4. QED
    BY <1>5, <2>2, <2>3
<1>6. QED
  BY <1>4, <1>5

(* A node in the middle of a refresh is not dirty, and one that is being    *)
(* verified is not clean.                                                   *)
LEMMA RefreshedState ==
  ASSUME TypeOK, CoreInv, NEW c \in Computed
  PROVE  /\ Refreshed(stack, c) => state[c] # "Dirty" /\ c \in registered
         /\ Refreshed(stack, c) /\ state[c] = "Clean" => Active(c)
         /\ Refreshed(stack, c) /\ state[c] = "Check" => ~HasFrame(c, {"compute"})
<1>1. \A i \in DOMAIN stack : ComputeSound(stack[i]) /\ VerifySound(stack[i])
  BY DEF CoreInv, FramesSound, FramesOf, FrameSound
<1>2. QED
  BY <1>1 DEF ComputeSound, VerifySound, Refreshed, Refreshing, Active, HasFrame

Steady ==
  \A d \in Observables : Settled(d) => Settled(d)' /\ version'[d] = version[d]

EdgesKeep ==
  \A o \in Observers : \A d \in Keys(dependencies'[o]) :
    \/ dependencies'[o][d] = dependencies[o][d]
    \/ dependencies'[o][d] = version'[d] /\ Settled(d)'

(* So an observer that was up to date with all it read is so after the step. *)
LEMMA KeepsUpToDate ==
  ASSUME Steady, EdgesKeep, NEW o \in Observers, UpToDateWithAll(o)
  PROVE  UpToDateWithAll(o)'
<1>1. SUFFICES ASSUME NEW d \in Keys(dependencies'[o])
               PROVE  dependencies'[o][d] = version'[d] /\ Settled(d)'
  BY DEF UpToDateWithAll, UpToDate
<1>2. d \in Observables /\ dependencies'[o][d] # None
  BY DEF Keys
<1>3. CASE dependencies'[o][d] = dependencies[o][d]
  <2>1. d \in Keys(dependencies[o])
    BY <1>2, <1>3 DEF Keys
  <2>2. dependencies[o][d] = version[d] /\ Settled(d)
    BY <2>1 DEF UpToDateWithAll, UpToDate
  <2>3. QED
    BY <1>2, <1>3, <2>2 DEF Steady
<1>4. QED
  BY <1>3 DEF EdgesKeep

LEMMA SteadyWhen ==
  ASSUME TypeOK, \A s \in Signals : version'[s] = version[s],
         \A c \in Computed : Settled(c) =>
           /\ version'[c] = version[c] /\ state'[c] = state[c]
           /\ Refreshed(stack', c) => Refreshed(stack, c)
  PROVE  Steady
<1>1. SUFFICES ASSUME NEW d \in Observables, Settled(d)
               PROVE  Settled(d)' /\ version'[d] = version[d]
  BY DEF Steady
<1>2. CASE d \in Signals
  BY <1>2, SignalsSettled
<1>3. CASE d \in Computed
  BY <1>1, <1>3, SettledMeans
<1>4. QED
  BY <1>2, <1>3 DEF Observables

LEMMA EdgesKeepWhen ==
  ASSUME TypeOK,
         \/ UNCHANGED edges
         \/ \E o \in Observers : ClearDependencies(o)
         \/ \E n \in Observables : ForgetObservable(n)
         \/ \E o \in Observers, d \in Observables :
              Observe(o, d, version'[d]) /\ Settled(d)'
  PROVE  EdgesKeep
<1>1. CASE UNCHANGED edges
  BY <1>1 DEF EdgesKeep, edges
<1>2. ASSUME NEW o \in Observers, ClearDependencies(o) PROVE EdgesKeep
  BY <1>2 DEF EdgesKeep, ClearDependencies, TypeOK, Keys, NoEdges
<1>3. ASSUME NEW n \in Observables, ForgetObservable(n) PROVE EdgesKeep
  <2>1. SUFFICES ASSUME NEW o \in Observers, NEW d \in Keys(dependencies'[o])
                 PROVE  dependencies'[o][d] = dependencies[o][d]
    BY DEF EdgesKeep
  <2>2. d \in Observables /\ dependencies'[o][d] # None
    BY DEF Keys
  <2>3. dependencies'[o] = IF o = n THEN NoEdges ELSE [dependencies[o] EXCEPT ![n] = None]
    BY <1>3 DEF ForgetObservable
  <2>4. dependencies[o] \in EdgeMaps
    BY DEF TypeOK
  <2>5. QED
    BY <2>2, <2>3, <2>4 DEF NoEdges, EdgeMaps
<1>4. ASSUME NEW o \in Observers, NEW d \in Observables,
             Observe(o, d, version'[d]), Settled(d)'
      PROVE  EdgesKeep
  <2>1. SUFFICES ASSUME NEW p \in Observers, NEW n \in Keys(dependencies'[p])
                 PROVE  \/ dependencies'[p][n] = dependencies[p][n]
                        \/ dependencies'[p][n] = version'[n] /\ Settled(n)'
    BY DEF EdgesKeep
  <2>2. n \in Observables
    BY DEF Keys
  <2>3. dependencies'[p][n] = IF p = o /\ n = d THEN version'[d] ELSE dependencies[p][n]
    BY <1>4, <2>2 DEF Observe, TypeOK, EdgeMaps
  <2>4. QED
    BY <1>4, <2>3
<1>5. QED
  BY <1>1, <1>2, <1>3, <1>4

(* Starting a refresh of a node that is not settled disturbs no other. *)
LEMMA StartComputeSteady ==
  ASSUME TypeOK, NEW c \in Computed, ~Settled(c), NEW t \in BOOLEAN,
         NEW stk \in Seq(Frames), \A n \in Computed : Refreshed(stk, n) => Refreshed(stack, n),
         StartCompute(c, t, stk), version' = version
  PROVE  Steady /\ EdgesKeep
<1>1. EdgesKeep
  BY EdgesKeepWhen DEF StartCompute, Observers
<1>2. ASSUME NEW n \in Computed, Settled(n)
      PROVE  /\ version'[n] = version[n] /\ state'[n] = state[n]
             /\ Refreshed(stack', n) => Refreshed(stack, n)
  <2>1. n # c /\ n \in Observers
    BY <1>2 DEF Observers
  <2>2. state'[n] = state[n] /\ stack' = Append(stk, Frame("compute", c, t))
    BY <2>1 DEF StartCompute, TypeOK
  <2>3. Refreshed(stack', n) => Refreshed(stack, n)
    BY <2>1, <2>2, PushedRefresh, RefreshedPushed
  <2>4. QED
    BY <2>2, <2>3
<1>3. QED
  BY <1>1, <1>2, SteadyWhen

LEMMA StartRefreshSteady ==
  ASSUME TypeOK, NEW c \in Computed, NEW t \in BOOLEAN,
         NEW stk \in Seq(Frames), \A n \in Computed : Refreshed(stk, n) => Refreshed(stack, n),
         StartRefresh(c, t, stk), version' = version
  PROVE  Steady /\ EdgesKeep
<1>1. ~Settled(c)
  BY SettledMeans DEF StartRefresh
<1>2. CASE StartCompute(c, t, stk)
  BY <1>1, <1>2, StartComputeSteady
<1>3. CASE stack' = Append(stk, VerifyFrame(c, t)) /\ UNCHANGED <<edges, state>>
  <2>1. EdgesKeep
    BY <1>3, EdgesKeepWhen
  <2>2. ASSUME NEW n \in Computed, Settled(n)
        PROVE  Refreshed(stack', n) => Refreshed(stack, n)
    <3>1. n # c
      BY <1>1, <2>2
    <3>2. QED
      BY <1>3, <3>1, PushedRefresh, RefreshedPushed
  <2>3. QED
    BY <1>3, <2>1, <2>2, SteadyWhen
<1>4. QED
  BY <1>2, <1>3 DEF StartRefresh

(* Taking a frame away makes nobody refreshed; nor does replacing one by    *)
(* what is of the same node, or not a refresh.                              *)
LEMMA PopRefreshesNone ==
  ASSUME TypeOK, RankedStack(stack), ~Idle
  PROVE  /\ Pop \in Seq(Frames)
         /\ \A n \in Computed : Refreshed(Pop, n) => Refreshed(stack, n)
         /\ \A f \in Frames : f.node = Top.node =>
              \A n \in Computed : Refreshed(Append(Pop, f), n) => Refreshed(stack, n)
<1>1. Pop \in Seq(Frames) /\ Top \in Frames
  BY TopType
<1>2. \A n \in Computed : Refreshed(Pop, n) => Refreshed(stack, n)
  BY RefreshedPopped
<1>3. ASSUME NEW f \in Frames, f.node = Top.node, NEW n \in Computed,
             Refreshed(Append(Pop, f), n)
      PROVE  Refreshed(stack, n)
  <2>1. Refreshed(Pop, n) \/ f.node = n
    BY <1>1, <1>3, RefreshedPushed
  <2>2. f.node = n => Top.kind \in Refreshing
    BY <1>1, <1>3, FrameKinds
  <2>3. QED
    BY <1>3, <2>1, <2>2, RefreshedPopped
<1>4. QED
  BY <1>1, <1>2, <1>3

(* The read that ends a refresh of c, once c is settled. *)
LEMMA ObserveOnKeeps ==
  ASSUME TypeOK, NEW c \in Computed, NEW stk \in Seq(Frames), NEW t \in BOOLEAN,
         ObserveOn(stk, t, c, version'[c]), Settled(c)'
  PROVE  EdgesKeep
<1>1. c \in Observables /\ (ObserverOn(stk) # None => ObserverOn(stk) \in Observers)
  BY ObserverOnType DEF Observables
<1>2. CASE t /\ ObserverOn(stk) # None
  BY <1>1, <1>2, EdgesKeepWhen DEF ObserveOn
<1>3. CASE ~(t /\ ObserverOn(stk) # None)
  BY <1>3, EdgesKeepWhen DEF ObserveOn
<1>4. QED
  BY <1>2, <1>3

(* What runs on top of the stack when a refresh ends. *)
LEMMA RefreshOnTop ==
  ASSUME TypeOK, CoreInv, ~Idle, Top.kind \in Refreshing, Top.node \in Computed
  PROVE  /\ ~Settled(Top.node) /\ ~Refreshed(Pop, Top.node)
         /\ Top.node \in registered
         /\ Top.kind = "compute" => state[Top.node] = "Clean" /\ UpToDateWithAll(Top.node)
         /\ Top.kind = "verify" => state[Top.node] = "Check"
<1>1. Len(stack) \in DOMAIN stack /\ Top = stack[Len(stack)]
  BY TopIndex
<1>2. Refreshed(stack, Top.node) /\ ~Refreshed(Pop, Top.node)
  BY RefreshedPopped DEF CoreInv
<1>3. FrameSound(Top)
  BY <1>1 DEF CoreInv, FramesSound, FramesOf
<1>4. QED
  BY <1>2, <1>3, SettledMeans DEF FrameSound, ComputeSound, VerifySound, Refreshing

LEMMA UserSteady ==
  ASSUME TypeOK, CoreInv,
         \/ \E s \in Signals : ReadSignal(s)
         \/ \E c \in Computed : ReadCycle(c) \/ ReadClean(c) \/ ReadStale(c)
         \/ \E e \in Effects : RunReady(e) \/ Dispose(e) \/ Discard(e)
         \/ \E n \in Observables : DropHandle(n)
         \/ Panic
  PROVE  Steady /\ EdgesKeep
<1>0. stack \in Seq(Frames)
  BY DEF TypeOK
<1>1. ASSUME NEW s \in Signals, ReadSignal(s) PROVE Steady /\ EdgesKeep
  <2>1. Top.node \in Observers /\ s \in Observables
    BY <1>1, TopObserverType DEF ReadSignal, Observables
  <2>2. Steady
    BY <1>1, SteadyWhen DEF ReadSignal
  <2>3. QED
    BY <1>1, <2>1, <2>2, SignalsSettled, EdgesKeepWhen DEF ReadSignal
<1>2. ASSUME NEW c \in Computed, ReadCycle(c) \/ ReadClean(c) PROVE Steady /\ EdgesKeep
  <2>1. Steady
    BY <1>2, SteadyWhen DEF ReadCycle, ReadClean
  <2>2. CASE ReadCycle(c)
    BY <2>1, <2>2, EdgesKeepWhen DEF ReadCycle
  <2>3. CASE ReadClean(c)
    <3>1. Top.node \in Observers /\ c \in Observables
      BY <2>3, TopObserverType DEF ReadClean, Observables
    <3>2. Settled(c)'
      BY <2>3, RefreshedState, SettledMeans DEF ReadClean
    <3>3. QED
      BY <2>1, <2>3, <3>1, <3>2, EdgesKeepWhen DEF ReadClean
  <2>4. QED
    BY <1>2, <2>2, <2>3
<1>3. ASSUME NEW c \in Computed, ReadStale(c) PROVE Steady /\ EdgesKeep
  <2>1. PICK t \in BOOLEAN : StartRefresh(c, t, stack)
    BY <1>3 DEF ReadStale, TrackModes
  <2>2. version' = version
    BY <1>3 DEF ReadStale
  <2>3. QED
    BY <1>0, <2>1, <2>2, StartRefreshSteady
<1>4. ASSUME NEW e \in Effects, RunStale(e) \/ Dispose(e) PROVE Steady /\ EdgesKeep
  <2>1. \A n \in Computed : n # e
    BY NodesAssumption
  <2>2. \A n \in Computed : version'[n] = version[n] /\ state'[n] = state[n]
    BY <1>4, <2>1 DEF RunStale, Dispose, TypeOK, Observers
  <2>3. PICK f \in Frames : f.node = e /\ stack' = Append(stack, f)
    BY <1>4, PushedEffect DEF RunStale, Dispose, StartDispose
  <2>4. \A n \in Computed : Refreshed(stack', n) => Refreshed(stack, n)
    BY <1>0, <2>1, <2>3, RefreshedPushed
  <2>5. QED
    BY <1>4, <2>2, <2>4, SteadyWhen, EdgesKeepWhen DEF RunStale, Dispose
<1>5. ASSUME NEW e \in Effects, RunNothing(e) \/ RunDeferred(e) \/ Discard(e)
      PROVE  Steady /\ EdgesKeep
  BY <1>5, SteadyWhen, EdgesKeepWhen DEF RunNothing, RunDeferred, Discard
<1>6. ASSUME NEW n \in Observables, DropHandle(n) PROVE Steady /\ EdgesKeep
  BY <1>6, SteadyWhen, EdgesKeepWhen DEF DropHandle
<1>7. CASE Panic
  BY <1>7, SteadyWhen, EdgesKeepWhen DEF Panic
<1>8. QED
  BY <1>1, <1>2, <1>3, <1>4, <1>5, <1>6, <1>7 DEF RunReady

(* The library is on top of the stack when it goes on. *)
LEMMA ContinuesOnTop ==
  ASSUME TypeOK, ComparatorPanic \/ Continue
  PROVE  /\ ~Idle /\ Top \in Frames /\ Top.node \in Observers
         /\ Top.node \in Computed <=> Top.node \notin Effects
<1>1. ~Idle
  BY DEF Continue, VerifyCycle, VerifyRefresh, VerifySame, VerifyChangedComputed,
         VerifyUnchangedComputed, VerifyChangedEffect, VerifyUnchangedEffect, Verifying,
         ComputeReturn, TeardownReturn, BodyReturn, DisposeReturn, ComparatorPanic,
         UnwindComputed, UnwindEffect, BoundaryCatch, UnwindDispose, TypeOK
<1>2. QED
  BY <1>1, TopType, FrameKinds

(* Only effects are torn down, run and disposed; computed nodes compute. *)
LEMMA KindsTell ==
  ASSUME TypeOK, ~Idle
  PROVE  /\ Top.kind \in {"teardown", "body", "dispose"} => Top.node \in Effects
         /\ Top.kind = "compute" => Top.node \in Computed
         /\ Top.node \in Computed => Top.kind \in Refreshing
BY TopType, FrameKinds DEF Refreshing

(* What replaces an effect's frame is what is pushed on the rest. *)
LEMMA EffectRetop ==
  ASSUME TypeOK, ~Idle, Top.node \in Effects
  PROVE  \A k \in {"teardown", "body", "dispose"} :
           /\ Retop(Frame(k, Top.node, FALSE)) = Append(Pop, Frame(k, Top.node, FALSE))
           /\ Frame(k, Top.node, FALSE) \in Frames
           /\ Frame(k, Top.node, FALSE).node = Top.node
           /\ Frame(k, Top.node, FALSE).kind = k
<1>1. ASSUME NEW k \in {"teardown", "body", "dispose"}
      PROVE  /\ Frame(k, Top.node, FALSE) \in Frames
             /\ Frame(k, Top.node, FALSE).node = Top.node
             /\ Frame(k, Top.node, FALSE).kind = k
  BY PushedEffect
<1>2. QED
  BY <1>1, RetopIsPush

(* Every return of a frame leaves the others alone. *)
LEMMA ReturnSteady ==
  ASSUME TypeOK, CoreInv, ~Idle, stack' = Pop,
         \A s \in Signals : version'[s] = version[s],
         \A c \in Computed : Settled(c) => version'[c] = version[c] /\ state'[c] = state[c]
  PROVE  Steady
<1>1. \A n \in Computed : Refreshed(stack', n) => Refreshed(stack, n)
  BY PopRefreshesNone DEF CoreInv
<1>2. QED
  BY <1>1, SteadyWhen

LEMMA VerifySteady ==
  ASSUME TypeOK, CoreInv,
         \/ \E d \in Observables : VerifyCycle(d) \/ VerifyRefresh(d)
         \/ VerifySame \/ VerifyChangedComputed \/ VerifyUnchangedComputed
         \/ VerifyChangedEffect \/ VerifyUnchangedEffect
  PROVE  Steady /\ EdgesKeep
<1>1. /\ ~Idle /\ Top \in Frames /\ Top.node \in Observers
      /\ Top.node \in Computed <=> Top.node \notin Effects
      /\ Top.kind = "verify" /\ Pop \in Seq(Frames)
  BY ContinuesOnTop, TopType
     DEF Continue, VerifyCycle, VerifyRefresh, VerifySame, VerifyChangedComputed,
         VerifyUnchangedComputed, VerifyChangedEffect, VerifyUnchangedEffect, Verifying
<1>2. ASSUME NEW d \in Observables, VerifyCycle(d) PROVE Steady /\ EdgesKeep
  BY <1>2, SteadyWhen, EdgesKeepWhen DEF VerifyCycle
<1>3. ASSUME NEW d \in Observables, VerifyRefresh(d) PROVE Steady /\ EdgesKeep
  <2> DEFINE g == [Top EXCEPT !.cur = d]
  <2>1. g \in Frames /\ g.node = Top.node
    BY <1>1 DEF Frames
  <2>2. Retop(g) = Append(Pop, g) /\ Append(Pop, g) \in Seq(Frames)
    BY <1>1, <2>1, RetopIsPush, PushedFrames
  <2> HIDE DEF g
  <2>3. \A n \in Computed : Refreshed(Retop(g), n) => Refreshed(stack, n)
    BY <1>1, <2>1, <2>2, PopRefreshesNone DEF CoreInv
  <2>4. version' = version
    BY <1>3 DEF VerifyRefresh
  <2>5. CASE d \in Computed /\ StartRefresh(d, FALSE, Retop(g))
    BY <2>2, <2>3, <2>4, <2>5, StartRefreshSteady
  <2>6. CASE stack' = Retop(g) /\ UNCHANGED <<edges, state>>
    BY <2>3, <2>4, <2>6, SteadyWhen, EdgesKeepWhen
  <2>7. QED
    BY <1>3, <2>5, <2>6 DEF VerifyRefresh, g
<1>4. CASE VerifySame
  <2> DEFINE g == [Top EXCEPT !.cur = None, !.todo[Top.cur] = None]
  <2>1. g \in Frames /\ g.node = Top.node
    BY <1>1 DEF Frames, EdgeMaps
  <2>2. stack' = Append(Pop, g)
    BY <1>1, <1>4, <2>1, RetopIsPush DEF VerifySame
  <2> HIDE DEF g
  <2>3. \A n \in Computed : Refreshed(stack', n) => Refreshed(stack, n)
    BY <1>1, <2>1, <2>2, PopRefreshesNone DEF CoreInv
  <2>4. QED
    BY <1>4, <2>3, SteadyWhen, EdgesKeepWhen DEF VerifySame
<1>5. CASE VerifyChangedComputed
  <2>1. Top.node \in Computed /\ StartCompute(Top.node, Top.tracked, Pop) /\ version' = version
    BY <1>5 DEF VerifyChangedComputed
  <2>2. ~Settled(Top.node) /\ Top.tracked \in BOOLEAN
    BY <1>1, <2>1, RefreshOnTop, FrameKinds DEF Refreshing
  <2>3. \A n \in Computed : Refreshed(Pop, n) => Refreshed(stack, n)
    BY <1>1, PopRefreshesNone DEF CoreInv
  <2>4. QED
    BY <1>1, <2>1, <2>2, <2>3, StartComputeSteady
<1>6. CASE VerifyUnchangedComputed
  <2>1. /\ Top.node \in Computed /\ stack' = Pop /\ version' = version
        /\ state' = [state EXCEPT ![Top.node] = "Clean"]
        /\ ObserveOn(Pop, Top.tracked, Top.node, version[Top.node])
    BY <1>6 DEF VerifyUnchangedComputed
  <2>2. ~Settled(Top.node) /\ ~Refreshed(Pop, Top.node) /\ Top.tracked \in BOOLEAN
    BY <1>1, <2>1, RefreshOnTop, FrameKinds DEF Refreshing
  <2>3. \A c \in Computed : Settled(c) => state'[c] = state[c]
    BY <2>1, <2>2 DEF TypeOK, Observers
  <2>4. \A c \in Computed : c = Top.node => Settled(c)'
    BY <1>1, <2>1, <2>2, SettledMeans DEF TypeOK
  <2>5. Steady
    BY <1>1, <2>1, <2>3, ReturnSteady
  <2>6. EdgesKeep
    BY <1>1, <2>1, <2>2, <2>4, ObserveOnKeeps
  <2>7. QED
    BY <2>5, <2>6
<1>7. CASE VerifyChangedEffect
  <2>1. Top.node \in Effects /\ UNCHANGED <<version, state, edges>>
    BY <1>7 DEF VerifyChangedEffect
  <2>2. stack' = Pop \/ \E f \in Frames : f.node = Top.node /\ stack' = Append(Pop, f)
    BY <1>1, <1>7, <2>1, EffectRetop DEF VerifyChangedEffect
  <2>3. \A n \in Computed : Refreshed(stack', n) => Refreshed(stack, n)
    BY <1>1, <2>2, PopRefreshesNone DEF CoreInv
  <2>4. QED
    BY <2>1, <2>3, SteadyWhen, EdgesKeepWhen
<1>8. CASE VerifyUnchangedEffect
  BY <1>1, <1>8, ReturnSteady, EdgesKeepWhen DEF VerifyUnchangedEffect
<1>9. QED
  BY <1>2, <1>3, <1>4, <1>5, <1>6, <1>7, <1>8

LEMMA ReturnsSteady ==
  ASSUME TypeOK, CoreInv,
         \/ ComputeReturn \/ TeardownReturn \/ BodyReturn \/ DisposeReturn
         \/ ComparatorPanic
         \/ UnwindComputed \/ UnwindEffect \/ BoundaryCatch \/ UnwindDispose
  PROVE  Steady /\ EdgesKeep
<1>1. /\ ~Idle /\ Top \in Frames /\ Top.node \in Observers
      /\ Top.node \in Computed <=> Top.node \notin Effects
      /\ Pop \in Seq(Frames)
  BY ContinuesOnTop, TopType DEF Continue
<1>2. CASE ComputeReturn
  <2>1. Top.kind = "compute" /\ Top.node \in Computed /\ stack' = Pop /\ state' = state
    BY <1>1, <1>2, KindsTell DEF ComputeReturn
  <2>2. PICK v \in Nat : /\ version' = [version EXCEPT ![Top.node] = v]
                         /\ ObserveOn(Pop, Top.tracked, Top.node, v)
    <3>1. version[Top.node] \in Nat
      BY <2>1 DEF TypeOK, Observables
    <3>2. PICK changed \in BOOLEAN :
            LET v == IF changed THEN version[Top.node] + 1 ELSE version[Top.node] IN
            /\ version' = [version EXCEPT ![Top.node] = v]
            /\ ObserveOn(Pop, Top.tracked, Top.node, v)
      BY <1>2 DEF ComputeReturn
    <3>3. (IF changed THEN version[Top.node] + 1 ELSE version[Top.node]) \in Nat
      BY <3>1
    <3>4. QED
      BY <3>2, <3>3
  <2>3. /\ ~Settled(Top.node) /\ ~Refreshed(Pop, Top.node) /\ Top.tracked \in BOOLEAN
        /\ state[Top.node] = "Clean"
    BY <1>1, <2>1, RefreshOnTop, FrameKinds DEF Refreshing
  <2>4. version'[Top.node] = v /\ \A n \in Observables : n # Top.node => version'[n] = version[n]
    BY <2>1, <2>2 DEF TypeOK, Observables
  <2>5. \A s \in Signals : version'[s] = version[s]
    <3>1. \A s \in Signals : s \in Observables /\ s # Top.node
      BY <1>1, NodesAssumption DEF Observables
    <3>2. QED
      BY <2>4, <3>1
  <2>6. \A c \in Computed : Settled(c) => version'[c] = version[c]
    BY <2>3, <2>4 DEF Observables
  <2>7. \A c \in Computed : c = Top.node => Settled(c)'
    BY <2>1, <2>3, SettledMeans
  <2>8. QED
    BY <1>1, <2>1, <2>2, <2>3, <2>4, <2>5, <2>6, <2>7, ReturnSteady, ObserveOnKeeps
<1>3. CASE TeardownReturn
  <2>1. Top.node \in Effects /\ UNCHANGED <<version, state>>
    BY <1>1, <1>3, KindsTell DEF TeardownReturn
  <2>2. stack' = Pop \/ \E f \in Frames : f.node = Top.node /\ stack' = Append(Pop, f)
    BY <1>1, <1>3, <2>1, EffectRetop DEF TeardownReturn
  <2>3. \A n \in Computed : Refreshed(stack', n) => Refreshed(stack, n)
    BY <1>1, <2>2, PopRefreshesNone DEF CoreInv
  <2>4. UNCHANGED edges \/ ClearDependencies(Top.node)
    BY <1>3 DEF TeardownReturn
  <2>5. QED
    BY <1>1, <2>1, <2>3, <2>4, SteadyWhen, EdgesKeepWhen
<1>4. CASE BodyReturn \/ ComparatorPanic
  BY <1>1, <1>4, ReturnSteady, EdgesKeepWhen DEF BodyReturn, ComparatorPanic, PopUnwinding
<1>5. CASE DisposeReturn \/ UnwindDispose
  <2>1. ClearDependencies(Top.node) /\ stack' = Pop /\ UNCHANGED <<version, state>>
    BY <1>5 DEF DisposeReturn, UnwindDispose, Unhook, PopUnwinding
  <2>2. QED
    BY <1>1, <2>1, ReturnSteady, EdgesKeepWhen
<1>6. CASE UnwindComputed
  <2>1. /\ Top.node \in Computed /\ stack' = Pop /\ UNCHANGED <<version, edges>>
        /\ state' = [state EXCEPT ![Top.node] = "Dirty"] \/ state' = state
    BY <1>6 DEF UnwindComputed, PopUnwinding
  <2>2. ~Settled(Top.node)
    BY <1>1, <2>1, KindsTell, RefreshOnTop
  <2>3. \A c \in Computed : Settled(c) => state'[c] = state[c]
    BY <2>1, <2>2 DEF TypeOK, Observers
  <2>4. QED
    BY <1>1, <2>1, <2>3, ReturnSteady, EdgesKeepWhen
<1>7. CASE UnwindEffect \/ BoundaryCatch
  <2>1. Top.node \in Effects
    BY <1>7, ClosuresAssumption DEF UnwindEffect, BoundaryCatch
  <2>2. UNCHANGED <<version, edges>>
    BY <1>7 DEF UnwindEffect, BoundaryCatch
  <2>3. state' = [state EXCEPT ![Top.node] = "Dirty"] \/ state' = state
    BY <1>7 DEF UnwindEffect, Recover, BoundaryCatch
  <2>4. \A c \in Computed : state'[c] = state[c]
    BY <1>1, <2>1, <2>3 DEF TypeOK, Observers
  <2>5. stack' = Pop \/ \E f \in Frames : f.node = Top.node /\ stack' = Append(Pop, f)
    BY <1>7, <2>1, PushedEffect DEF UnwindEffect, PopUnwinding, BoundaryCatch, StartDispose
  <2>6. \A n \in Computed : Refreshed(stack', n) => Refreshed(stack, n)
    BY <1>1, <2>5, PopRefreshesNone DEF CoreInv
  <2>7. QED
    BY <2>2, <2>4, <2>6, SteadyWhen, EdgesKeepWhen
<1>8. QED
  BY <1>2, <1>3, <1>4, <1>5, <1>6, <1>7

(* Every step but a write. *)
LEMMA NextSteady ==
  ASSUME TypeOK, CoreInv, Next, ~\E s \in Signals : Write(s)
  PROVE  Steady /\ EdgesKeep
BY UserSteady, VerifySteady, ReturnsSteady DEF Next, Continue

-----------------------------------------------------------------------------
(* Writes.                                                                 *)

(* Marking starts with the direct dependents and goes on where it may. *)
LEMMA ReachedClosed ==
  ASSUME TypeOK, NEW s \in Observables
  PROVE  /\ Reached(s) \subseteq Observers
         /\ dependents[s] \subseteq Reached(s)
         /\ \A c \in Reached(s) : PassesMarksOn(c) => dependents[c] \subseteq Reached(s)
<1>1. dependents[s] \subseteq Observers /\ Reached(s) \subseteq Observers
  BY DEF TypeOK, Reached
<1>2. dependents[s] \subseteq Reached(s)
  BY <1>1 DEF Reached
<1>3. ASSUME NEW c \in Reached(s), PassesMarksOn(c), NEW o \in dependents[c]
      PROVE  o \in Reached(s)
  <2>1. c \in Observables
    BY <1>3 DEF PassesMarksOn, Observables
  <2>2. o \in Observers
    BY <2>1 DEF TypeOK
  <2>3. QED
    BY <1>3, <2>2 DEF Reached
<1>4. QED
  BY <1>1, <1>2, <1>3

(* A write leaves alone what it does not mark: whoever is still unmarked    *)
(* has read nothing that has changed or has been marked.                    *)
LEMMA WriteKeeps ==
  ASSUME TypeOK, CoreInv, EdgesAgree, NEW s \in Signals, Write(s),
         NEW o \in Observers \cap registered, UpToDateWithAll(o), state'[o] = "Clean"
  PROVE  state[o] = "Clean" /\ UpToDateWithAll(o)'
<1>1. /\ version' = [version EXCEPT ![s] = @ + 1] /\ state' = Marked(s)
      /\ UNCHANGED <<stack, dependencies, registered>>
  BY DEF Write, Trigger, edges
<1>2. s \in Observables
  BY DEF Observables
<1>3. \A n \in Observers \cap registered :
        state'[n] = IF n \in dependents[s] THEN "Dirty"
                    ELSE IF n \in Reached(s) /\ state[n] = "Clean" THEN "Check" ELSE state[n]
  BY <1>1 DEF Marked
<1>4. state[o] = "Clean" /\ o \notin Reached(s)
  BY <1>2, <1>3, ReachedClosed
<1>5. ASSUME NEW d \in Keys(dependencies[o])
      PROVE  dependencies[o][d] = version'[d] /\ Settled(d)'
  <2>1. d \in Observables /\ d \in registered /\ o \in dependents[d]
    BY <1>5 DEF Keys, EdgesAgree, CoreInv, EdgesInGraph
  <2>2. d # s
    BY <1>2, <1>4, <2>1, ReachedClosed
  <2>3. dependencies[o][d] = version[d] /\ Settled(d)
    BY <1>5 DEF UpToDateWithAll, UpToDate
  <2>4. version'[d] = version[d]
    BY <1>1, <2>1, <2>2 DEF TypeOK
  <2>5. ASSUME d \in Computed PROVE Settled(d)'
    <3>1. state[d] = "Clean" /\ ~Refreshed(stack, d) /\ d \in Observers
      BY <2>3, <2>5, SettledMeans DEF Observers
    <3>2. PassesMarksOn(d)
      BY <2>1, <2>5, <3>1 DEF PassesMarksOn
    <3>3. d \notin Reached(s) /\ d \notin dependents[s]
      BY <1>2, <1>4, <2>1, <3>2, ReachedClosed
    <3>4. state'[d] = "Clean"
      BY <1>3, <2>1, <3>1, <3>3
    <3>5. QED
      BY <1>1, <2>5, <3>1, <3>4, SettledMeans
  <2>6. QED
    BY <2>1, <2>3, <2>4, <2>5, SignalsSettled DEF Observables
<1>6. QED
  BY <1>1, <1>4, <1>5 DEF UpToDateWithAll, UpToDate, Keys

(* While a signal is written nothing is being refreshed. *)
LEMMA WriteOutside ==
  ASSUME TypeOK, CoreInv, NEW s \in Signals, Write(s)
  PROVE  Outside /\ UNCHANGED <<stack, edges, registered, disposed, panicking, abandoned, rerun>>
BY SideEffectsOutside DEF Write, CoreInv

(* No step makes an unmarked observer out of date. *)
LEMMA NextKeeps ==
  ASSUME TypeOK, CoreInv, EdgesAgree, Next,
         NEW o \in Observers \cap registered, UpToDateWithAll(o), state'[o] = "Clean"
  PROVE  UpToDateWithAll(o)'
BY NextSteady, KeepsUpToDate, WriteKeeps

-----------------------------------------------------------------------------
(* The edges of a step.                                                    *)

LEMMA EdgesInGraphWhen ==
  ASSUME TypeOK, EdgesInGraph,
         \A d \in Observables : version[d] <= version'[d] /\ version'[d] \in Nat,
         \/ /\ registered \cap Observables \subseteq registered'
            /\ \/ UNCHANGED edges
               \/ \E o \in Observers : ClearDependencies(o)
               \/ \E o \in Observers : \E d \in Reads[o] \cap registered \cap Observables :
                    Observe(o, d, version'[d])
         \/ \E n \in Observables : ForgetObservable(n) /\ registered' = registered \ {n}
  PROVE  EdgesInGraph'
<1> SUFFICES ASSUME NEW o \in Observers, NEW d \in Observables, dependencies'[o][d] # None
             PROVE  d \in Reads[o] \cap registered' /\ dependencies'[o][d] <= version'[d]
  BY DEF EdgesInGraph, Keys
<1>1. dependencies[o] \in EdgeMaps /\ version[d] \in Nat /\ version[d] <= version'[d]
      /\ version'[d] \in Nat /\ dependencies[o][d] \in Nat \cup {None}
  BY DEF TypeOK, EdgeMaps
<1>2. ASSUME dependencies[o][d] # None
      PROVE  /\ d \in Reads[o] \cap registered /\ dependencies[o][d] <= version[d]
             /\ dependencies[o][d] <= version'[d]
  <2>1. d \in Reads[o] \cap registered /\ dependencies[o][d] <= version[d]
    BY <1>2 DEF EdgesInGraph, Keys
  <2>2. QED
    BY <1>1, <1>2, <2>1
<1>3. CASE registered \cap Observables \subseteq registered' /\ UNCHANGED edges
  BY <1>2, <1>3 DEF edges
<1>4. ASSUME registered \cap Observables \subseteq registered',
             NEW p \in Observers, ClearDependencies(p)
      PROVE  d \in Reads[o] \cap registered' /\ dependencies'[o][d] <= version'[d]
  <2>1. dependencies'[o] = IF o = p THEN NoEdges ELSE dependencies[o]
    BY <1>4 DEF ClearDependencies, TypeOK
  <2>2. dependencies'[o][d] = dependencies[o][d]
    BY <2>1 DEF NoEdges
  <2>3. QED
    BY <1>2, <1>4, <2>2
<1>5. ASSUME registered \cap Observables \subseteq registered', NEW p \in Observers,
             NEW n \in Reads[p] \cap registered \cap Observables,
             Observe(p, n, version'[n])
      PROVE  d \in Reads[o] \cap registered' /\ dependencies'[o][d] <= version'[d]
  <2>1. dependencies'[o][d] = IF o = p /\ d = n THEN version'[d] ELSE dependencies[o][d]
    BY <1>5 DEF Observe, TypeOK, EdgeMaps
  <2>2. QED
    BY <1>1, <1>2, <1>5, <2>1
<1>6. ASSUME NEW n \in Observables, ForgetObservable(n), registered' = registered \ {n}
      PROVE  d \in Reads[o] \cap registered' /\ dependencies'[o][d] <= version'[d]
  <2>1. dependencies'[o] = IF o = n THEN NoEdges ELSE [dependencies[o] EXCEPT ![n] = None]
    BY <1>6 DEF ForgetObservable
  <2>2. d # n /\ dependencies'[o][d] = dependencies[o][d]
    BY <1>1, <2>1 DEF NoEdges, EdgeMaps
  <2>3. QED
    BY <1>2, <1>6, <2>2
<1>7. QED
  BY <1>3, <1>4, <1>5, <1>6

(* A version only ever grows, by one, and only that of what is written or   *)
(* has been computed.                                                       *)
LEMMA VersionsGrow ==
  ASSUME TypeOK, Next
  PROVE  \A d \in Observables : version[d] <= version'[d] /\ version'[d] \in Nat
<1>1. \/ UNCHANGED version
      \/ \E d \in Observables : version' = [version EXCEPT ![d] = @ + 1]
      \/ version' = [version EXCEPT ![Top.node] = version[Top.node]]
  <2>1. CASE \E s \in Signals : Write(s)
    BY <2>1 DEF Write, Trigger, Observables
  <2>2. CASE ComputeReturn
    <3>1. Top.node \in Computed
      BY <2>2, KindsTell DEF ComputeReturn
    <3>2. QED
      BY <2>2, <3>1 DEF ComputeReturn, Observables
  <2>3. CASE ~(\E s \in Signals : Write(s)) /\ ~ComputeReturn
    BY <2>3 DEF Next, Continue, ReadSignal, ReadCycle, ReadClean, ReadStale, RunReady,
       RunNothing, RunDeferred, RunStale, Dispose, Discard, DropHandle, Panic, ComparatorPanic,
       VerifyCycle, VerifyRefresh, VerifySame, VerifyChangedComputed, VerifyUnchangedComputed,
       VerifyChangedEffect, VerifyUnchangedEffect, TeardownReturn, BodyReturn, DisposeReturn,
       UnwindComputed, UnwindEffect, BoundaryCatch, UnwindDispose
  <2>4. QED
    BY <2>1, <2>2, <2>3
<1>2. \A d \in Observables : version[d] \in Nat
  BY DEF TypeOK
<1>3. QED
  BY <1>1, <1>2 DEF TypeOK

(* The read that ends a refresh is one its reader may make. *)
LEMMA ReaderBelow ==
  ASSUME TypeOK, CoreInv, ~Idle, Top.node \in Computed, NEW t, NEW v,
         ObserveOn(Pop, t, Top.node, v)
  PROVE  \/ UNCHANGED edges
         \/ \E i \in DOMAIN Pop :
              /\ i = Len(Pop) /\ Pop[i].kind \in {"compute", "body"}
              /\ Pop[i].node \in Observers /\ Top.node \in Reads[Pop[i].node]
              /\ Observe(Pop[i].node, Top.node, v)
<1>1. CASE ~(t /\ ObserverOn(Pop) # None)
  BY <1>1 DEF ObserveOn
<1>2. CASE t /\ ObserverOn(Pop) # None
  <2>1. /\ Pop \in Seq(Frames) /\ Pop # <<>> /\ Pop[Len(Pop)].kind \in {"compute", "body"}
        /\ ObserverOn(Pop) = Pop[Len(Pop)].node
    BY <1>2, TopType DEF ObserverOn
  <2>2. Len(Pop) \in DOMAIN Pop /\ Pop[Len(Pop)] \in Frames
    BY <2>1
  <2>3. /\ DOMAIN Pop = 1 .. Len(stack) - 1 /\ DOMAIN stack = 1 .. Len(stack)
        /\ Pop[Len(Pop)] = stack[Len(Pop)] /\ Len(stack) = Len(Pop) + 1
        /\ Len(stack) \in DOMAIN stack /\ Top = stack[Len(stack)]
    <3>1. /\ Len(stack) \in Nat \ {0} /\ Len(Pop) = Len(stack) - 1
          /\ \A i \in DOMAIN Pop : Pop[i] = stack[i]
      BY TopType, PopRanked
    <3>2. DOMAIN Pop = 1 .. Len(stack) - 1
      BY PopRanked
    <3>3. QED
      BY <2>2, <3>1, <3>2, TopIndex
  <2>4. Len(Pop) \in DOMAIN stack /\ Top.kind \in Refreshing
    BY <2>2, <2>3, KindsTell
  <2>5. Top.node \in Reads[Pop[Len(Pop)].node]
    BY <2>3, <2>4 DEF CoreInv, AskedFor
  <2>6. QED
    BY <1>2, <2>1, <2>2, <2>5, FrameKinds DEF ObserveOn
<1>3. QED
  BY <1>1, <1>2

LEMMA RegisteredObservables ==
  ASSUME NEW e \in Effects
  PROVE  e \notin Observables
BY NodesAssumption DEF Observables, Observers, Computed

LEMMA NextEdgesInGraph ==
  ASSUME TypeOK, CoreInv, Next
  PROVE  EdgesInGraph'
<1>0. /\ EdgesInGraph
      /\ \A d \in Observables : version[d] <= version'[d] /\ version'[d] \in Nat
  BY VersionsGrow DEF CoreInv
<1>1. ASSUME NEW d \in Observables, ReadSignal(d) \/ ReadClean(d) PROVE EdgesInGraph'
  <2>1. /\ Top.node \in Observers /\ ~Idle /\ Top.kind \in {"compute", "body"}
        /\ Observe(Top.node, d, version[d]) /\ d \in registered \cap MayRead
        /\ UNCHANGED <<version, registered>>
    BY <1>1, TopObserverType DEF ReadSignal, ReadClean, CanRead, ObserverOn, Idle, Top
  <2>2. d \in Reads[Top.node]
    BY <2>1 DEF MayRead
  <2>3. QED
    BY <1>0, <2>1, <2>2, EdgesInGraphWhen
<1>2. CASE (\E c \in Computed : ReadStale(c)) \/ (\E d \in Observables : VerifyRefresh(d))
           \/ VerifyChangedComputed
  <2>1. UNCHANGED registered
    BY <1>2 DEF ReadStale, VerifyRefresh, VerifyChangedComputed
  <2>2. UNCHANGED edges \/ \E o \in Observers : ClearDependencies(o)
    BY <1>2 DEF ReadStale, VerifyRefresh, VerifyChangedComputed, StartRefresh, StartCompute, Observers
  <2>3. QED
    BY <1>0, <2>1, <2>2, EdgesInGraphWhen
<1>3. CASE ComputeReturn \/ VerifyUnchangedComputed
  <2>1. ~Idle /\ Top.node \in Computed /\ Top.kind \in Refreshing /\ UNCHANGED registered
    BY <1>3, KindsTell DEF ComputeReturn, VerifyUnchangedComputed, Verifying
  <2>2. Top.node \in registered /\ Top.node \in Observables
    BY <2>1, RefreshOnTop DEF Observables
  <2>3. ObserveOn(Pop, Top.tracked, Top.node, version'[Top.node])
    <3>1. CASE ComputeReturn
      <4>1. PICK v : version' = [version EXCEPT ![Top.node] = v]
                     /\ ObserveOn(Pop, Top.tracked, Top.node, v)
        BY <3>1 DEF ComputeReturn
      <4>2. version'[Top.node] = v
        BY <2>2, <4>1 DEF TypeOK
      <4>3. QED
        BY <4>1, <4>2
    <3>2. CASE VerifyUnchangedComputed
      BY <3>2 DEF VerifyUnchangedComputed
    <3>3. QED
      BY <1>3, <3>1, <3>2
  <2>4. \/ UNCHANGED edges
        \/ \E o \in Observers : Top.node \in Reads[o] /\ Observe(o, Top.node, version'[Top.node])
    BY <2>1, <2>3, ReaderBelow
  <2>5. QED
    BY <1>0, <2>1, <2>2, <2>4, EdgesInGraphWhen
<1>4. CASE TeardownReturn
  <2>1. Top.node \in Effects /\ UNCHANGED registered
    BY <1>4, KindsTell DEF TeardownReturn
  <2>2. UNCHANGED edges \/ \E o \in Observers : ClearDependencies(o)
    BY <1>4, <2>1 DEF TeardownReturn, Observers
  <2>3. QED
    BY <1>0, <2>1, <2>2, EdgesInGraphWhen
<1>5. CASE DisposeReturn \/ UnwindDispose
  <2>1. /\ Top.node \in Effects /\ ClearDependencies(Top.node)
        /\ registered' = registered \ {Top.node}
    BY <1>5, KindsTell DEF DisposeReturn, UnwindDispose, Unhook, TypeOK
  <2>2. registered \cap Observables \subseteq registered'
    BY <2>1, RegisteredObservables
  <2>3. QED
    BY <1>0, <2>1, <2>2, EdgesInGraphWhen DEF Observers
<1>6. ASSUME NEW n \in Observables, DropHandle(n) PROVE EdgesInGraph'
  BY <1>0, <1>6, EdgesInGraphWhen DEF DropHandle
<1>7. ASSUME UNCHANGED <<edges, registered>> PROVE EdgesInGraph'
  BY <1>0, <1>7, EdgesInGraphWhen
<1>8. CASE \/ \E s \in Signals : Write(s)
           \/ \E c \in Computed : ReadCycle(c)
           \/ \E e \in Effects : RunReady(e) \/ Dispose(e) \/ Discard(e)
           \/ Panic \/ ComparatorPanic
           \/ \E d \in Observables : VerifyCycle(d)
           \/ VerifySame \/ VerifyChangedEffect \/ VerifyUnchangedEffect \/ BodyReturn
           \/ UnwindComputed \/ UnwindEffect \/ BoundaryCatch
  BY <1>7, <1>8 DEF Write, ReadCycle, RunReady, RunNothing, RunDeferred, RunStale, Dispose,
     Discard, Panic, ComparatorPanic, VerifyCycle, VerifySame, VerifyChangedEffect,
     VerifyUnchangedEffect, BodyReturn, UnwindComputed, UnwindEffect, BoundaryCatch
<1>9. QED
  BY <1>1, <1>2, <1>3, <1>4, <1>5, <1>6, <1>8 DEF Next, Continue, Observables

-----------------------------------------------------------------------------
(* The frames of a step, as a set.                                         *)

LEMMA FramesPushed ==
  ASSUME NEW stk \in Seq(Frames), NEW f \in Frames
  PROVE  FramesOf(Append(stk, f)) = FramesOf(stk) \cup {f}
<1> DEFINE new == Append(stk, f)
<1>1. /\ DOMAIN stk = 1 .. Len(stk) /\ Len(stk) \in Nat /\ DOMAIN new = 1 .. Len(stk) + 1
      /\ new[Len(stk) + 1] = f
      /\ \A i \in DOMAIN stk : new[i] = stk[i]
      /\ \A i \in DOMAIN new : i \in DOMAIN stk \/ i = Len(stk) + 1
  BY PushedFrames, Zenon
<1> HIDE DEF new
<1>2. DOMAIN stk \subseteq DOMAIN new /\ Len(stk) + 1 \in DOMAIN new
  BY <1>1
<1>3. FramesOf(new) = FramesOf(stk) \cup {f}
  BY <1>1, <1>2 DEF FramesOf
<1>4. QED
  BY <1>3 DEF new

LEMMA FramesPopped ==
  ASSUME TypeOK, ~Idle
  PROVE  FramesOf(stack) = FramesOf(Pop) \cup {Top}
<1>1. /\ DOMAIN Pop = 1 .. Len(stack) - 1 /\ DOMAIN stack = 1 .. Len(stack)
      /\ \A i \in DOMAIN Pop : Pop[i] = stack[i] /\ i < Len(stack)
      /\ Len(stack) \in Nat \ {0} /\ Len(stack) \in DOMAIN stack /\ Top = stack[Len(stack)]
  BY PopRanked, TopIndex
<1>2. \A i \in DOMAIN stack : i \in DOMAIN Pop \/ i = Len(stack)
  BY <1>1
<1>3. DOMAIN Pop \subseteq DOMAIN stack
  BY <1>1
<1>4. QED
  BY <1>1, <1>2, <1>3 DEF FramesOf

(* What is on the stack is a frame, and what is on top has been there. *)
LEMMA FramesType ==
  ASSUME TypeOK
  PROVE  /\ FramesOf(stack) \subseteq Frames
         /\ ~Idle => Top \in FramesOf(stack) /\ FramesOf(Pop) \subseteq FramesOf(stack)
         /\ Idle <=> FramesOf(stack) = {}
<1>1. stack \in Seq(Frames)
  BY DEF TypeOK
<1>2. FramesOf(stack) \subseteq Frames
  BY <1>1 DEF FramesOf
<1>3. Idle => FramesOf(stack) = {}
  BY DEF Idle, FramesOf
<1>4. QED
  BY <1>2, <1>3, FramesPopped

(* Who has a frame. *)
LEMMA HasFrameMeans ==
  ASSUME NEW n, NEW ks
  PROVE  /\ HasFrame(n, ks) <=> \E f \in FramesOf(stack) : f.node = n /\ f.kind \in ks
         /\ HasFrame(n, ks)' <=> \E f \in FramesOf(stack') : f.node = n /\ f.kind \in ks
BY DEF HasFrame, FramesOf

(* Below a refresh there are only refreshes of nodes further up. *)
LEMMA BelowTop ==
  ASSUME TypeOK, CoreInv, ~Idle, NEW f \in FramesOf(Pop), f.kind \in Refreshing
  PROVE  /\ Top.kind \in Refreshing /\ Top.node \in Computed
         /\ Rank[Top.node] < Rank[f.node] /\ f.node # Top.node
<1>1. PICK i \in DOMAIN Pop : f = Pop[i]
  BY DEF FramesOf
<1>2. /\ i \in DOMAIN stack /\ f = stack[i] /\ i < Len(stack)
      /\ Len(stack) \in DOMAIN stack /\ Top = stack[Len(stack)]
  <2>1. /\ DOMAIN Pop = 1 .. Len(stack) - 1 /\ DOMAIN stack = 1 .. Len(stack)
        /\ Pop[i] = stack[i] /\ i < Len(stack)
    BY <1>1, PopRanked
  <2>2. QED
    BY <1>1, <2>1, TopIndex
<1>3. Top.kind \in Refreshing /\ Top.node \in Computed /\ Rank[Top.node] < Rank[f.node]
  BY <1>2 DEF CoreInv, RankedStack
<1>4. Rank[Top.node] \in Nat
  BY TopType, FrameKinds, RankType
<1>5. QED
  BY <1>3, <1>4

(* What the code on top may ask for is not being refreshed below. *)
LEMMA AskedBelow ==
  ASSUME TypeOK, CoreInv, ~Idle, NEW d \in Reads[Top.node],
         NEW f \in FramesOf(stack), f.kind \in Refreshing
  PROVE  d # f.node
<1>1. f \in FramesOf(Pop) \/ f = Top
  BY FramesPopped
<1>2. f \in Frames /\ f.node \in Nodes /\ Top.node \in Observers /\ Top.node \in Nodes
  BY FramesType, TopType, FrameKinds
<1>3. d \in Observables /\ Rank[d] < Rank[Top.node]
  BY <1>2, ReadsGoDown
<1>4. /\ Rank[d] \in Nat /\ Rank[Top.node] \in Nat /\ Rank[f.node] \in Nat
  BY <1>2, <1>3, RankType DEF Observables, Nodes, Observers
<1>5. f = Top \/ Rank[Top.node] < Rank[f.node]
  BY <1>1, BelowTop
<1>6. QED
  BY <1>3, <1>4, <1>5

(* Nothing is being refreshed when code that may have effects runs, or an   *)
(* effect is on top that is not being verified.                             *)
LEMMA OutsideFrames ==
  ASSUME Outside, NEW f \in FramesOf(stack)
  PROVE  f.kind \notin Refreshing
BY DEF Outside, FramesOf

-----------------------------------------------------------------------------
(* Effects keep their hooks, and what is gone its lack of edges.            *)

LEMMA TopSound ==
  ASSUME TypeOK, CoreInv, ~Idle
  PROVE  FrameSound(Top)
BY FramesType DEF CoreInv, FramesSound

LEMMA NextHooked ==
  ASSUME TypeOK, CoreInv, Next
  PROVE  LiveEffectsHooked' /\ disposed \subseteq disposed'
<1>1. \/ registered' = registered
      \/ \E n \in Observables : registered' = registered \ {n}
      \/ DisposeReturn \/ UnwindDispose
  BY DEF Next, Write, ReadSignal, ReadCycle, ReadClean, ReadStale, RunReady, RunNothing,
     RunDeferred, RunStale, Dispose, Discard, DropHandle, Panic, ComparatorPanic, Continue,
     VerifyCycle, VerifyRefresh, VerifySame, VerifyChangedComputed, VerifyUnchangedComputed,
     VerifyChangedEffect, VerifyUnchangedEffect, ComputeReturn, TeardownReturn, BodyReturn,
     UnwindComputed, UnwindEffect, BoundaryCatch
<1>2. disposed \subseteq disposed'
  BY DEF Next, Write, ReadSignal, ReadCycle, ReadClean, ReadStale, RunReady, RunNothing,
     RunDeferred, RunStale, Dispose, StartDispose, Discard, DropHandle, Panic, ComparatorPanic,
     Continue, VerifyCycle, VerifyRefresh, VerifySame, VerifyChangedComputed,
     VerifyUnchangedComputed, VerifyChangedEffect, VerifyUnchangedEffect, ComputeReturn,
     TeardownReturn, BodyReturn, DisposeReturn, UnwindDispose, UnwindComputed, UnwindEffect,
     BoundaryCatch
<1>3. CASE DisposeReturn \/ UnwindDispose
  <2>1. ~Idle /\ Top.kind = "dispose" /\ registered' = registered \ {Top.node}
    BY <1>3 DEF DisposeReturn, UnwindDispose, Unhook, TypeOK
  <2>2. Top.node \in disposed
    BY <2>1, TopSound DEF FrameSound, DisposeSound
  <2>3. QED
    BY <1>2, <2>1, <2>2 DEF LiveEffectsHooked, CoreInv
<1>4. QED
  BY <1>1, <1>2, <1>3, RegisteredObservables DEF LiveEffectsHooked, CoreInv

(* Edges come only by the reads of a computation or of a body. *)
LEMMA EdgeChange ==
  ASSUME TypeOK, CoreInv, Next
  PROVE  \/ UNCHANGED edges
         \/ \E o \in Observers : ClearDependencies(o)
         \/ \E n \in Observables : DropHandle(n)
         \/ \E f \in FramesOf(stack), d \in Observables :
              /\ f.kind \in {"compute", "body"} /\ Observe(f.node, d, version'[d])
              /\ UNCHANGED registered
<1> DEFINE Read == \E f \in FramesOf(stack), d \in Observables :
                     /\ f.kind \in {"compute", "body"} /\ Observe(f.node, d, version'[d])
                     /\ UNCHANGED registered
<1>1. ASSUME NEW d \in Observables, ReadSignal(d) \/ ReadClean(d) PROVE Read
  <2>1. /\ ~Idle /\ Top.kind \in {"compute", "body"}
        /\ Observe(Top.node, d, version'[d]) /\ UNCHANGED registered
    BY <1>1, TopObserverType DEF ReadSignal, ReadClean, CanRead, ObserverOn, Idle, Top
  <2>2. QED
    BY <2>1, FramesType
<1>2. CASE ComputeReturn \/ VerifyUnchangedComputed
  <2>1. ~Idle /\ Top.node \in Computed /\ UNCHANGED registered /\ Top.node \in Observables
    BY <1>2, KindsTell DEF ComputeReturn, VerifyUnchangedComputed, Verifying, Observables
  <2>2. ObserveOn(Pop, Top.tracked, Top.node, version'[Top.node])
    <3>1. CASE ComputeReturn
      <4>1. PICK v : version' = [version EXCEPT ![Top.node] = v]
                     /\ ObserveOn(Pop, Top.tracked, Top.node, v)
        BY <3>1 DEF ComputeReturn
      <4>2. version'[Top.node] = v
        BY <2>1, <4>1 DEF TypeOK
      <4>3. QED
        BY <4>1, <4>2
    <3>2. CASE VerifyUnchangedComputed
      BY <3>2 DEF VerifyUnchangedComputed
    <3>3. QED
      BY <1>2, <3>1, <3>2
  <2>3. CASE UNCHANGED edges
    BY <2>3
  <2>4. ASSUME NEW i \in DOMAIN Pop, Pop[i].kind \in {"compute", "body"},
               Observe(Pop[i].node, Top.node, version'[Top.node])
        PROVE  Read
    <3>1. Pop[i] \in FramesOf(Pop) /\ Pop[i] \in FramesOf(stack)
      BY <2>1, FramesType DEF FramesOf
    <3>2. QED
      BY <2>1, <2>4, <3>1
  <2>5. QED
    BY <2>1, <2>2, <2>3, <2>4, ReaderBelow
<1>3. CASE (\E c \in Computed : ReadStale(c)) \/ (\E d \in Observables : VerifyRefresh(d))
           \/ VerifyChangedComputed
  BY <1>3 DEF ReadStale, VerifyRefresh, VerifyChangedComputed, StartRefresh, StartCompute,
              Observers
<1>4. CASE TeardownReturn \/ DisposeReturn \/ UnwindDispose
  <2>1. Top.node \in Observers
    BY <1>4, TopType, FrameKinds DEF TeardownReturn, DisposeReturn, UnwindDispose, TypeOK
  <2>2. QED
    BY <1>4, <2>1 DEF TeardownReturn, DisposeReturn, UnwindDispose, Unhook
<1>5. CASE \/ \E s \in Signals : Write(s)
           \/ \E c \in Computed : ReadCycle(c)
           \/ \E e \in Effects : RunReady(e) \/ Dispose(e) \/ Discard(e)
           \/ Panic \/ ComparatorPanic
           \/ \E d \in Observables : VerifyCycle(d)
           \/ VerifySame \/ VerifyChangedEffect \/ VerifyUnchangedEffect \/ BodyReturn
           \/ UnwindComputed \/ UnwindEffect \/ BoundaryCatch
  BY <1>5 DEF Write, ReadCycle, RunReady, RunNothing, RunDeferred, RunStale, Dispose,
     Discard, Panic, ComparatorPanic, VerifyCycle, VerifySame, VerifyChangedEffect,
     VerifyUnchangedEffect, BodyReturn, UnwindComputed, UnwindEffect, BoundaryCatch
<1>6. QED
  BY <1>1, <1>2, <1>3, <1>4, <1>5 DEF Next, Continue, Observables

(* Who loses its hook, and when. *)
LEMMA RegisteredChange ==
  ASSUME TypeOK, CoreInv, Next, NEW c \in Computed
  PROVE  /\ c \in registered' => c \in registered
         /\ c \in registered /\ c \notin registered' => DropHandle(c)
<1>1. CASE \E n \in Observables : DropHandle(n)
  BY <1>1 DEF DropHandle
<1>2. CASE DisposeReturn \/ UnwindDispose
  <2>1. Top.node \in Effects /\ registered' = registered \ {Top.node}
    BY <1>2, KindsTell DEF DisposeReturn, UnwindDispose, Unhook, TypeOK
  <2>2. QED
    BY <2>1, NodesAssumption
<1>3. CASE ~(DisposeReturn \/ UnwindDispose) /\ ~\E n \in Observables : DropHandle(n)
  BY <1>3 DEF Next, Write, ReadSignal, ReadCycle, ReadClean, ReadStale, RunReady, RunNothing,
     RunDeferred, RunStale, Dispose, Discard, Panic, ComparatorPanic, Continue,
     VerifyCycle, VerifyRefresh, VerifySame, VerifyChangedComputed, VerifyUnchangedComputed,
     VerifyChangedEffect, VerifyUnchangedEffect, ComputeReturn, TeardownReturn, BodyReturn,
     UnwindComputed, UnwindEffect, BoundaryCatch
<1>4. QED
  BY <1>1, <1>2, <1>3

LEMMA NextGone ==
  ASSUME TypeOK, CoreInv, Next
  PROVE  GoneHaveNoEdges'
<1> SUFFICES ASSUME NEW c \in Computed, c \notin registered'
             PROVE  \A d \in Observables : dependencies'[c][d] = None
  BY DEF GoneHaveNoEdges, Keys
<1>0. c \in Observers /\ c \in Observables
  BY DEF Observers, Observables
<1>1. CASE DropHandle(c)
  BY <1>0, <1>1 DEF DropHandle, ForgetObservable, NoEdges
<1>2. CASE ~DropHandle(c)
  <2>1. c \notin registered
    BY <1>2, RegisteredChange
  <2>2. \A d \in Observables : dependencies[c][d] = None
    BY <2>1 DEF CoreInv, GoneHaveNoEdges, Keys
  <2>3. CASE UNCHANGED edges
    BY <2>2, <2>3 DEF edges
  <2>4. CASE \E o \in Observers : ClearDependencies(o)
    BY <1>0, <2>2, <2>4 DEF ClearDependencies, TypeOK, NoEdges
  <2>5. ASSUME NEW n \in Observables, DropHandle(n)
        PROVE  \A d \in Observables : dependencies'[c][d] = None
    <3>1. dependencies'[c] = IF c = n THEN NoEdges ELSE [dependencies[c] EXCEPT ![n] = None]
      BY <1>0, <2>5 DEF DropHandle, ForgetObservable
    <3>2. dependencies[c] \in EdgeMaps
      BY <1>0 DEF TypeOK
    <3>3. QED
      BY <2>2, <3>1, <3>2 DEF NoEdges, EdgeMaps
  <2>6. ASSUME NEW f \in FramesOf(stack), NEW d \in Observables,
               f.kind \in {"compute", "body"}, Observe(f.node, d, version'[d])
        PROVE  \A n \in Observables : dependencies'[c][n] = None
    <3>1. f \in Frames /\ FrameSound(f)
      BY <2>6, FramesType DEF CoreInv, FramesSound
    <3>2. f.node # c
      BY <2>1, <2>6, <3>1, FrameKinds DEF FrameSound, ComputeSound, Refreshing
    <3>3. dependencies'[c] = dependencies[c]
      BY <1>0, <2>6, <3>2 DEF Observe, TypeOK
    <3>4. QED
      BY <2>2, <3>3
  <2>7. QED
    BY <2>3, <2>4, <2>5, <2>6, EdgeChange
<1>3. QED
  BY <1>1, <1>2

-----------------------------------------------------------------------------
(* Whose mark changes in a step, and how. *)
LEMMA StateChange ==
  ASSUME TypeOK, CoreInv, Next, NEW o \in Observers, state'[o] # state[o]
  PROVE  \/ \E s \in Signals : /\ Write(s) /\ o \in registered \cap Reached(s)
                               /\ state'[o] # "Clean"
                               /\ state'[o] = "Dirty" => o \in dependents[s]
         \/ o \in Effects /\ RunStale(o) /\ state'[o] = "Clean"
         \/ /\ o \in Computed /\ state'[o] = "Clean"
            /\ \/ ReadStale(o) \/ VerifyRefresh(o)
               \/ ~Idle /\ Top.node = o /\ (VerifyChangedComputed \/ VerifyUnchangedComputed)
         \/ /\ panicking /\ ~Idle /\ Top.node = o /\ state'[o] = "Dirty"
            /\ \/ UnwindComputed
               \/ Top.kind = "verify" /\ o \in Effects /\ (UnwindEffect \/ BoundaryCatch)
<1>0. state \in [Observers -> {"Clean", "Check", "Dirty"}] /\ (panicking => ~Idle)
  BY DEF TypeOK
<1>1. ASSUME NEW s \in Signals, Write(s)
      PROVE  /\ o \in registered \cap Reached(s) /\ state'[o] # "Clean"
             /\ state'[o] = "Dirty" => o \in dependents[s]
  <2>1. s \in Observables /\ state' = Marked(s)
    BY <1>1 DEF Write, Trigger, Observables
  <2>2. dependents[s] \subseteq Reached(s)
    BY <2>1, ReachedClosed
  <2>3. state'[o] = IF o \notin registered THEN state[o]
                    ELSE IF o \in dependents[s] THEN "Dirty"
                    ELSE IF o \in Reached(s) /\ state[o] = "Clean" THEN "Check"
                    ELSE state[o]
    BY <2>1 DEF Marked
  <2>4. QED
    BY <2>2, <2>3
<1>2. ASSUME NEW e \in Effects, RunStale(e) PROVE e = o /\ state'[o] = "Clean"
  <2>1. e \in Observers /\ state' = [state EXCEPT ![e] = "Clean"]
    BY <1>2 DEF RunStale, Observers
  <2>2. QED
    BY <1>0, <2>1
<1>3. ASSUME NEW c \in Computed, NEW t, NEW stk, StartRefresh(c, t, stk) \/ StartCompute(c, t, stk)
      PROVE  c = o /\ state'[o] = "Clean"
  <2>1. c \in Observers /\ state' = [state EXCEPT ![c] = "Clean"]
    BY <1>3 DEF StartRefresh, StartCompute, Observers
  <2>2. QED
    BY <1>0, <2>1
<1>4. ASSUME NEW c \in Computed, ReadStale(c) PROVE c = o /\ state'[o] = "Clean"
  BY <1>3, <1>4 DEF ReadStale
<1>5. ASSUME NEW d \in Observables, VerifyRefresh(d)
      PROVE  d = o /\ state'[o] = "Clean" /\ o \in Computed
  BY <1>3, <1>5 DEF VerifyRefresh
<1>6. CASE VerifyChangedComputed \/ VerifyUnchangedComputed
  <2>1. Top.node \in Computed /\ Top.node \in Observers /\ ~Idle
    BY <1>6 DEF VerifyChangedComputed, VerifyUnchangedComputed, Observers, Verifying
  <2>2. o = Top.node /\ state'[o] = "Clean"
    BY <1>0, <1>3, <1>6, <2>1 DEF VerifyChangedComputed, VerifyUnchangedComputed
  <2>3. QED
    BY <1>6, <2>1, <2>2
<1>7. CASE UnwindComputed
  <2>1. Top.node \in Observers
    BY <1>7 DEF UnwindComputed, Observers
  <2>2. QED
    BY <1>0, <1>7, <2>1 DEF UnwindComputed
<1>8. CASE UnwindEffect \/ BoundaryCatch
  <2>1. Top.node \in Effects /\ Top.node \in Observers /\ panicking
    BY <1>8, ClosuresAssumption DEF UnwindEffect, BoundaryCatch, Observers
  <2>2. Top.kind = "verify" /\ state' = [state EXCEPT ![Top.node] = "Dirty"]
    BY <1>8 DEF UnwindEffect, Recover, BoundaryCatch
  <2>3. QED
    BY <1>0, <1>8, <2>1, <2>2
<1>9. CASE \/ \E s \in Signals : ReadSignal(s)
           \/ \E c \in Computed : ReadCycle(c) \/ ReadClean(c)
           \/ \E e \in Effects : RunNothing(e) \/ RunDeferred(e) \/ Dispose(e) \/ Discard(e)
           \/ \E n \in Observables : DropHandle(n)
           \/ Panic \/ ComparatorPanic
           \/ \E d \in Observables : VerifyCycle(d)
           \/ VerifySame \/ VerifyChangedEffect \/ VerifyUnchangedEffect
           \/ ComputeReturn \/ TeardownReturn \/ BodyReturn \/ DisposeReturn \/ UnwindDispose
  BY <1>9 DEF ReadSignal, ReadCycle, ReadClean, RunNothing, RunDeferred, Dispose, Discard,
     DropHandle, Panic, ComparatorPanic, VerifyCycle, VerifySame, VerifyChangedEffect,
     VerifyUnchangedEffect, ComputeReturn, TeardownReturn, BodyReturn, DisposeReturn,
     UnwindDispose
<1>10. QED
  BY <1>1, <1>2, <1>4, <1>5, <1>6, <1>7, <1>8, <1>9 DEF Next, Continue, RunReady

(* Whose edges change in a step, and how. *)
LEMMA DepsChange ==
  ASSUME TypeOK, CoreInv, Next, NEW o \in Observers, dependencies'[o] # dependencies[o]
  PROVE  \/ \E n \in Observables : DropHandle(n)
         \/ /\ o \in Computed
            /\ \/ ReadStale(o) \/ VerifyRefresh(o)
               \/ ~Idle /\ Top.node = o /\ VerifyChangedComputed
         \/ ~Idle /\ Top.node = o /\ Top.kind \in {"teardown", "dispose"}
         \/ ~Idle /\ Top.node = o /\ Top.kind \in {"compute", "body"}
         \/ /\ ~Idle /\ Top.node \in Computed /\ Len(Pop) \in DOMAIN Pop
            /\ Pop[Len(Pop)].kind \in {"compute", "body"} /\ Pop[Len(Pop)].node = o
<1>0. dependencies \in [Observers -> EdgeMaps]
  BY DEF TypeOK
<1>1. ASSUME NEW d \in Observables, ReadSignal(d) \/ ReadClean(d)
      PROVE  ~Idle /\ Top.node = o /\ Top.kind \in {"compute", "body"}
  <2>1. /\ ~Idle /\ Top.kind \in {"compute", "body"} /\ Top.node \in Observers
        /\ Observe(Top.node, d, version[d])
    BY <1>1, TopObserverType DEF ReadSignal, ReadClean, CanRead, ObserverOn, Idle, Top
  <2>2. QED
    BY <1>0, <2>1 DEF Observe
<1>2. ASSUME NEW c \in Computed, NEW t, NEW stk, StartRefresh(c, t, stk) \/ StartCompute(c, t, stk)
      PROVE  c = o
  <2>1. ClearDependencies(c)
    BY <1>2 DEF StartRefresh, StartCompute, edges
  <2>2. QED
    BY <1>0, <2>1 DEF ClearDependencies
<1>3. ASSUME NEW c \in Computed, ReadStale(c) PROVE c = o
  BY <1>2, <1>3 DEF ReadStale
<1>4. ASSUME NEW d \in Observables, VerifyRefresh(d) PROVE d = o /\ o \in Computed
  BY <1>2, <1>4 DEF VerifyRefresh, edges
<1>5. CASE VerifyChangedComputed
  BY <1>2, <1>5 DEF VerifyChangedComputed, Verifying
<1>6. CASE TeardownReturn \/ DisposeReturn \/ UnwindDispose
  <2>1. ~Idle /\ Top.kind \in {"teardown", "dispose"} /\ ClearDependencies(Top.node)
    BY <1>6 DEF TeardownReturn, DisposeReturn, UnwindDispose, Unhook, TypeOK, edges
  <2>2. QED
    BY <1>0, <2>1 DEF ClearDependencies
<1>7. CASE ComputeReturn \/ VerifyUnchangedComputed
  <2>1. ~Idle /\ Top.node \in Computed
    BY <1>7, KindsTell DEF ComputeReturn, VerifyUnchangedComputed, Verifying
  <2>2. PICK v : ObserveOn(Pop, Top.tracked, Top.node, v)
    BY <1>7 DEF ComputeReturn, VerifyUnchangedComputed
  <2>3. UNCHANGED edges \/ \E i \in DOMAIN Pop :
              /\ i = Len(Pop) /\ Pop[i].kind \in {"compute", "body"}
              /\ Observe(Pop[i].node, Top.node, v)
    BY <2>1, <2>2, ReaderBelow
  <2>4. QED
    BY <1>0, <2>1, <2>3 DEF Observe, edges
<1>8. CASE \/ \E s \in Signals : Write(s)
           \/ \E c \in Computed : ReadCycle(c)
           \/ \E e \in Effects : RunReady(e) \/ Dispose(e) \/ Discard(e)
           \/ Panic \/ ComparatorPanic
           \/ \E d \in Observables : VerifyCycle(d)
           \/ VerifySame \/ VerifyChangedEffect \/ VerifyUnchangedEffect \/ BodyReturn
           \/ UnwindComputed \/ UnwindEffect \/ BoundaryCatch
  BY <1>8 DEF Write, ReadCycle, RunReady, RunNothing, RunDeferred, RunStale, Dispose,
     Discard, Panic, ComparatorPanic, VerifyCycle, VerifySame, VerifyChangedEffect,
     VerifyUnchangedEffect, BodyReturn, UnwindComputed, UnwindEffect, BoundaryCatch, edges
<1>9. QED
  BY <1>1, <1>3, <1>4, <1>5, <1>6, <1>7, <1>8 DEF Next, Continue, Observables

-----------------------------------------------------------------------------
(* What the frames that stay on the stack may rely on is not disturbed.     *)

(* Three steps end the refresh on top, or start it anew. *)
Stays == ~(VerifyChangedComputed \/ VerifyUnchangedComputed \/ UnwindComputed)

(* A frame in the middle of a refresh excludes code with side effects. *)
LEMMA RefreshExcludes ==
  ASSUME TypeOK, CoreInv, NEW f \in FramesOf(stack), f.kind \in Refreshing
  PROVE  /\ ~Idle
         /\ \A s \in Signals : ~Write(s)
         /\ \A n \in Observables : ~DropHandle(n)
         /\ \A e \in Effects : ~RunStale(e)
         /\ Top.kind \in {"verify", "compute"}
<1>1. ~Idle /\ ~Outside
  BY FramesType, OutsideFrames
<1>2. ~(UserCode /\ SideEffectAllowed)
  BY <1>1, SideEffectsOutside DEF CoreInv
<1>3. Top.kind \in {"verify", "compute"}
  <2>1. f = Top \/ f \in FramesOf(Pop)
    BY <1>1, FramesPopped
  <2>2. QED
    BY <1>1, <2>1, BelowTop DEF Refreshing
<1>4. QED
  BY <1>1, <1>2, <1>3 DEF Write, DropHandle, RunStale, TakeRun

(* What a verification is to refresh is what its node has read. *)
LEMMA CursorAsked ==
  ASSUME TypeOK, CoreInv, NEW d \in Observables, VerifyRefresh(d)
  PROVE  /\ ~Idle /\ Top.kind = "verify" /\ d \in Reads[Top.node] /\ d \in registered
         /\ d \in Keys(Top.todo)
<1>1. ~Idle /\ Top.kind = "verify" /\ d \in Keys(Top.todo)
  BY DEF VerifyRefresh, Verifying
<1>2. QED
  BY <1>1, TopIndex, TodoRecorded DEF CoreInv

(* A node is not started anew while a frame refreshes it. *)
LEMMA NotRestarted ==
  ASSUME TypeOK, CoreInv, NEW f \in FramesOf(stack), f.kind \in Refreshing,
         f.node \in Computed, ReadStale(f.node) \/ VerifyRefresh(f.node)
  PROVE  FALSE
<1>1. ~Idle
  BY RefreshExcludes
<1>2. f.node \in Reads[Top.node]
  <2>1. CASE ReadStale(f.node)
    BY <1>1, <2>1, ReaderAsks DEF ReadStale
  <2>2. CASE VerifyRefresh(f.node)
    BY <2>2, CursorAsked DEF Observables
  <2>3. QED
    BY <2>1, <2>2
<1>3. QED
  BY <1>1, <1>2, AskedBelow

(* The mark of a node being refreshed changes only as its refresh ends. *)
LEMMA RefreshedMark ==
  ASSUME TypeOK, CoreInv, Next, NEW f \in FramesOf(stack), f.kind \in Refreshing,
         f.node \in Computed, f \in FramesOf(Pop) \/ Stays
  PROVE  state'[f.node] = state[f.node]
<1>1. f \in Frames /\ f.node \in Observers /\ f.node \notin Effects /\ ~Idle
  BY FramesType, FrameKinds, RefreshExcludes
<1>2. SUFFICES ASSUME state'[f.node] # state[f.node] PROVE FALSE
  OBVIOUS
<1>3. /\ VerifyChangedComputed \/ VerifyUnchangedComputed \/ UnwindComputed
      /\ Top.node = f.node
  BY <1>1, <1>2, StateChange, RefreshExcludes, NotRestarted
<1>4. f \in FramesOf(Pop)
  BY <1>3 DEF Stays
<1>5. QED
  BY <1>1, <1>3, <1>4, BelowTop

(* So do the edges of a node being verified. *)
LEMMA VerifiedEdges ==
  ASSUME TypeOK, CoreInv, Next, NEW f \in FramesOf(stack), f.kind = "verify",
         f \in FramesOf(Pop) \/ Stays
  PROVE  dependencies'[f.node] = dependencies[f.node]
<1>1. /\ f \in Frames /\ f.node \in Observers /\ ~Idle /\ f.kind \in Refreshing
      /\ Top.kind \in {"verify", "compute"}
  BY FramesType, FrameKinds, RefreshExcludes DEF Refreshing
<1>2. SUFFICES ASSUME dependencies'[f.node] # dependencies[f.node] PROVE FALSE
  OBVIOUS
<1>3. f \in FramesOf(Pop) \/ f = Top
  BY <1>1, FramesPopped
<1>4. CASE Top.node = f.node /\ Top.kind = "compute"
  BY <1>1, <1>3, <1>4, BelowTop
<1>5. CASE Top.node = f.node /\ VerifyChangedComputed
  <2>1. f \in FramesOf(Pop)
    BY <1>5 DEF Stays
  <2>2. QED
    BY <1>1, <1>5, <2>1, BelowTop
<1>6. CASE /\ Len(Pop) \in DOMAIN Pop /\ Pop[Len(Pop)].kind \in {"compute", "body"}
           /\ Pop[Len(Pop)].node = f.node /\ Top.node \in Computed
  <2> DEFINE g == Pop[Len(Pop)]
  <2>1. g \in FramesOf(Pop) /\ g \in FramesOf(stack) /\ g \in Frames
    BY <1>1, <1>6, FramesType DEF FramesOf
  <2>2. f # Top
    BY <1>1, <1>6, <2>1, BelowTop, FrameKinds DEF Refreshing
  <2>3. PICK i \in DOMAIN Pop : f = Pop[i]
    BY <1>3, <2>2 DEF FramesOf
  <2>4. i < Len(Pop)
    <3>1. Pop \in Seq(Frames) /\ i # Len(Pop)
      BY <1>1, <1>6, <2>3, TopType
    <3>2. QED
      BY <2>3, <3>1
  <2>5. RankedStack(Pop)
    BY <1>1, PopRanked DEF CoreInv
  <2>6. Rank[g.node] < Rank[f.node] /\ Rank[f.node] \in Nat
    BY <1>1, <1>6, <2>3, <2>4, <2>5, FrameKinds, RankType DEF RankedStack
  <2>7. QED
    BY <1>6, <2>6
<1>7. QED
  BY <1>1, <1>2, <1>4, <1>5, <1>6, DepsChange, RefreshExcludes, NotRestarted

LEMMA FrameKept ==
  ASSUME TypeOK, CoreInv, EdgesAgree, Next, NEW f \in FramesOf(stack),
         f \in FramesOf(Pop) \/ Stays
  PROVE  FrameSound(f)'
<1>1. /\ f \in Frames /\ f.node \in Observers /\ FrameSound(f)
      /\ f.node \in Computed <=> f.node \notin Effects
  BY FramesType, FrameKinds DEF CoreInv, FramesSound
<1>2. ASSUME f.kind \in Refreshing, f.node \in Computed, f.node \in registered
      PROVE  f.node \in registered'
  BY <1>2, RefreshExcludes, RegisteredChange DEF Observables
<1>3. ComputeSound(f)'
  <2>1. SUFFICES ASSUME f.kind = "compute"
                 PROVE  /\ f.node \in registered' /\ state'[f.node] = "Clean"
                        /\ UpToDateWithAll(f.node)'
    BY DEF ComputeSound
  <2>2. f.node \in Computed /\ f.kind \in Refreshing
    BY <1>1, <2>1, FrameKinds DEF Refreshing
  <2>3. f.node \in registered /\ state[f.node] = "Clean" /\ UpToDateWithAll(f.node)
    BY <1>1, <2>1 DEF FrameSound, ComputeSound
  <2>4. state'[f.node] = "Clean"
    BY <2>2, <2>3, RefreshedMark
  <2>5. QED
    BY <1>1, <1>2, <2>2, <2>3, <2>4, NextKeeps
<1>4. VerifySound(f)'
  <2>1. SUFFICES ASSUME f.kind = "verify" PROVE VerifySound(f)'
    BY DEF VerifySound
  <2>2. f.kind \in Refreshing /\ VerifySound(f)
    BY <1>1, <2>1 DEF Refreshing, FrameSound
  <2>3. dependencies'[f.node] = dependencies[f.node] /\ Steady
    BY <2>1, <2>2, VerifiedEdges, NextSteady, RefreshExcludes
  <2>4. f.node \in Computed => f.node \in registered' /\ state'[f.node] = "Check"
    BY <1>2, <2>1, <2>2, RefreshedMark DEF VerifySound
  <2>5. ASSUME NEW d \in Keys(dependencies[f.node]), UpToDate(f.node, d)
        PROVE  dependencies'[f.node][d] = version'[d] /\ Settled(d)'
    BY <2>3, <2>5 DEF UpToDate, Steady, Keys
  <2>6. QED
    BY <2>1, <2>2, <2>3, <2>4, <2>5 DEF VerifySound, UpToDate
<1>5. BodySound(f)'
  <2>1. SUFFICES ASSUME f.kind = "body", f.node \notin disposed', state'[f.node] = "Clean"
                 PROVE  UpToDateWithAll(f.node)'
    BY DEF BodySound
  <2>2. f.node \in Effects /\ f.node \notin disposed /\ f.node \in registered
    BY <1>1, <2>1, FrameKinds, NextHooked DEF CoreInv, LiveEffectsHooked, Refreshing
  <2>3. ~RunStale(f.node)
    <3>1. HasFrame(f.node, {"teardown", "body"})
      BY <2>1, HasFrameMeans
    <3>2. QED
      BY <3>1 DEF RunStale, Running
  <2>4. state[f.node] = "Clean"
    BY <1>1, <2>1, <2>2, <2>3, StateChange
  <2>5. QED
    BY <1>1, <2>1, <2>2, <2>4, NextKeeps DEF FrameSound, BodySound
<1>6. DisposeSound(f)'
  BY <1>1, NextHooked DEF FrameSound, DisposeSound
<1>7. QED
  BY <1>3, <1>4, <1>5, <1>6 DEF FrameSound

-----------------------------------------------------------------------------
(* The frames that a step pushes.                                          *)

LEMMA ComputeStartsSound ==
  ASSUME TypeOK, NEW c \in Computed \cap registered', NEW t \in BOOLEAN, NEW stk,
         StartCompute(c, t, stk)
  PROVE  \A f : f = Frame("compute", c, t) => FrameSound(f)'
<1>1. SUFFICES ASSUME NEW f, f = Frame("compute", c, t) PROVE FrameSound(f)'
  OBVIOUS
<1>2. f.kind = "compute" /\ f.node = c /\ c \in Observers
  BY <1>1 DEF Frame, Observers
<1>3. state'[c] = "Clean" /\ dependencies'[c] = NoEdges
  BY <1>2 DEF StartCompute, ClearDependencies, TypeOK
<1>4. QED
  BY <1>2, <1>3
     DEF FrameSound, ComputeSound, VerifySound, BodySound, DisposeSound, UpToDateWithAll, Keys,
         NoEdges

LEMMA VerifyStartsSound ==
  ASSUME TypeOK, NEW n \in Observers, NEW t \in BOOLEAN,
         dependencies'[n] = dependencies[n],
         n \in Computed => n \in registered' /\ state'[n] = "Check"
  PROVE  \A f : f = VerifyFrame(n, t) => FrameSound(f)'
<1>1. SUFFICES ASSUME NEW f, f = VerifyFrame(n, t) PROVE FrameSound(f)'
  OBVIOUS
<1>2. f.kind = "verify" /\ f.node = n /\ f.cur = None /\ f.todo = dependencies[n]
  BY <1>1 DEF VerifyFrame, Frame
<1>3. QED
  BY <1>2 DEF FrameSound, ComputeSound, VerifySound, BodySound, DisposeSound, Keys

LEMMA RefreshStartsSound ==
  ASSUME TypeOK, NEW c \in Computed \cap registered, NEW t \in BOOLEAN, NEW stk,
         StartRefresh(c, t, stk), UNCHANGED registered
  PROVE  \E f \in Frames : /\ f.node = c /\ f.kind \in Refreshing /\ f.cur = None
                           /\ stack' = Append(stk, f) /\ FrameSound(f)'
<1>1. c \in Observers
  BY DEF Observers
<1>2. CASE StartCompute(c, t, stk)
  <2> DEFINE f == Frame("compute", c, t)
  <2>1. f \in Frames /\ f.node = c /\ f.kind \in Refreshing /\ f.cur = None
    BY PushedRefresh DEF Refreshing, Frame
  <2>2. stack' = Append(stk, f)
    BY <1>2 DEF StartCompute
  <2> HIDE DEF f
  <2>3. \A g : g = f => FrameSound(g)'
    BY <1>2, ComputeStartsSound DEF f
  <2>4. QED
    BY <2>1, <2>2, <2>3
<1>3. CASE state[c] = "Check" /\ stack' = Append(stk, VerifyFrame(c, t))
           /\ UNCHANGED <<edges, state>>
  <2> DEFINE f == VerifyFrame(c, t)
  <2>1. f \in Frames /\ f.node = c /\ f.kind \in Refreshing /\ f.cur = None
    BY PushedRefresh DEF Refreshing
  <2> HIDE DEF f
  <2>2. \A g : g = f => FrameSound(g)'
    BY <1>1, <1>3, VerifyStartsSound DEF f, edges
  <2>3. QED
    BY <1>3, <2>1, <2>2 DEF f
<1>4. QED
  BY <1>2, <1>3 DEF StartRefresh

(* What runs for its effect starts having read nothing. *)
LEMMA EffectStartsSound ==
  ASSUME NEW f \in Frames, f.kind \in {"teardown", "body", "dispose"},
         f.kind = "body" => dependencies'[f.node] = NoEdges,
         f.kind = "dispose" => f.node \in disposed'
  PROVE  FrameSound(f)'
BY DEF FrameSound, ComputeSound, VerifySound, BodySound, DisposeSound, UpToDateWithAll, Keys,
       NoEdges

LEMMA StaysOnTop ==
  ASSUME TypeOK,
         UserCode \/ VerifySame \/ \E d \in Observables : VerifyCycle(d) \/ VerifyRefresh(d)
  PROVE  Stays
BY DEF Stays, UserCode, UserKinds, VerifyCycle, VerifyRefresh, VerifySame,
       VerifyChangedComputed, VerifyUnchangedComputed, UnwindComputed, Verifying, Differs

(* Whoever is on the stack and stays there is sound after the step; so the  *)
(* whole stack is, when what is pushed is.                                  *)
LEMMA PushKeepsSound ==
  ASSUME TypeOK, CoreInv, EdgesAgree, Next,
         NEW stk \in Seq(Frames), FramesOf(stk) \subseteq FramesOf(stack),
         \A g \in FramesOf(stk) : g \in FramesOf(Pop) \/ Stays
  PROVE  /\ stack' = stk => FramesSound(stack)'
         /\ \A f \in Frames : stack' = Append(stk, f) /\ FrameSound(f)' => FramesSound(stack)'
<1>1. \A g \in FramesOf(stk) : FrameSound(g)'
  BY FrameKept
<1>2. ASSUME NEW f \in Frames, stack' = Append(stk, f), FrameSound(f)'
      PROVE  FramesSound(stack)'
  <2>1. FramesOf(stack') = FramesOf(stk) \cup {f}
    BY <1>2, FramesPushed
  <2>2. QED
    BY <1>1, <1>2, <2>1 DEF FramesSound, FramesOf
<1>3. QED
  BY <1>1, <1>2 DEF FramesSound, FramesOf

LEMMA PopKeepsSound ==
  ASSUME TypeOK, CoreInv, EdgesAgree, Next, ~Idle
  PROVE  /\ stack' = Pop => FramesSound(stack)'
         /\ \A f \in Frames : stack' = Append(Pop, f) /\ FrameSound(f)' => FramesSound(stack)'
<1>1. Pop \in Seq(Frames) /\ FramesOf(Pop) \subseteq FramesOf(stack)
  BY TopType, FramesType
<1>2. QED
  BY <1>1, PushKeepsSound

LEMMA UserFramesSound ==
  ASSUME TypeOK, CoreInv, EdgesAgree, Next, UserCode,
         \/ \E s \in Signals : Write(s) \/ ReadSignal(s)
         \/ \E c \in Computed : ReadCycle(c) \/ ReadClean(c) \/ ReadStale(c)
         \/ \E e \in Effects : RunReady(e) \/ Dispose(e) \/ Discard(e)
         \/ \E n \in Observables : DropHandle(n)
         \/ Panic
  PROVE  FramesSound(stack)'
<1>0. /\ stack \in Seq(Frames) /\ Stays
      /\ stack' = stack => FramesSound(stack)'
      /\ \A f \in Frames : stack' = Append(stack, f) /\ FrameSound(f)' => FramesSound(stack)'
  <2>1. stack \in Seq(Frames) /\ Stays
    BY StaysOnTop DEF TypeOK
  <2>2. QED
    BY <2>1, PushKeepsSound
<1>1. ASSUME NEW c \in Computed, ReadStale(c) PROVE FramesSound(stack)'
  <2>1. PICK t \in BOOLEAN : StartRefresh(c, t, stack)
    BY <1>1 DEF ReadStale, TrackModes
  <2>2. c \in registered /\ UNCHANGED registered
    BY <1>1 DEF ReadStale, CanRead
  <2>3. \E f \in Frames : stack' = Append(stack, f) /\ FrameSound(f)'
    BY <2>1, <2>2, RefreshStartsSound
  <2>4. QED
    BY <1>0, <2>3
<1>2. ASSUME NEW e \in Effects, RunStale(e) PROVE FramesSound(stack)'
  <2>1. e \in Observers /\ e \notin Computed /\ UNCHANGED edges
    BY <1>2, NodesAssumption DEF RunStale, Observers
  <2>2. CASE stack' = Append(stack, Frame("teardown", e, FALSE))
    <3>1. Frame("teardown", e, FALSE) \in Frames /\ Frame("teardown", e, FALSE).kind = "teardown"
      BY PushedEffect
    <3>2. \A f \in Frames : f.kind = "teardown" => FrameSound(f)'
      BY EffectStartsSound
    <3>3. QED
      BY <1>0, <2>2, <3>1, <3>2
  <2>3. CASE stack' = Append(stack, VerifyFrame(e, FALSE))
    <3>1. \A f : f = VerifyFrame(e, FALSE) => FrameSound(f)'
      BY <2>1, VerifyStartsSound DEF edges
    <3>2. VerifyFrame(e, FALSE) \in Frames
      BY PushedEffect
    <3>3. QED
      BY <1>0, <2>3, <3>1, <3>2
  <2>4. QED
    BY <1>2, <2>2, <2>3 DEF RunStale
<1>3. ASSUME NEW e \in Effects, Dispose(e) PROVE FramesSound(stack)'
  <2>1. /\ e \in disposed' /\ stack' = Append(stack, Frame("dispose", e, FALSE))
        /\ Frame("dispose", e, FALSE) \in Frames /\ Frame("dispose", e, FALSE).kind = "dispose"
        /\ Frame("dispose", e, FALSE).node = e
    BY <1>3, PushedEffect DEF Dispose, StartDispose
  <2>2. \A f \in Frames : f.kind = "dispose" /\ f.node = e => FrameSound(f)'
    BY <2>1, EffectStartsSound
  <2>3. QED
    BY <1>0, <2>1, <2>2
<1>4. CASE UNCHANGED stack
  BY <1>0, <1>4
<1>5. QED
  BY <1>1, <1>2, <1>3, <1>4
     DEF Write, ReadSignal, ReadCycle, ReadClean, RunReady, RunNothing, RunDeferred, Discard,
         DropHandle, Panic

(* The library moves the cursor of a verification to an edge it has still   *)
(* to compare, and forgets an edge once it has found it current.            *)
LEMMA CursorSound ==
  ASSUME TypeOK, CoreInv, EdgesAgree, Next, NEW d \in Observables, VerifyRefresh(d)
  PROVE  \A g : g = [Top EXCEPT !.cur = d] => g \in Frames /\ FrameSound(g)'
<1>1. SUFFICES ASSUME NEW g, g = [Top EXCEPT !.cur = d] PROVE g \in Frames /\ FrameSound(g)'
  OBVIOUS
<1>2. /\ ~Idle /\ Top.kind = "verify" /\ d \in Keys(Top.todo) /\ Top \in Frames
      /\ Top \in FramesOf(stack)
  BY CursorAsked, TopType, FramesType
<1>3. /\ g \in Frames /\ g.kind = "verify" /\ g.node = Top.node /\ g.todo = Top.todo
      /\ g.cur = d
  BY <1>1, <1>2 DEF Frames
<1>4. \A f : f = Top => FrameSound(f)'
  BY <1>2, StaysOnTop, FrameKept
<1>5. \A f : f = Top => VerifySound(f)'
  BY <1>4 DEF FrameSound
<1>6. VerifySound(g)'
  BY <1>2, <1>3, <1>5 DEF VerifySound, Keys
<1>7. QED
  BY <1>3, <1>6 DEF FrameSound, ComputeSound, BodySound, DisposeSound

LEMMA ComparedSound ==
  ASSUME TypeOK, CoreInv, EdgesAgree, Next, VerifySame
  PROVE  \A g : g = [Top EXCEPT !.cur = None, !.todo[Top.cur] = None]
                  => g \in Frames /\ FrameSound(g)'
<1>1. SUFFICES ASSUME NEW g, g = [Top EXCEPT !.cur = None, !.todo[Top.cur] = None]
               PROVE  g \in Frames /\ FrameSound(g)'
  OBVIOUS
<1>2. /\ ~Idle /\ Top.kind = "verify" /\ Top \in Frames /\ Top.cur # None /\ ~panicking
      /\ Top \in FramesOf(stack) /\ Top.cur \in Observables /\ Top.todo \in EdgeMaps
      /\ Top.node \in Observers /\ UNCHANGED <<dependencies, version>>
  BY TopType, FramesType, FrameKinds DEF VerifySame, Verifying, edges
<1>3. /\ g \in Frames /\ g.kind = "verify" /\ g.node = Top.node /\ g.cur = None
      /\ \A d \in Observables : g.todo[d] = IF d = Top.cur THEN None ELSE Top.todo[d]
  BY <1>1, <1>2 DEF Frames, EdgeMaps
<1>4. /\ Top.cur \in Keys(Top.todo)
      /\ \A d \in Keys(Top.todo) : Top.todo[d] = dependencies[Top.node][d]
  BY <1>2, TopSound DEF FrameSound, VerifySound
<1>5. dependencies[Top.node][Top.cur] = version[Top.cur] /\ Settled(Top.cur)
  <2>1. Top.cur \in registered
    BY <1>2, <1>4, TopIndex, TodoRecorded DEF CoreInv
  <2>2. Top.todo[Top.cur] = version[Top.cur]
    BY <2>1 DEF VerifySame, Differs, VersionOf
  <2>3. QED
    BY <1>2, <1>4, <2>2 DEF CoreInv, CursorSettled
<1>6. \A d \in Observables : d = Top.cur => Settled(d)'
  <2>1. Steady
    BY NextSteady DEF VerifySame, Verifying, Write, UserCode, UserKinds
  <2>2. QED
    BY <1>5, <2>1 DEF Steady
<1>7. \A f : f = Top => VerifySound(f)'
  BY <1>2, StaysOnTop, FrameKept DEF FrameSound
<1>8. ASSUME NEW d \in Keys(dependencies'[Top.node]), d \notin Keys(g.todo)
      PROVE  dependencies'[Top.node][d] = version'[d] /\ Settled(d)'
  <2>1. d \in Observables
    BY DEF Keys
  <2>2. CASE d = Top.cur
    BY <1>2, <1>5, <1>6, <2>1, <2>2
  <2>3. CASE d # Top.cur
    <3>1. d \notin Keys(Top.todo)
      BY <1>3, <1>8, <2>1, <2>3 DEF Keys
    <3>2. QED
      BY <1>2, <1>7, <3>1 DEF VerifySound, UpToDate, Keys
  <2>4. QED
    BY <2>2, <2>3
<1>9. VerifySound(g)'
  <2>1. Top.node \in Computed => Top.node \in registered' /\ state'[Top.node] = "Check"
    BY <1>2, <1>7 DEF VerifySound
  <2>2. \A d \in Keys(g.todo) : g.todo[d] = dependencies'[Top.node][d]
    BY <1>2, <1>3, <1>4 DEF Keys
  <2>3. QED
    BY <1>3, <1>8, <2>1, <2>2 DEF VerifySound, UpToDate, Keys
<1>10. QED
  BY <1>3, <1>9 DEF FrameSound, ComputeSound, BodySound, DisposeSound

LEMMA VerifyFramesSound ==
  ASSUME TypeOK, CoreInv, EdgesAgree, Next,
         \/ \E d \in Observables : VerifyCycle(d) \/ VerifyRefresh(d)
         \/ VerifySame \/ VerifyChangedComputed \/ VerifyUnchangedComputed
         \/ VerifyChangedEffect \/ VerifyUnchangedEffect
  PROVE  FramesSound(stack)'
<1>0. /\ ~Idle /\ Top \in Frames /\ Top.node \in Observers /\ Pop \in Seq(Frames)
      /\ Top.node \in Computed <=> Top.node \notin Effects
      /\ stack' = Pop => FramesSound(stack)'
      /\ \A f \in Frames : stack' = Append(Pop, f) /\ FrameSound(f)' => FramesSound(stack)'
  <2>1. ~Idle
    BY DEF VerifyCycle, VerifyRefresh, VerifySame, VerifyChangedComputed,
           VerifyUnchangedComputed, VerifyChangedEffect, VerifyUnchangedEffect, Verifying
  <2>2. QED
    BY <2>1, TopType, FrameKinds, PopKeepsSound
<1>1. ASSUME NEW d \in Observables, VerifyCycle(d) PROVE FramesSound(stack)'
  <2>1. stack \in Seq(Frames) /\ Stays /\ UNCHANGED stack
    BY <1>1, StaysOnTop DEF TypeOK, VerifyCycle
  <2>2. QED
    BY <2>1, PushKeepsSound
<1>2. ASSUME NEW d \in Observables, VerifyRefresh(d) PROVE FramesSound(stack)'
  <2> DEFINE g == [Top EXCEPT !.cur = d]
  <2>1. g \in Frames /\ \A h : h = g => FrameSound(h)'
    BY <1>2, CursorSound
  <2>2. Retop(g) = Append(Pop, g)
    BY <1>0, <2>1, RetopIsPush
  <2>3. \/ stack' = Retop(g)
        \/ d \in Computed \cap registered /\ StartRefresh(d, FALSE, Retop(g)) /\ UNCHANGED registered
    BY <1>2 DEF VerifyRefresh
  <2> HIDE DEF g
  <2>4. CASE stack' = Retop(g)
    BY <1>0, <2>1, <2>2, <2>4
  <2>5. CASE d \in Computed \cap registered /\ StartRefresh(d, FALSE, Retop(g))
             /\ UNCHANGED registered
    <3>1. PICK f \in Frames : stack' = Append(Retop(g), f) /\ FrameSound(f)'
      BY <2>5, RefreshStartsSound
    <3>2. FramesOf(stack') = FramesOf(Pop) \cup {g} \cup {f}
      <4>1. Retop(g) \in Seq(Frames) /\ FramesOf(Retop(g)) = FramesOf(Pop) \cup {g}
        BY <1>0, <2>1, <2>2, FramesPushed, PushedFrames
      <4>2. QED
        BY <3>1, <4>1, FramesPushed
    <3>3. \A h \in FramesOf(Pop) : FrameSound(h)'
      BY <1>0, FramesType, FrameKept
    <3>4. QED
      BY <2>1, <3>1, <3>2, <3>3 DEF FramesSound, FramesOf
  <2>6. QED
    BY <2>3, <2>4, <2>5
<1>3. CASE VerifySame
  <2> DEFINE g == [Top EXCEPT !.cur = None, !.todo[Top.cur] = None]
  <2>1. g \in Frames /\ \A h : h = g => FrameSound(h)'
    BY <1>3, ComparedSound
  <2>2. stack' = Append(Pop, g)
    BY <1>0, <1>3, <2>1, RetopIsPush DEF VerifySame
  <2> HIDE DEF g
  <2>3. QED
    BY <1>0, <2>1, <2>2
<1>4. CASE VerifyChangedComputed
  <2>1. /\ Top.node \in Computed /\ Top.kind = "verify"
        /\ StartCompute(Top.node, Top.tracked, Pop) /\ Top.tracked \in BOOLEAN
        /\ UNCHANGED registered
    BY <1>0, <1>4, FrameKinds DEF VerifyChangedComputed, Verifying
  <2>2. Top.node \in registered'
    BY <1>0, <2>1, RefreshOnTop DEF Refreshing
  <2> DEFINE f == Frame("compute", Top.node, Top.tracked)
  <2>3. f \in Frames /\ stack' = Append(Pop, f)
    BY <2>1, PushedRefresh DEF StartCompute
  <2>4. \A c \in Computed, t \in BOOLEAN : c = Top.node /\ t = Top.tracked =>
           \A h : h = Frame("compute", c, t) => FrameSound(h)'
    BY <2>1, <2>2, ComputeStartsSound
  <2>5. \A h : h = f => FrameSound(h)'
    BY <2>1, <2>4
  <2> HIDE DEF f
  <2>6. QED
    BY <1>0, <2>3, <2>5
<1>5. CASE VerifyChangedEffect
  <2>1. Top.node \in Effects
    BY <1>5 DEF VerifyChangedEffect
  <2>2. stack' = Pop \/ \E f \in Frames : f.kind = "teardown" /\ stack' = Append(Pop, f)
    BY <1>0, <1>5, <2>1, EffectRetop DEF VerifyChangedEffect
  <2>3. \A f \in Frames : f.kind = "teardown" => FrameSound(f)'
    BY EffectStartsSound
  <2>4. QED
    BY <1>0, <2>2, <2>3
<1>6. CASE VerifyUnchangedComputed \/ VerifyUnchangedEffect
  BY <1>0, <1>6 DEF VerifyUnchangedComputed, VerifyUnchangedEffect
<1>7. QED
  BY <1>1, <1>2, <1>3, <1>4, <1>5, <1>6

LEMMA ReturnFramesSound ==
  ASSUME TypeOK, CoreInv, EdgesAgree, Next,
         \/ ComputeReturn \/ TeardownReturn \/ BodyReturn \/ DisposeReturn
         \/ ComparatorPanic
         \/ UnwindComputed \/ UnwindEffect \/ BoundaryCatch \/ UnwindDispose
  PROVE  FramesSound(stack)'
<1>0. /\ ~Idle /\ Top \in Frames /\ Top.node \in Observers
      /\ stack' = Pop => FramesSound(stack)'
      /\ \A f \in Frames : stack' = Append(Pop, f) /\ FrameSound(f)' => FramesSound(stack)'
  BY ContinuesOnTop, PopKeepsSound DEF Continue
<1>1. CASE TeardownReturn
  <2>1. Top.node \in Effects
    BY <1>0, <1>1, KindsTell DEF TeardownReturn
  <2>2. \/ stack' = Pop
        \/ /\ ClearDependencies(Top.node)
           /\ \E f \in Frames : f.kind = "body" /\ f.node = Top.node /\ stack' = Append(Pop, f)
    BY <1>0, <1>1, <2>1, EffectRetop DEF TeardownReturn
  <2>3. ASSUME ClearDependencies(Top.node), NEW f \in Frames, f.kind = "body", f.node = Top.node
        PROVE  FrameSound(f)'
    <3>1. dependencies'[Top.node] = NoEdges
      BY <1>0, <2>3 DEF ClearDependencies, TypeOK
    <3>2. QED
      BY <2>3, <3>1, EffectStartsSound
  <2>4. QED
    BY <1>0, <2>2, <2>3
<1>2. CASE BoundaryCatch
  <2>1. Top.node \in Effects
    BY <1>2, ClosuresAssumption DEF BoundaryCatch
  <2>2. \/ stack' = Pop
        \/ /\ Top.node \in disposed'
           /\ \E f \in Frames : f.kind = "dispose" /\ f.node = Top.node /\ stack' = Append(Pop, f)
    BY <1>2, <2>1, PushedEffect DEF BoundaryCatch, StartDispose
  <2>3. ASSUME Top.node \in disposed', NEW f \in Frames, f.kind = "dispose", f.node = Top.node
        PROVE  FrameSound(f)'
    BY <2>3, EffectStartsSound
  <2>4. QED
    BY <1>0, <2>2, <2>3
<1>3. CASE \/ ComputeReturn \/ BodyReturn \/ DisposeReturn \/ ComparatorPanic
           \/ UnwindComputed \/ UnwindEffect \/ UnwindDispose
  BY <1>0, <1>3 DEF ComputeReturn, BodyReturn, DisposeReturn, ComparatorPanic, UnwindComputed,
     UnwindEffect, UnwindDispose, PopUnwinding
<1>4. QED
  BY <1>1, <1>2, <1>3

LEMMA NextFramesSound ==
  ASSUME TypeOK, CoreInv, EdgesAgree, Next
  PROVE  FramesSound(stack)'
<1>1. ASSUME \/ \E s \in Signals : Write(s) \/ ReadSignal(s)
             \/ \E c \in Computed : ReadCycle(c) \/ ReadClean(c) \/ ReadStale(c)
             \/ \E e \in Effects : RunReady(e) \/ Dispose(e) \/ Discard(e)
             \/ \E n \in Observables : DropHandle(n)
             \/ Panic
      PROVE  FramesSound(stack)'
  <2>1. UserCode
    BY <1>1 DEF Write, ReadSignal, ReadCycle, ReadClean, ReadStale, CanRead, RunReady,
       RunNothing, RunDeferred, RunStale, TakeRun, Dispose, Discard, DropHandle, Panic
  <2>2. QED
    BY <1>1, <2>1, UserFramesSound
<1>2. QED
  BY <1>1, VerifyFramesSound, ReturnFramesSound DEF Next, Continue

-----------------------------------------------------------------------------
(* The cursor of the verification on top.                                  *)

(* When a refresh ends, the verification below it was waiting for just the  *)
(* node that has been refreshed.                                            *)
LEMMA CursorBelow ==
  ASSUME TypeOK, CoreInv, ~Idle, Top.node \in Computed, Pop # <<>>,
         Pop[Len(Pop)].kind = "verify"
  PROVE  Pop[Len(Pop)].cur = Top.node
<1>1. /\ Len(stack) \in Nat \ {0} /\ Len(Pop) = Len(stack) - 1 /\ Pop \in Seq(Frames)
      /\ \A i \in DOMAIN Pop : Pop[i] = stack[i]
  BY TopType, PopRanked
<1>2. Len(Pop) \in DOMAIN Pop
  BY <1>1
<1>3. Len(Pop) \in DOMAIN stack /\ Len(stack) \in DOMAIN stack /\ Len(stack) = Len(Pop) + 1
      /\ Pop[Len(Pop)] = stack[Len(Pop)] /\ Top = stack[Len(stack)]
  BY <1>1, <1>2, TopIndex
<1>4. Top.kind \in Refreshing
  BY KindsTell
<1>5. QED
  BY <1>3, <1>4 DEF CoreInv, AskedFor

(* After a push the frame pushed is on top. *)
LEMMA TopPushed ==
  ASSUME NEW stk \in Seq(Frames), NEW f \in Frames, stack' = Append(stk, f)
  PROVE  Top' = f /\ ~Idle'
<1>1. Append(stk, f)[Len(Append(stk, f))] = f /\ Append(stk, f) # <<>>
  OBVIOUS
<1>2. QED
  BY <1>1 DEF Top, Idle

LEMMA CursorAfterPop ==
  ASSUME TypeOK, CoreInv, ~Idle, stack' = Pop,
         \/ Top.node \in Effects
         \/ Top.node \in Computed /\ (panicking' \/ Idle')
         \/ Top.node \in Computed /\ \A c \in Computed : c = Top.node => Settled(c)'
  PROVE  CursorSettled'
<1>1. SUFFICES ASSUME Pop # <<>>, Pop[Len(Pop)].kind = "verify", ~panicking'
               PROVE  \A c : c = Pop[Len(Pop)].cur => Settled(c)'
  BY DEF CursorSettled, Idle, Top
<1>2. Len(Pop) \in DOMAIN Pop /\ ~Idle'
  <2>1. Pop \in Seq(Frames)
    BY TopType
  <2>2. QED
    BY <1>1, <2>1 DEF Idle
<1>3. Top.node \notin Effects
  BY <1>1, <1>2, EffectOnTop DEF CoreInv, Refreshing
<1>4. QED
  BY <1>1, <1>2, <1>3, CursorBelow

LEMMA UserCursor ==
  ASSUME TypeOK, CoreInv, Next, UserCode,
         \/ \E s \in Signals : Write(s) \/ ReadSignal(s)
         \/ \E c \in Computed : ReadCycle(c) \/ ReadClean(c) \/ ReadStale(c)
         \/ \E e \in Effects : RunReady(e) \/ Dispose(e) \/ Discard(e)
         \/ \E n \in Observables : DropHandle(n)
         \/ Panic
  PROVE  CursorSettled'
<1>0. stack \in Seq(Frames)
  BY DEF TypeOK
<1>1. ASSUME NEW c \in Computed, ReadStale(c) PROVE CursorSettled'
  <2>1. PICK t \in BOOLEAN : StartRefresh(c, t, stack)
    BY <1>1 DEF ReadStale, TrackModes
  <2>2. c \in registered /\ UNCHANGED registered
    BY <1>1 DEF ReadStale, CanRead
  <2>3. \E f \in Frames : f.cur = None /\ stack' = Append(stack, f)
    BY <2>1, <2>2, RefreshStartsSound
  <2>4. QED
    BY <1>0, <2>3, TopPushed DEF CursorSettled
<1>2. ASSUME NEW e \in Effects, RunStale(e) \/ Dispose(e) PROVE CursorSettled'
  <2>1. \E f \in Frames : (f.kind # "verify" \/ f.cur = None) /\ stack' = Append(stack, f)
    BY <1>2, PushedEffect DEF RunStale, Dispose, StartDispose
  <2>2. QED
    BY <1>0, <2>1, TopPushed DEF CursorSettled
<1>3. CASE UNCHANGED stack
  BY <1>3 DEF CursorSettled, UserCode, UserKinds, Idle, Top
<1>4. QED
  BY <1>1, <1>2, <1>3
     DEF Write, ReadSignal, ReadCycle, ReadClean, RunReady, RunNothing, RunDeferred, Discard,
         DropHandle, Panic

LEMMA VerifyCursor ==
  ASSUME TypeOK, CoreInv, Next,
         \/ \E d \in Observables : VerifyCycle(d) \/ VerifyRefresh(d)
         \/ VerifySame \/ VerifyChangedComputed \/ VerifyUnchangedComputed
         \/ VerifyChangedEffect \/ VerifyUnchangedEffect
  PROVE  CursorSettled'
<1>0. /\ ~Idle /\ Top \in Frames /\ Top.node \in Observers /\ Pop \in Seq(Frames)
      /\ Top.node \in Computed <=> Top.node \notin Effects
  <2>1. ~Idle
    BY DEF VerifyCycle, VerifyRefresh, VerifySame, VerifyChangedComputed,
           VerifyUnchangedComputed, VerifyChangedEffect, VerifyUnchangedEffect, Verifying
  <2>2. QED
    BY <2>1, TopType, FrameKinds
<1>1. ASSUME NEW d \in Observables, VerifyCycle(d) PROVE CursorSettled'
  BY <1>1 DEF VerifyCycle, CursorSettled
<1>2. ASSUME NEW d \in Observables, VerifyRefresh(d) PROVE CursorSettled'
  <2> DEFINE g == [Top EXCEPT !.cur = d]
  <2>1. g \in Frames /\ g.cur = d
    BY <1>0 DEF Frames
  <2>2. Retop(g) = Append(Pop, g) /\ Retop(g) \in Seq(Frames)
    BY <1>0, <2>1, RetopIsPush, TopType
  <2> HIDE DEF g
  <2>3. CASE d \in Computed \cap registered /\ StartRefresh(d, FALSE, Retop(g))
             /\ UNCHANGED registered
    <3>1. \E f \in Frames : f.cur = None /\ stack' = Append(Retop(g), f)
      BY <2>3, RefreshStartsSound
    <3>2. QED
      BY <2>2, <3>1, TopPushed DEF CursorSettled
  <2>4. CASE /\ ~(d \in Computed \cap registered /\ state[d] # "Clean")
             /\ stack' = Retop(g)
    <3>1. Settled(d)
      <4>1. d \in registered
        BY <1>2, CursorAsked
      <4>2. ASSUME d \in Computed PROVE state[d] = "Clean" /\ ~Refreshed(stack, d)
        BY <1>2, <2>4, <4>1, <4>2, RefreshedState DEF VerifyRefresh
      <4>3. QED
        BY <4>2, SettledMeans, SignalsSettled DEF Observables
    <3>2. \A c \in Observables : c = d => Settled(c)'
      BY <1>2, <3>1, VerifySteady DEF Steady
    <3>3. QED
      BY <1>0, <2>1, <2>2, <2>4, <3>2, TopPushed DEF CursorSettled
  <2>5. QED
    BY <1>2, <2>3, <2>4 DEF VerifyRefresh, g
<1>3. CASE VerifySame
  <2> DEFINE g == [Top EXCEPT !.cur = None, !.todo[Top.cur] = None]
  <2>1. g \in Frames /\ g.cur = None
    BY <1>0 DEF Frames, EdgeMaps
  <2>2. stack' = Append(Pop, g)
    BY <1>0, <1>3, <2>1, RetopIsPush DEF VerifySame
  <2> HIDE DEF g
  <2>3. QED
    BY <1>0, <2>1, <2>2, TopPushed DEF CursorSettled
<1>4. CASE VerifyChangedComputed
  <2>1. /\ Top.node \in Computed /\ StartCompute(Top.node, Top.tracked, Pop)
        /\ Top.tracked \in BOOLEAN
    BY <1>0, <1>4, FrameKinds DEF VerifyChangedComputed
  <2>2. \E f \in Frames : f.kind = "compute" /\ stack' = Append(Pop, f)
    BY <2>1, PushedRefresh DEF StartCompute
  <2>3. QED
    BY <1>0, <2>2, TopPushed DEF CursorSettled
<1>5. CASE VerifyUnchangedComputed
  <2>1. /\ Top.node \in Computed /\ stack' = Pop
        /\ state' = [state EXCEPT ![Top.node] = "Clean"]
    BY <1>5 DEF VerifyUnchangedComputed
  <2>2. ~Refreshed(Pop, Top.node)
    BY <1>0, <2>1, KindsTell, RefreshOnTop
  <2>3. \A c \in Computed : c = Top.node => Settled(c)'
    BY <1>0, <2>1, <2>2, SettledMeans DEF TypeOK
  <2>4. QED
    BY <1>0, <2>1, <2>3, CursorAfterPop
<1>6. CASE VerifyChangedEffect \/ VerifyUnchangedEffect
  <2>1. Top.node \in Effects
    BY <1>6 DEF VerifyChangedEffect, VerifyUnchangedEffect
  <2>2. stack' = Pop \/ \E f \in Frames : f.kind = "teardown" /\ stack' = Append(Pop, f)
    BY <1>0, <1>6, <2>1, EffectRetop DEF VerifyChangedEffect, VerifyUnchangedEffect
  <2>3. QED
    BY <1>0, <2>1, <2>2, TopPushed, CursorAfterPop DEF CursorSettled
<1>7. QED
  BY <1>1, <1>2, <1>3, <1>4, <1>5, <1>6

LEMMA ReturnCursor ==
  ASSUME TypeOK, CoreInv, Next,
         \/ ComputeReturn \/ TeardownReturn \/ BodyReturn \/ DisposeReturn
         \/ ComparatorPanic
         \/ UnwindComputed \/ UnwindEffect \/ BoundaryCatch \/ UnwindDispose
  PROVE  CursorSettled'
<1>0. /\ ~Idle /\ Top \in Frames /\ Top.node \in Observers /\ Pop \in Seq(Frames)
      /\ Top.node \in Computed <=> Top.node \notin Effects
  BY ContinuesOnTop, TopType DEF Continue
<1>1. CASE ComputeReturn
  <2>1. /\ Top.kind = "compute" /\ Top.node \in Computed /\ stack' = Pop /\ state' = state
    BY <1>0, <1>1, KindsTell DEF ComputeReturn
  <2>2. ~Refreshed(Pop, Top.node) /\ state[Top.node] = "Clean"
    BY <1>0, <2>1, KindsTell, RefreshOnTop
  <2>3. \A c \in Computed : c = Top.node => Settled(c)'
    BY <2>1, <2>2, SettledMeans
  <2>4. QED
    BY <1>0, <2>1, <2>3, CursorAfterPop
<1>2. CASE ComparatorPanic \/ UnwindComputed
  <2>1. stack' = Pop /\ (panicking' \/ Len(stack) <= 1)
    <3>1. stack' = Pop /\ panicking' = (Len(stack) > 1) /\ Len(stack) \in Nat
      BY <1>0, <1>2, TopType DEF ComparatorPanic, UnwindComputed, PopUnwinding
    <3>2. CASE Len(stack) > 1
      BY <3>1, <3>2, Zenon
    <3>3. CASE ~(Len(stack) > 1)
      BY <3>1, <3>3
    <3>4. QED
      BY <3>1, <3>2, <3>3
  <2>2. panicking' \/ Idle'
    <3>1. Len(Pop) = Len(stack) - 1 /\ Len(stack) \in Nat \ {0}
      BY <1>0, TopType
    <3>2. Len(stack) <= 1 => Pop = <<>>
      BY <1>0, <3>1
    <3>3. QED
      BY <2>1, <3>2 DEF Idle
  <2>3. Top.node \in Computed
    BY <1>0, <1>2, KindsTell DEF ComparatorPanic, UnwindComputed
  <2>4. QED
    BY <1>0, <2>1, <2>2, <2>3, CursorAfterPop
<1>3. CASE TeardownReturn \/ BodyReturn \/ DisposeReturn \/ UnwindEffect \/ BoundaryCatch
           \/ UnwindDispose
  <2>1. Top.node \in Effects
    BY <1>0, <1>3, KindsTell, ClosuresAssumption
       DEF TeardownReturn, BodyReturn, DisposeReturn, UnwindEffect, BoundaryCatch, UnwindDispose
  <2>2. stack' = Pop \/ \E f \in Frames : f.kind # "verify" /\ stack' = Append(Pop, f)
    <3>1. CASE TeardownReturn
      BY <1>0, <2>1, <3>1, EffectRetop DEF TeardownReturn
    <3>2. CASE BoundaryCatch
      BY <2>1, <3>2, PushedEffect DEF BoundaryCatch, StartDispose
    <3>3. CASE BodyReturn \/ DisposeReturn \/ UnwindEffect \/ UnwindDispose
      BY <3>3 DEF BodyReturn, DisposeReturn, UnwindEffect, UnwindDispose, PopUnwinding
    <3>4. QED
      BY <1>3, <3>1, <3>2, <3>3
  <2>3. QED
    BY <1>0, <2>1, <2>2, TopPushed, CursorAfterPop DEF CursorSettled
<1>4. QED
  BY <1>1, <1>2, <1>3

LEMMA NextCursor ==
  ASSUME TypeOK, CoreInv, Next
  PROVE  CursorSettled'
<1>1. ASSUME \/ \E s \in Signals : Write(s) \/ ReadSignal(s)
             \/ \E c \in Computed : ReadCycle(c) \/ ReadClean(c) \/ ReadStale(c)
             \/ \E e \in Effects : RunReady(e) \/ Dispose(e) \/ Discard(e)
             \/ \E n \in Observables : DropHandle(n)
             \/ Panic
      PROVE  CursorSettled'
  <2>1. UserCode
    BY <1>1 DEF Write, ReadSignal, ReadCycle, ReadClean, ReadStale, CanRead, RunReady,
       RunNothing, RunDeferred, RunStale, TakeRun, Dispose, Discard, DropHandle, Panic
  <2>2. QED
    BY <1>1, <2>1, UserCursor
<1>2. QED
  BY <1>1, VerifyCursor, ReturnCursor DEF Next, Continue

-----------------------------------------------------------------------------
(* A cache hit is never stale.                                             *)

(* When somebody is being refreshed, and who is on the frames of a step. *)
LEMMA RefreshedFrames ==
  ASSUME NEW n
  PROVE  /\ Refreshed(stack, n) <=> \E f \in FramesOf(stack) : f.node = n /\ f.kind \in Refreshing
         /\ Refreshed(stack', n)
              <=> \E f \in FramesOf(stack') : f.node = n /\ f.kind \in Refreshing
         /\ Refreshed(Pop, n) <=> \E f \in FramesOf(Pop) : f.node = n /\ f.kind \in Refreshing
BY DEF Refreshed, FramesOf

(* A node becomes settled only as its own refresh ends. *)
LEMMA StillRefreshed ==
  ASSUME TypeOK, CoreInv, Next, NEW c \in Computed, Refreshed(stack, c), ~Refreshed(stack', c)
  PROVE  /\ ~Idle /\ Top.node = c /\ Top.kind \in Refreshing
         /\ ComputeReturn \/ VerifyUnchangedComputed \/ ComparatorPanic \/ UnwindComputed
<1>0. ~Idle /\ stack \in Seq(Frames)
  BY FramesType, RefreshedFrames DEF TypeOK
<1>1. Top \in Frames /\ Pop \in Seq(Frames)
  BY <1>0, TopType
<1>2. ASSUME NEW f \in Frames, stack' = Append(stack, f) PROVE FALSE
  BY <1>0, <1>2, RefreshedPushed
<1>3. stack' # stack
  OBVIOUS
<1>4. ASSUME NEW f \in Frames, f.node = Top.node, f.kind \in Refreshing \/ Top.kind \notin Refreshing,
             stack' = Append(Pop, f)
      PROVE  FALSE
  BY <1>0, <1>1, <1>4, RefreshedPushed, RefreshedPopped DEF CoreInv
<1>5. ASSUME Top.node \in Effects PROVE stack' # Pop
  <2>1. Top.node # c
    BY <1>5, NodesAssumption
  <2>2. Refreshed(Pop, c)
    BY <1>0, <2>1, RefreshedPopped DEF CoreInv
  <2>3. QED
    BY <2>2
<1>6. ASSUME stack' = Pop PROVE Top.node = c /\ Top.kind \in Refreshing
  BY <1>0, <1>6, RefreshedPopped DEF CoreInv
<1>7. ASSUME NEW d \in Computed, ReadStale(d) PROVE FALSE
  <2>1. PICK t \in BOOLEAN : StartRefresh(d, t, stack)
    BY <1>7 DEF ReadStale, TrackModes
  <2>2. QED
    BY <1>0, <1>2, <2>1, RefreshPushes
<1>8. ASSUME NEW e \in Effects, RunStale(e) \/ Dispose(e) PROVE FALSE
  BY <1>2, <1>8, PushedEffect DEF RunStale, Dispose, StartDispose
<1>9. ASSUME NEW d \in Observables, VerifyRefresh(d) PROVE FALSE
  <2> DEFINE g == [Top EXCEPT !.cur = d]
  <2>1. /\ g \in Frames /\ g.node = Top.node /\ g.kind \in Refreshing
        /\ Retop(g) = Append(Pop, g) /\ Retop(g) \in Seq(Frames)
    <3>1. g \in Frames /\ g.node = Top.node /\ g.kind \in Refreshing
      BY <1>1, <1>9, CursorAsked DEF Frames, Refreshing
    <3>2. QED
      BY <1>0, <3>1, RetopIsPush, TopType
  <2> HIDE DEF g
  <2>2. Refreshed(Retop(g), c)
    BY <1>0, <1>1, <2>1, RefreshedPushed, RefreshedPopped DEF CoreInv
  <2>3. CASE stack' = Retop(g)
    BY <2>2, <2>3
  <2>4. CASE d \in Computed /\ StartRefresh(d, FALSE, Retop(g))
    <3>1. PICK f \in Frames : stack' = Append(Retop(g), f)
      BY <2>1, <2>4, RefreshPushes
    <3>2. QED
      BY <2>1, <2>2, <3>1, RefreshedPushed
  <2>5. QED
    BY <1>9, <2>3, <2>4 DEF VerifyRefresh, g
<1>10. CASE VerifySame
  <2> DEFINE g == [Top EXCEPT !.cur = None, !.todo[Top.cur] = None]
  <2>1. g \in Frames /\ g.node = Top.node /\ g.kind \in Refreshing
    BY <1>1, <1>10 DEF VerifySame, Verifying, Frames, EdgeMaps, Refreshing
  <2>2. stack' = Append(Pop, g)
    BY <1>0, <1>10, <2>1, RetopIsPush DEF VerifySame
  <2> HIDE DEF g
  <2>3. QED
    BY <1>4, <2>1, <2>2
<1>11. CASE VerifyChangedComputed
  <2>1. Top.node \in Computed /\ Top.tracked \in BOOLEAN
        /\ stack' = Append(Pop, Frame("compute", Top.node, Top.tracked))
    BY <1>1, <1>11, FrameKinds DEF VerifyChangedComputed, StartCompute
  <2>2. QED
    BY <1>4, <2>1, PushedRefresh DEF Refreshing
<1>12. ASSUME VerifyChangedEffect \/ VerifyUnchangedEffect \/ TeardownReturn \/ BodyReturn
              \/ DisposeReturn \/ UnwindEffect \/ BoundaryCatch \/ UnwindDispose
       PROVE  FALSE
  <2>1. Top.node \in Effects
    BY <1>0, <1>12, KindsTell, ClosuresAssumption
       DEF VerifyChangedEffect, VerifyUnchangedEffect, TeardownReturn, BodyReturn, DisposeReturn,
           UnwindEffect, BoundaryCatch, UnwindDispose
  <2>2. stack' = Pop \/ \E f \in Frames : f.node = Top.node /\ stack' = Append(Pop, f)
    <3>1. CASE TeardownReturn \/ VerifyChangedEffect
      BY <1>0, <2>1, <3>1, EffectRetop DEF TeardownReturn, VerifyChangedEffect
    <3>2. CASE BoundaryCatch
      BY <2>1, <3>2, PushedEffect DEF BoundaryCatch, StartDispose
    <3>3. CASE VerifyUnchangedEffect \/ BodyReturn \/ DisposeReturn \/ UnwindEffect
               \/ UnwindDispose
      BY <3>3 DEF VerifyUnchangedEffect, BodyReturn, DisposeReturn, UnwindEffect, UnwindDispose,
                  PopUnwinding
    <3>4. QED
      BY <1>12, <3>1, <3>2, <3>3
  <2>3. Top.node # c
    BY <2>1, NodesAssumption
  <2>4. Refreshed(Pop, c)
    BY <1>0, <2>3, RefreshedPopped DEF CoreInv
  <2>5. ASSUME NEW f \in Frames, stack' = Append(Pop, f) PROVE Refreshed(stack', c)
    BY <1>1, <2>4, <2>5, RefreshedPushed
  <2>6. QED
    BY <2>2, <2>4, <2>5
<1>13. ASSUME UNCHANGED stack PROVE FALSE
  BY <1>3, <1>13
<1>14. CASE ComputeReturn \/ VerifyUnchangedComputed \/ ComparatorPanic \/ UnwindComputed
  <2>1. stack' = Pop
    BY <1>14 DEF ComputeReturn, VerifyUnchangedComputed, ComparatorPanic, UnwindComputed,
                 PopUnwinding
  <2>2. QED
    BY <1>0, <1>6, <1>14, <2>1
<1>15. CASE \/ \E s \in Signals : Write(s) \/ ReadSignal(s)
            \/ \E d \in Computed : ReadCycle(d) \/ ReadClean(d)
            \/ \E e \in Effects : RunNothing(e) \/ RunDeferred(e) \/ Discard(e)
            \/ \E n \in Observables : DropHandle(n) \/ VerifyCycle(n)
            \/ Panic
  BY <1>13, <1>15 DEF Write, ReadSignal, ReadCycle, ReadClean, RunNothing, RunDeferred, Discard,
     DropHandle, VerifyCycle, Panic
<1>16. QED
  BY <1>7, <1>8, <1>9, <1>10, <1>11, <1>12, <1>14, <1>15 DEF Next, Continue, RunReady

LEMMA BecomesSettled ==
  ASSUME TypeOK, CoreInv, Next, NEW c \in Computed, ~Settled(c), Settled(c)'
  PROVE  UpToDateWithAll(c)
<1>1. state'[c] = "Clean" /\ ~Refreshed(stack', c) /\ c \in Observers /\ c \notin Effects
  BY SettledMeans, NodesAssumption DEF Observers
<1>2. CASE Refreshed(stack, c)
  <2>1. /\ ~Idle /\ Top.node = c /\ Top.kind \in Refreshing
        /\ ComputeReturn \/ VerifyUnchangedComputed \/ ComparatorPanic \/ UnwindComputed
    BY <1>1, <1>2, StillRefreshed
  <2>2. CASE Top.kind = "compute"
    BY <2>1, <2>2, RefreshOnTop
  <2>3. CASE Top.kind = "verify"
    <3>1. state[c] = "Check"
      BY <2>1, <2>3, RefreshOnTop
    <3>2. VerifyUnchangedComputed
      <4>1. ~ComputeReturn /\ ~ComparatorPanic
        BY <2>3 DEF ComputeReturn, ComparatorPanic
      <4>2. ~UnwindComputed
        BY <1>1, <2>3, <3>1 DEF UnwindComputed
      <4>3. QED
        BY <2>1, <4>1, <4>2
    <3>3. Keys(Top.todo) = {}
      BY <3>2 DEF VerifyUnchangedComputed
    <3>4. QED
      BY <2>1, <2>3, <3>3, TopSound DEF FrameSound, VerifySound, UpToDateWithAll
  <2>4. QED
    BY <2>1, <2>2, <2>3 DEF Refreshing
<1>3. CASE ~Refreshed(stack, c)
  <2>1. state[c] # "Clean"
    BY <1>3, SettledMeans
  <2>2. \/ ReadStale(c) \/ VerifyRefresh(c)
        \/ ~Idle /\ Top.node = c /\ (VerifyChangedComputed \/ VerifyUnchangedComputed)
    BY <1>1, <2>1, StateChange
  <2>3. CASE ~Idle /\ Top.node = c
    BY <1>3, <2>3, FramesType, RefreshedFrames, KindsTell
  <2>4. ASSUME NEW t \in BOOLEAN, NEW stk \in Seq(Frames), StartRefresh(c, t, stk)
        PROVE  FALSE
    <3>1. \E f \in Frames : f.node = c /\ f.kind \in Refreshing /\ stack' = Append(stk, f)
      BY <2>4, PushedRefresh DEF StartRefresh, StartCompute, Refreshing
    <3>2. QED
      BY <1>1, <2>4, <3>1, RefreshedPushed
  <2>5. CASE ReadStale(c)
    BY <2>4, <2>5 DEF ReadStale, TrackModes, TypeOK
  <2>6. CASE VerifyRefresh(c)
    <3> DEFINE g == [Top EXCEPT !.cur = c]
    <3>1. c \in Observables /\ ~Idle /\ c \in registered
      BY <2>6, CursorAsked DEF Observables
    <3>2. Retop(g) \in Seq(Frames)
      BY <3>1, TopType DEF Frames
    <3>3. QED
      BY <2>1, <2>4, <2>6, <3>1, <3>2 DEF VerifyRefresh
  <2>7. QED
    BY <2>2, <2>3, <2>5, <2>6
<1>4. QED
  BY <1>2, <1>3

LEMMA NextCoherent ==
  ASSUME TypeOK, CoreInv, EdgesAgree, Next
  PROVE  Coherent'
<1>1. SUFFICES ASSUME NEW c \in Computed, c \in registered', Settled(c)'
               PROVE  UpToDateWithAll(c)'
  BY DEF Coherent
<1>2. c \in registered /\ c \in Observers /\ state'[c] = "Clean"
  BY <1>1, RegisteredChange, SettledMeans DEF Observers
<1>3. UpToDateWithAll(c)
  BY <1>1, <1>2, BecomesSettled DEF CoreInv, Coherent
<1>4. QED
  BY <1>2, <1>3, NextKeeps

(* The whole of it. *)
LEMMA CoreInductive ==
  ASSUME TypeOK, CoreInv, EdgesAgree, Next
  PROVE  CoreInv'
<1>1. StackStep
  BY UserStack, LibraryStack DEF Next
<1>2. RankedStack(stack)' /\ AskedFor(stack)'
  BY <1>1, StackStepRanked DEF CoreInv, RankedStack, AskedFor
<1>3. QED
  BY <1>2, NextEdgesInGraph, NextGone, NextHooked, NextCoherent, NextFramesSound, NextCursor
     DEF CoreInv

LEMMA CoreInit == Init => CoreInv
<1> SUFFICES ASSUME Init PROVE CoreInv
  OBVIOUS
<1>1. /\ DOMAIN stack = {} /\ registered = Nodes /\ Idle
      /\ \A o \in Observers : Keys(dependencies[o]) = {} /\ state[o] = "Dirty"
  BY DEF Init, Idle, NoEdges, Keys
<1>2. RankedStack(stack) /\ AskedFor(stack) /\ FramesSound(stack) /\ CursorSettled
  BY <1>1 DEF RankedStack, AskedFor, FramesSound, FramesOf, CursorSettled
<1>3. EdgesInGraph /\ LiveEffectsHooked
  BY <1>1 DEF EdgesInGraph, LiveEffectsHooked, Nodes, Observers
<1>4. GoneHaveNoEdges /\ Coherent
  BY <1>1 DEF GoneHaveNoEdges, Coherent, UpToDateWithAll, Observers
<1>5. QED
  BY <1>2, <1>3, <1>4 DEF CoreInv

LEMMA CoreStutters ==
  ASSUME CoreInv, UNCHANGED vars
  PROVE  CoreInv'
<1>1. UNCHANGED <<registered, version, dependencies, state, disposed, stack, panicking>>
  BY DEF vars, edges
<1>2. /\ RankedStack(stack') /\ AskedFor(stack')
      /\ EdgesInGraph' /\ GoneHaveNoEdges' /\ LiveEffectsHooked'
  BY <1>1 DEF CoreInv, RankedStack, AskedFor, EdgesInGraph, GoneHaveNoEdges, LiveEffectsHooked
<1>3. /\ \A d : Settled(d)' <=> Settled(d)
      /\ \A o : UpToDateWithAll(o)' <=> UpToDateWithAll(o)
      /\ \A o, d : UpToDate(o, d)' <=> UpToDate(o, d)
  BY <1>1 DEF Settled, HasFrame, UpToDateWithAll, UpToDate
<1>4. Coherent' /\ CursorSettled'
  BY <1>1, <1>3 DEF CoreInv, Coherent, CursorSettled, Idle, Top
<1>5. ASSUME NEW f, FrameSound(f) PROVE FrameSound(f)'
  BY <1>1, <1>3, <1>5
     DEF FrameSound, ComputeSound, VerifySound, BodySound, DisposeSound
<1>6. FramesSound(stack)'
  BY <1>1, <1>5 DEF CoreInv, FramesSound, FramesOf
<1>7. QED
  BY <1>2, <1>4, <1>6 DEF CoreInv, RankedStack, AskedFor

LEMMA CoreCorrect == Spec => []CoreInv
<1>1. TypeOK /\ EdgesAgree /\ CoreInv /\ [Next]_vars => CoreInv'
  BY CoreInductive, CoreStutters
<1>2. QED
  BY <1>1, CoreInit, TypeCorrect, EdgesCorrect, PTL DEF Spec

(* A cached value is never stale: a computed node that is settled has        *)
(* recorded the current version of all it read, and all of that is settled   *)
(* in turn, whatever writes, refreshes, disposals and panics came between.   *)
THEOREM CoherentCorrect == Spec => []Coherent
BY CoreCorrect, PTL DEF CoreInv

(* What a running closure has read so far is of one moment, the present one, *)
(* as long as its node is unmarked (glitch freedom).                         *)
THEOREM NoTornReadsCorrect == Spec => []NoTornReads
<1>1. ASSUME TypeOK, CoreInv PROVE NoTornReads
  <2>1. SUFFICES ASSUME NEW i \in DOMAIN stack, stack[i].kind \in {"compute", "body"},
                        stack[i].node \notin disposed, state[stack[i].node] = "Clean"
                 PROVE  UpToDateWithAll(stack[i].node)
    BY DEF NoTornReads
  <2>2. FrameSound(stack[i])
    BY <1>1 DEF CoreInv, FramesSound, FramesOf
  <2>3. QED
    BY <2>1, <2>2 DEF FrameSound, ComputeSound, BodySound
<1>2. TypeOK /\ CoreInv => NoTornReads
  BY <1>1
<1>3. QED
  BY <1>2, CoreCorrect, TypeCorrect, PTL

-----------------------------------------------------------------------------
(* No effect is stranded.                                                  *)

(* Whose abandonment changes: it ends as a run of the effect starts, and    *)
(* begins as a teardown unwinds, or a body while another run is owed.       *)
LEMMA AbandonedChange ==
  ASSUME TypeOK, Next, NEW e \in Effects, e \in abandoned, e \notin abandoned'
  PROVE  RunStale(e)
BY DEF Next, Write, ReadSignal, ReadCycle, ReadClean, ReadStale, RunReady, RunNothing,
   RunDeferred, RunStale, Dispose, Discard, DropHandle, Panic, ComparatorPanic, Continue,
   VerifyCycle, VerifyRefresh, VerifySame, VerifyChangedComputed, VerifyUnchangedComputed,
   VerifyChangedEffect, VerifyUnchangedEffect, ComputeReturn, TeardownReturn, BodyReturn,
   DisposeReturn, UnwindDispose, UnwindComputed, UnwindEffect, BoundaryCatch

(* An effect's frame goes only as its own step takes it off the stack. *)
LEMMA EffectFrameGone ==
  ASSUME TypeOK, CoreInv, Next, NEW e \in Effects, NEW ks \in SUBSET Kinds,
         HasFrame(e, ks), ~HasFrame(e, ks)'
  PROVE  /\ ~Idle /\ Top.node = e /\ Top.kind \in ks
         /\ \/ VerifyChangedEffect \/ VerifyUnchangedEffect \/ TeardownReturn \/ BodyReturn
            \/ DisposeReturn \/ UnwindEffect \/ BoundaryCatch \/ UnwindDispose
<1>1. PICK f \in FramesOf(stack) : f.node = e /\ f.kind \in ks
  BY HasFrameMeans
<1>2. f \notin FramesOf(stack')
  BY <1>1, HasFrameMeans
<1>3. ~Idle /\ stack \in Seq(Frames) /\ Top \in Frames /\ Pop \in Seq(Frames)
  BY FramesType, TopType DEF TypeOK
<1>4. ASSUME FramesOf(Pop) \subseteq FramesOf(stack') PROVE f = Top
  BY <1>2, <1>3, <1>4, FramesPopped
<1>5. ASSUME NEW g \in Frames, stack' = Append(stack, g) PROVE FALSE
  BY <1>2, <1>3, <1>5, FramesPushed
<1>6. ASSUME NEW g \in Frames, stack' = Append(Pop, g) PROVE f = Top /\ g # Top
  BY <1>1, <1>2, <1>3, <1>6, FramesPopped, FramesPushed
<1>7. ASSUME stack' = Pop PROVE f = Top
  BY <1>4, <1>7
<1>8. ASSUME NEW d \in Computed, ReadStale(d) PROVE FALSE
  <2>1. PICK t \in BOOLEAN : StartRefresh(d, t, stack)
    BY <1>8 DEF ReadStale, TrackModes
  <2>2. QED
    BY <1>3, <1>5, <2>1, RefreshPushes
<1>9. ASSUME NEW d \in Effects, RunStale(d) \/ Dispose(d) PROVE FALSE
  BY <1>5, <1>9, PushedEffect DEF RunStale, Dispose, StartDispose
<1>10. ASSUME NEW g \in Frames, g.node = Top.node, g.kind = Top.kind,
              FramesOf(Pop) \cup {g} \subseteq FramesOf(stack')
       PROVE  FALSE
  <2>1. f = Top
    BY <1>4, <1>10
  <2>2. g.node = e /\ g.kind \in ks /\ g \in FramesOf(stack')
    BY <1>1, <1>10, <2>1
  <2>3. QED
    BY <2>2, HasFrameMeans
<1>11. ASSUME NEW d \in Observables, VerifyRefresh(d) PROVE FALSE
  <2> DEFINE g == [Top EXCEPT !.cur = d]
  <2>1. g \in Frames /\ g.node = Top.node /\ g.kind = Top.kind
    BY <1>3 DEF Frames
  <2>2. Retop(g) = Append(Pop, g) /\ Retop(g) \in Seq(Frames)
    BY <1>3, <2>1, RetopIsPush, TopType
  <2> HIDE DEF g
  <2>3. FramesOf(Retop(g)) = FramesOf(Pop) \cup {g}
    BY <1>3, <2>1, <2>2, FramesPushed
  <2>4. stack' = Retop(g) \/ \E h \in Frames : stack' = Append(Retop(g), h)
    BY <1>11, <2>2, RefreshPushes DEF VerifyRefresh, g
  <2>5. FramesOf(Retop(g)) \subseteq FramesOf(stack')
    BY <2>2, <2>4, FramesPushed
  <2>6. QED
    BY <1>10, <2>1, <2>3, <2>5
<1>12. CASE VerifySame
  <2> DEFINE g == [Top EXCEPT !.cur = None, !.todo[Top.cur] = None]
  <2>1. g \in Frames /\ g.node = Top.node /\ g.kind = Top.kind
    BY <1>3 DEF Frames, EdgeMaps
  <2>2. stack' = Append(Pop, g)
    BY <1>3, <1>12, <2>1, RetopIsPush DEF VerifySame
  <2> HIDE DEF g
  <2>3. FramesOf(stack') = FramesOf(Pop) \cup {g}
    BY <1>3, <2>1, <2>2, FramesPushed
  <2>4. QED
    BY <1>10, <2>1, <2>3
<1>13. ASSUME \/ VerifyChangedComputed \/ VerifyUnchangedComputed \/ ComputeReturn
              \/ ComparatorPanic \/ UnwindComputed
       PROVE  FALSE
  <2>1. Top.node \in Computed
    BY <1>3, <1>13, KindsTell DEF VerifyChangedComputed, VerifyUnchangedComputed, ComputeReturn,
       ComparatorPanic, UnwindComputed
  <2>2. FramesOf(Pop) \subseteq FramesOf(stack')
    <3>1. CASE VerifyChangedComputed
      <4>1. Top.tracked \in BOOLEAN
        BY <1>3, FrameKinds
      <4>2. \E g \in Frames : stack' = Append(Pop, g)
        BY <2>1, <3>1, <4>1, PushedRefresh DEF VerifyChangedComputed, StartCompute
      <4>3. QED
        BY <1>3, <4>2, FramesPushed
    <3>2. CASE stack' = Pop
      BY <3>2
    <3>3. QED
      BY <1>13, <3>1, <3>2
         DEF VerifyUnchangedComputed, ComputeReturn, ComparatorPanic, UnwindComputed, PopUnwinding
  <2>3. QED
    BY <1>1, <1>4, <2>1, <2>2, NodesAssumption
<1>14. CASE \/ VerifyChangedEffect \/ VerifyUnchangedEffect \/ TeardownReturn \/ BodyReturn
            \/ DisposeReturn \/ UnwindEffect \/ BoundaryCatch \/ UnwindDispose
  <2>1. Top.node \in Effects
    BY <1>3, <1>14, KindsTell, ClosuresAssumption
       DEF VerifyChangedEffect, VerifyUnchangedEffect, TeardownReturn, BodyReturn, DisposeReturn,
           UnwindEffect, BoundaryCatch, UnwindDispose
  <2>2. stack' = Pop \/ \E g \in Frames : stack' = Append(Pop, g)
    <3>1. CASE TeardownReturn \/ VerifyChangedEffect
      BY <1>3, <2>1, <3>1, EffectRetop DEF TeardownReturn, VerifyChangedEffect
    <3>2. CASE BoundaryCatch
      BY <2>1, <3>2, PushedEffect DEF BoundaryCatch, StartDispose
    <3>3. CASE VerifyUnchangedEffect \/ BodyReturn \/ DisposeReturn \/ UnwindEffect
               \/ UnwindDispose
      BY <3>3 DEF VerifyUnchangedEffect, BodyReturn, DisposeReturn, UnwindEffect, UnwindDispose,
                  PopUnwinding
    <3>4. QED
      BY <1>14, <3>1, <3>2, <3>3
  <2>3. f = Top
    BY <1>6, <1>7, <2>2
  <2>4. QED
    BY <1>1, <1>3, <1>14, <2>3
<1>15. stack' # stack
  BY <1>1, <1>2
<1>16. CASE \/ \E s \in Signals : Write(s) \/ ReadSignal(s)
            \/ \E d \in Computed : ReadCycle(d) \/ ReadClean(d)
            \/ \E d \in Effects : RunNothing(d) \/ RunDeferred(d) \/ Discard(d)
            \/ \E n \in Observables : DropHandle(n) \/ VerifyCycle(n)
            \/ Panic
  BY <1>15, <1>16 DEF Write, ReadSignal, ReadCycle, ReadClean, RunNothing, RunDeferred, Discard,
     DropHandle, VerifyCycle, Panic
<1>17. QED
  BY <1>8, <1>9, <1>11, <1>12, <1>13, <1>14, <1>16 DEF Next, Continue, RunReady

(* A run that starts shows on the stack. *)
LEMMA RunStarts ==
  ASSUME TypeOK, NEW e \in Effects, RunStale(e)
  PROVE  HasFrame(e, {"verify", "teardown"})' /\ state'[e] = "Clean"
<1>1. \E f \in Frames : f.node = e /\ f.kind \in {"verify", "teardown"} /\ stack' = Append(stack, f)
  BY PushedEffect DEF RunStale
<1>2. \E f \in FramesOf(stack') : f.node = e /\ f.kind \in {"verify", "teardown"}
  BY <1>1, FramesPushed DEF TypeOK
<1>3. QED
  BY <1>2, HasFrameMeans DEF RunStale, TypeOK, Observers

(* So does one that goes on with what replaces the frame on top. *)
LEMMA RunGoesOn ==
  ASSUME TypeOK, ~Idle, NEW e \in Effects, NEW k \in {"teardown", "body"}, NEW ks, k \in ks,
         stack' = Append(Pop, Frame(k, e, FALSE))
  PROVE  HasFrame(e, ks)'
<1> DEFINE f == Frame(k, e, FALSE)
<1>1. f \in Frames /\ f.node = e /\ f.kind = k /\ Pop \in Seq(Frames)
  <2>1. \A h \in {"teardown", "body", "dispose"} :
          Frame(h, e, FALSE) \in Frames /\ Frame(h, e, FALSE).node = e
          /\ Frame(h, e, FALSE).kind = h
    BY PushedEffect, Zenon
  <2>2. k \in {"teardown", "body", "dispose"} /\ Pop \in Seq(Frames)
    BY TopType
  <2>3. QED
    BY <2>1, <2>2, Zenon
<1> HIDE DEF f
<1>2. f \in FramesOf(Append(Pop, f))
  BY <1>1, FramesPushed
<1>3. f \in FramesOf(stack')
  BY <1>2 DEF f
<1>4. QED
  BY <1>1, <1>3, HasFrameMeans

LEMMA NextRested ==
  ASSUME TypeOK, CoreInv, EdgesAgree, Rested, Next
  PROVE  Rested'
<1> SUFFICES ASSUME NEW e \in Effects, e \notin disposed', e \notin abandoned',
                    state'[e] = "Clean", ~HasFrame(e, {"verify", "teardown"})'
             PROVE  UpToDateWithAll(e)'
  BY DEF Rested
<1>1. ~RunStale(e)
  BY RunStarts
<1>2. /\ e \notin disposed /\ e \notin abandoned /\ e \in registered /\ e \in Observers
      /\ e \notin Computed
  BY <1>1, NextHooked, AbandonedChange, NodesAssumption DEF CoreInv, LiveEffectsHooked, Observers
<1>3. state[e] = "Clean"
  BY <1>1, <1>2, StateChange
<1>4. CASE ~HasFrame(e, {"verify", "teardown"})
  BY <1>2, <1>3, <1>4, NextKeeps DEF Rested
<1>5. CASE HasFrame(e, {"verify", "teardown"})
  <2>1. /\ ~Idle /\ Top.node = e /\ Top.kind \in {"verify", "teardown"}
        /\ \/ VerifyChangedEffect \/ VerifyUnchangedEffect \/ TeardownReturn \/ BodyReturn
           \/ DisposeReturn \/ UnwindEffect \/ BoundaryCatch \/ UnwindDispose
    BY <1>5, EffectFrameGone DEF Kinds
  <2>2. CASE VerifyUnchangedEffect
    <3>1. Keys(Top.todo) = {} /\ Top.kind = "verify"
      BY <2>2 DEF VerifyUnchangedEffect, Verifying
    <3>2. UpToDateWithAll(e)
      BY <2>1, <3>1, TopSound DEF FrameSound, VerifySound, UpToDateWithAll
    <3>3. QED
      BY <1>2, <3>2, NextKeeps
  <2>3. CASE VerifyChangedEffect
    <3>1. stack' = Append(Pop, Frame("teardown", e, FALSE))
      BY <1>2, <2>1, <2>3, EffectRetop DEF VerifyChangedEffect
    <3>2. QED
      BY <2>1, <3>1, RunGoesOn
  <2>4. CASE TeardownReturn
    <3>1. dependencies'[e] = NoEdges
      BY <1>2, <2>1, <2>4 DEF TeardownReturn, ClearDependencies, TypeOK
    <3>2. QED
      BY <3>1 DEF UpToDateWithAll, Keys, NoEdges
  <2>5. CASE UnwindEffect
    <3>1. Top.kind = "verify"
      BY <2>1, <2>5 DEF UnwindEffect
    <3>2. state'[e] = "Dirty"
      BY <1>2, <2>1, <2>5, <3>1 DEF UnwindEffect, Recover, TypeOK
    <3>3. QED
      BY <3>2
  <2>6. CASE BoundaryCatch
    BY <1>2, <2>1, <2>6 DEF BoundaryCatch, StartDispose
  <2>7. CASE BodyReturn \/ DisposeReturn \/ UnwindDispose
    BY <2>1, <2>7 DEF BodyReturn, DisposeReturn, UnwindDispose
  <2>8. QED
    BY <2>1, <2>2, <2>3, <2>4, <2>5, <2>6, <2>7
<1>6. QED
  BY <1>4, <1>5

(* Who is taken off the lane, and with what in exchange. *)
LEMMA ScheduledChange ==
  ASSUME TypeOK, Next, "discard" \notin Env, NEW e \in Effects, e \in scheduled, e \notin scheduled'
  PROVE  \/ RunNothing(e) \/ RunDeferred(e) \/ RunStale(e)
         \/ e \in disposed'
<1>1. \A E : Schedule(E) => scheduled \subseteq scheduled'
  BY DEF Schedule
<1>2. ASSUME NEW s \in Signals, Write(s) \/ ReadSignal(s) PROVE FALSE
  BY <1>1, <1>2 DEF Write, Trigger, ReadSignal, queue
<1>3. ASSUME NEW c \in Computed, ReadCycle(c) \/ ReadClean(c) \/ ReadStale(c) PROVE FALSE
  BY <1>3 DEF ReadCycle, ReadClean, ReadStale, queue
<1>4. ASSUME NEW d \in Effects, RunReady(d) \/ Dispose(d) \/ Discard(d)
      PROVE  RunNothing(e) \/ RunDeferred(e) \/ RunStale(e) \/ e \in disposed'
  <2>1. CASE RunReady(d)
    <3>1. scheduled' = scheduled \ {d}
      BY <2>1 DEF RunReady, RunNothing, RunDeferred, RunStale, TakeRun
    <3>2. d = e
      BY <3>1
    <3>3. QED
      BY <2>1, <3>2 DEF RunReady
  <2>2. CASE Dispose(d)
    BY <2>2 DEF Dispose, StartDispose
  <2>3. CASE Discard(d)
    BY <2>3 DEF Discard
  <2>4. QED
    BY <1>4, <2>1, <2>2, <2>3
<1>5. ASSUME NEW n \in Observables, DropHandle(n) PROVE FALSE
  BY <1>5 DEF DropHandle, queue
<1>6. CASE Panic \/ ComparatorPanic
  BY <1>6 DEF Panic, ComparatorPanic, queue
<1>7. ASSUME NEW d \in Observables, VerifyCycle(d) \/ VerifyRefresh(d) PROVE FALSE
  BY <1>7 DEF VerifyCycle, VerifyRefresh, queue
<1>8. CASE \/ VerifySame \/ VerifyChangedComputed \/ VerifyUnchangedComputed
           \/ VerifyChangedEffect \/ VerifyUnchangedEffect
  BY <1>8 DEF VerifySame, VerifyChangedComputed, VerifyUnchangedComputed, VerifyChangedEffect,
     VerifyUnchangedEffect, queue
<1>9. CASE ComputeReturn
  BY <1>9 DEF ComputeReturn, queue
<1>10. CASE TeardownReturn \/ DisposeReturn \/ UnwindComputed \/ UnwindDispose
  BY <1>10 DEF TeardownReturn, DisposeReturn, UnwindComputed, UnwindDispose, queue
<1>11. CASE BodyReturn
  BY <1>1, <1>11 DEF BodyReturn
<1>12. CASE UnwindEffect
  BY <1>1, <1>12 DEF UnwindEffect, Recover
<1>13. CASE BoundaryCatch
  BY <1>13 DEF BoundaryCatch, StartDispose
<1>14. QED
  BY <1>2, <1>3, <1>4, <1>5, <1>6, <1>7, <1>8, <1>9, <1>10, <1>11, <1>12, <1>13 DEF Next, Continue

(* Only the effect's own body discharges the run that is owed after it. *)
LEMMA RerunChange ==
  ASSUME TypeOK, Next, NEW e \in Effects, e \in rerun, e \notin rerun'
  PROVE  BodyReturn /\ Top.node = e
<1>1. ASSUME NEW s \in Signals, Write(s) \/ ReadSignal(s) PROVE FALSE
  BY <1>1 DEF Write, ReadSignal, queue
<1>2. ASSUME NEW c \in Computed, ReadCycle(c) \/ ReadClean(c) \/ ReadStale(c) PROVE FALSE
  BY <1>2 DEF ReadCycle, ReadClean, ReadStale, queue
<1>3. ASSUME NEW d \in Effects, RunReady(d) \/ Dispose(d) \/ Discard(d) PROVE FALSE
  BY <1>3 DEF RunReady, RunNothing, RunDeferred, RunStale, Dispose, Discard
<1>4. ASSUME NEW n \in Observables, DropHandle(n) PROVE FALSE
  BY <1>4 DEF DropHandle, queue
<1>5. CASE Panic \/ ComparatorPanic
  BY <1>5 DEF Panic, ComparatorPanic, queue
<1>6. ASSUME NEW d \in Observables, VerifyCycle(d) \/ VerifyRefresh(d) PROVE FALSE
  BY <1>6 DEF VerifyCycle, VerifyRefresh, queue
<1>7. CASE \/ VerifySame \/ VerifyChangedComputed \/ VerifyUnchangedComputed
           \/ VerifyChangedEffect \/ VerifyUnchangedEffect
  BY <1>7 DEF VerifySame, VerifyChangedComputed, VerifyUnchangedComputed, VerifyChangedEffect,
     VerifyUnchangedEffect, queue
<1>8. CASE \/ ComputeReturn \/ TeardownReturn \/ DisposeReturn
           \/ UnwindComputed \/ UnwindEffect \/ BoundaryCatch \/ UnwindDispose
  BY <1>8 DEF ComputeReturn, TeardownReturn, DisposeReturn, UnwindComputed, UnwindEffect,
     BoundaryCatch, UnwindDispose, queue
<1>9. CASE BodyReturn
  BY <1>9 DEF BodyReturn
<1>10. QED
  BY <1>1, <1>2, <1>3, <1>4, <1>5, <1>6, <1>7, <1>8, <1>9 DEF Next, Continue

LEMMA NextOwed ==
  ASSUME TypeOK, CoreInv, EdgesAgree, Owed, "discard" \notin Env, Next
  PROVE  Owed'
<1> SUFFICES ASSUME NEW e \in Effects, e \notin disposed', e \notin abandoned',
                    state'[e] # "Clean", e \notin scheduled'
             PROVE  e \in rerun' /\ Running(e)'
  BY DEF Owed
<1>1. ~RunStale(e)
  BY RunStarts
<1>2. /\ e \notin disposed /\ e \notin abandoned /\ e \in registered /\ e \in Observers
      /\ e \notin Computed
  BY <1>1, NextHooked, AbandonedChange, NodesAssumption DEF CoreInv, LiveEffectsHooked, Observers
<1>3. ASSUME NEW E \in SUBSET Effects, Schedule(E) PROVE e \notin E
  BY <1>2, <1>3 DEF Schedule
<1>4. state[e] # "Clean"
  <2>1. SUFFICES ASSUME state[e] = "Clean" PROVE FALSE
    OBVIOUS
  <2>2. ASSUME NEW s \in Signals, Write(s), e \in Reached(s) PROVE FALSE
    <3>1. Schedule(Reached(s) \cap Effects)
      BY <2>2 DEF Write, Trigger
    <3>2. QED
      BY <1>3, <2>2, <3>1
  <2>3. ~Idle /\ Top.node = e /\ Top.kind = "verify" /\ (UnwindEffect \/ BoundaryCatch)
    BY <1>1, <1>2, <2>1, <2>2, StateChange DEF UnwindComputed
  <2>4. CASE UnwindEffect
    <3>1. Schedule({e})
      BY <1>2, <2>3, <2>4 DEF UnwindEffect, Recover
    <3>2. QED
      BY <1>3, <3>1
  <2>5. CASE BoundaryCatch
    BY <1>2, <2>3, <2>5 DEF BoundaryCatch, StartDispose
  <2>6. QED
    BY <2>3, <2>4, <2>5
<1>5. CASE e \in scheduled
  <2>1. RunNothing(e) \/ RunDeferred(e)
    BY <1>1, <1>5, ScheduledChange
  <2>2. ~RunNothing(e)
    BY <1>2, <1>4 DEF RunNothing
  <2>3. e \in rerun' /\ Running(e) /\ UNCHANGED stack
    BY <2>1, <2>2 DEF RunDeferred
  <2>4. QED
    BY <2>3 DEF Running, HasFrame
<1>6. CASE e \in rerun /\ Running(e)
  <2>1. ASSUME BodyReturn, Top.node = e PROVE FALSE
    <3>1. {Top.node} \cap rerun = {e}
      BY <1>6, <2>1
    <3>2. Schedule({e})
      BY <2>1, <3>1 DEF BodyReturn
    <3>3. QED
      BY <1>3, <3>2
  <2>2. e \in rerun'
    BY <1>6, <2>1, RerunChange
  <2>3. ASSUME ~Running(e)' PROVE FALSE
    <3>1. /\ ~Idle /\ Top.node = e /\ Top.kind \in {"teardown", "body"}
          /\ \/ VerifyChangedEffect \/ VerifyUnchangedEffect \/ TeardownReturn \/ BodyReturn
             \/ DisposeReturn \/ UnwindEffect \/ BoundaryCatch \/ UnwindDispose
      <4>1. HasFrame(e, {"teardown", "body"}) /\ ~HasFrame(e, {"teardown", "body"})'
        BY <1>6, <2>3 DEF Running
      <4>2. QED
        BY <4>1, EffectFrameGone DEF Kinds
    <3>2. CASE TeardownReturn
      <4>1. stack' = Append(Pop, Frame("body", e, FALSE))
        BY <1>2, <3>1, <3>2, EffectRetop DEF TeardownReturn
      <4>2. HasFrame(e, {"teardown", "body"})'
        BY <3>1, <4>1, RunGoesOn
      <4>3. QED
        BY <2>3, <4>2 DEF Running
    <3>3. CASE UnwindEffect
      BY <1>6, <3>1, <3>3 DEF UnwindEffect
    <3>4. CASE BoundaryCatch
      BY <1>2, <3>1, <3>4 DEF BoundaryCatch, StartDispose
    <3>5. CASE VerifyChangedEffect \/ VerifyUnchangedEffect \/ DisposeReturn \/ UnwindDispose
      BY <3>1, <3>5 DEF VerifyChangedEffect, VerifyUnchangedEffect, DisposeReturn, UnwindDispose,
                        Verifying
    <3>6. QED
      BY <2>1, <3>1, <3>2, <3>3, <3>4, <3>5
  <2>4. QED
    BY <2>2, <2>3
<1>7. QED
  BY <1>2, <1>4, <1>5, <1>6 DEF Owed

LEMMA RestedCorrect == Spec => []Rested
<1>1. Init => Rested
  BY DEF Init, Rested, Observers
<1>2. TypeOK /\ EdgesAgree /\ CoreInv /\ Rested /\ [Next]_vars => Rested'
  <2>1. CASE UNCHANGED vars
    BY <2>1 DEF Rested, vars, edges, HasFrame, UpToDateWithAll, UpToDate, Settled
  <2>2. QED
    BY <2>1, NextRested
<1>3. QED
  BY <1>1, <1>2, TypeCorrect, EdgesCorrect, CoreCorrect, PTL DEF Spec

LEMMA OwedCorrect ==
  ASSUME "discard" \notin Env
  PROVE  Spec => []Owed
<1>1. Init => Owed
  BY DEF Init, Owed
<1>2. TypeOK /\ EdgesAgree /\ CoreInv /\ Owed /\ [Next]_vars => Owed'
  <2>1. CASE UNCHANGED vars
    BY <2>1 DEF Owed, vars, queue, Running, HasFrame
  <2>2. QED
    BY <2>1, NextOwed
<1>3. QED
  BY <1>1, <1>2, TypeCorrect, EdgesCorrect, CoreCorrect, PTL DEF Spec

(* No effect is stranded: one that is neither queued nor on the stack is     *)
(* unmarked and has seen the current state of all it read, unless it is gone *)
(* or a panic broke off its run.  No lane may drop a run it was given: one   *)
(* that does leaves the effect stranded, as the run discard_strands shows.   *)
THEOREM NoStrandedEffectCorrect ==
  ASSUME "discard" \notin Env
  PROVE  Spec => []NoStrandedEffect
<1>1. ASSUME LatchMatchesLane, Owed, Rested PROVE NoStrandedEffect
  <2>1. SUFFICES ASSUME NEW e \in Effects, e \notin abandoned, AtRest(e)
                 PROVE  state[e] = "Clean" /\ UpToDateWithAll(e)
    BY DEF NoStrandedEffect
  <2>2. /\ e \notin disposed /\ lane[e] = 0
        /\ ~HasFrame(e, {"verify", "teardown"}) /\ ~Running(e)
    BY <2>1 DEF AtRest, HasFrame, Running
  <2>3. e \notin scheduled
    BY <1>1, <2>2 DEF LatchMatchesLane
  <2>4. state[e] = "Clean"
    BY <1>1, <2>1, <2>2, <2>3 DEF Owed
  <2>5. QED
    BY <1>1, <2>1, <2>2, <2>4 DEF Rested
<1>2. LatchMatchesLane /\ Owed /\ Rested => NoStrandedEffect
  BY <1>1
<1>3. QED
  BY <1>2, LatchCorrect, OwedCorrect, RestedCorrect, PTL

-----------------------------------------------------------------------------
(* Writes tell whom they concern.                                          *)

(* Only a write moves the version of a signal. *)
LEMMA WrittenBy ==
  ASSUME TypeOK, Next, NEW s \in Signals, Written(s)
  PROVE  Write(s)
<1>1. s \in Observables /\ s \notin Computed
  BY NodesAssumption DEF Observables, Observers
<1>2. ASSUME NEW r \in Signals, Write(r) PROVE r = s
  BY <1>1, <1>2 DEF Written, Write, Trigger, TypeOK, Observables
<1>3. CASE ComputeReturn
  <2>1. Top.node \in Computed
    BY <1>3, KindsTell DEF ComputeReturn
  <2>2. version'[s] = version[s]
    BY <1>1, <1>3, <2>1 DEF ComputeReturn, TypeOK
  <2>3. QED
    BY <2>2 DEF Written
<1>4. ASSUME UNCHANGED version PROVE FALSE
  BY <1>4 DEF Written
<1>5. QED
  BY <1>2, <1>3, <1>4
     DEF Next, Continue, ReadSignal, ReadCycle, ReadClean, ReadStale, RunReady,
       RunNothing, RunDeferred, RunStale, Dispose, Discard, DropHandle, Panic, ComparatorPanic,
       VerifyCycle, VerifyRefresh, VerifySame, VerifyChangedComputed, VerifyUnchangedComputed,
       VerifyChangedEffect, VerifyUnchangedEffect, TeardownReturn, BodyReturn, DisposeReturn,
       UnwindComputed, UnwindEffect, BoundaryCatch, UnwindDispose

(* What the marking skips is what has been told before: everything that      *)
(* depends on a marked node is marked itself, queued, or yet to read.        *)
Told == {c \in Computed : c \notin registered \/ state[c] # "Clean"}
        \cup {e \in Effects : \/ e \in disposed \cup abandoned \cup scheduled \cup rerun
                              \/ HasFrame(e, {"teardown"})}

LEMMA ToldClosed ==
  ASSUME TypeOK, CoreInv, EdgesAgree, Rested, Owed, Outside,
         NEW c \in Computed, c \in Told
  PROVE  dependents[c] \subseteq Told
<1> SUFFICES ASSUME NEW o \in dependents[c] PROVE o \in Told
  OBVIOUS
<1>1. /\ c \in Observables /\ o \in Observers /\ c \notin Effects
      /\ c \in Keys(dependencies[o])
  BY NodesAssumption DEF TypeOK, Observables, EdgesAgree, Keys
<1>2. c \in registered
  BY <1>1 DEF CoreInv, EdgesInGraph
<1>3. ~Settled(c)
  BY <1>1, <1>2, SettledMeans DEF Told
<1>4. ~UpToDateWithAll(o)
  BY <1>1, <1>3 DEF UpToDateWithAll, UpToDate
<1>5. CASE o \in Computed
  <2>1. SUFFICES ASSUME o \in registered, state[o] = "Clean" PROVE FALSE
    BY <1>5 DEF Told
  <2>2. ~Refreshed(stack, o)
    BY DEF Outside, Refreshed
  <2>3. QED
    BY <1>4, <1>5, <2>1, <2>2, SettledMeans DEF CoreInv, Coherent
<1>6. CASE o \in Effects
  <2>1. SUFFICES ASSUME o \notin disposed, o \notin abandoned, o \notin scheduled, o \notin rerun,
                        ~HasFrame(o, {"teardown"})
                 PROVE  FALSE
    BY <1>6 DEF Told
  <2>2. state[o] = "Clean"
    BY <1>6, <2>1 DEF Owed
  <2>3. ~HasFrame(o, {"verify", "teardown"})
    BY <2>1 DEF Outside, HasFrame, Refreshing
  <2>4. QED
    BY <1>4, <1>6, <2>1, <2>2, <2>3 DEF Rested
<1>7. QED
  BY <1>1, <1>5, <1>6 DEF Observers

LEMMA WriteTells ==
  ASSUME TypeOK, CoreInv, EdgesAgree, Rested, Owed, NEW s \in Signals, Write(s),
         NEW e \in Effects, e \in Downstream(s), e \notin disposed, e \notin abandoned
  PROVE  e \in scheduled' \cup rerun \/ HasFrame(e, {"teardown"})
<1> DEFINE X == Reached(s) \cup Told
<1>1. /\ s \in Observables /\ Outside /\ e \in registered
      /\ Schedule(Reached(s) \cap Effects)
  BY WriteOutside DEF Observables, Write, Trigger, CoreInv, LiveEffectsHooked
<1>2. X \in SUBSET Observers /\ dependents[s] \subseteq X
  BY <1>1, ReachedClosed DEF Told, Observers
<1>3. ASSUME NEW c \in X \cap Computed PROVE dependents[c] \subseteq X
  <2>1. CASE c \in Told
    BY <1>1, <2>1, ToldClosed
  <2>2. CASE c \in Reached(s) /\ c \notin Told
    BY <1>1, <2>2, ReachedClosed DEF Told, PassesMarksOn
  <2>3. QED
    BY <2>1, <2>2
<1>4. e \in X
  BY <1>2, <1>3, Zenon DEF Downstream
<1>5. CASE e \in Reached(s)
  BY <1>1, <1>5 DEF Schedule
<1>6. CASE e \in Told
  <2>1. e \in scheduled \cup rerun \/ HasFrame(e, {"teardown"})
    BY <1>6, NodesAssumption DEF Told
  <2>2. QED
    BY <1>1, <2>1 DEF Schedule
<1>7. QED
  BY <1>4, <1>5, <1>6

(* Whoever could be affected by a write has, when the write returns, a run   *)
(* queued or owed, or one in progress that has still to read: marking may    *)
(* stop at a node already marked, since everything below it has been told.   *)
THEOREM WriteQueuesEffectsCorrect ==
  ASSUME "discard" \notin Env
  PROVE  Spec => WriteQueuesEffects
<1> DEFINE Tells ==
      \A s \in Signals : Written(s) =>
        \A e \in (Downstream(s) \cap Effects) \ (disposed \cup abandoned) :
          e \in scheduled' \cup rerun \/ HasFrame(e, {"teardown"})
<1>1. ASSUME TypeOK, EdgesAgree, CoreInv, Rested, Owed, [Next]_vars PROVE [Tells]_vars
  <2>1. CASE UNCHANGED vars
    BY <2>1
  <2>2. CASE Next
    <3>1. SUFFICES ASSUME NEW s \in Signals, Written(s),
                          NEW e \in (Downstream(s) \cap Effects) \ (disposed \cup abandoned)
                   PROVE  e \in scheduled' \cup rerun \/ HasFrame(e, {"teardown"})
      OBVIOUS
    <3>2. Write(s)
      BY <1>1, <2>2, <3>1, WrittenBy
    <3>3. QED
      BY <1>1, <3>1, <3>2, WriteTells
  <2>3. QED
    BY <1>1, <2>1, <2>2
<1>2. TypeOK /\ EdgesAgree /\ CoreInv /\ Rested /\ Owed /\ [Next]_vars => [Tells]_vars
  BY <1>1
<1>3. Spec => [][Tells]_vars
  BY <1>2, TypeCorrect, EdgesCorrect, CoreCorrect, RestedCorrect, OwedCorrect, PTL DEF Spec
<1>4. QED
  BY <1>3 DEF WriteQueuesEffects

-----------------------------------------------------------------------------
(* Nothing runs without need.                                              *)

LEMMA DirtyJustified ==
  ASSUME TypeOK, CoreInv, EdgesAgree, Next, NEW o \in Observers,
         ~panicking, state[o] # "Dirty", state'[o] = "Dirty"
  PROVE  Outdated(o)'
<1>1. PICK s \in Signals : Write(s) /\ o \in dependents[s]
  BY StateChange
<1>2. /\ s \in Observables /\ s \in Keys(dependencies[o])
      /\ UNCHANGED <<dependencies, registered>> /\ version' = [version EXCEPT ![s] = @ + 1]
  BY <1>1 DEF Observables, EdgesAgree, Keys, Write, Trigger, edges
<1>3. s \in registered /\ dependencies[o][s] <= version[s]
  BY <1>2 DEF CoreInv, EdgesInGraph
<1>4. version[s] \in Nat /\ version'[s] = version[s] + 1 /\ dependencies[o][s] \in Nat
  BY <1>2 DEF TypeOK, EdgeMaps, Keys
<1>5. dependencies'[o][s] # VersionOf(s)' /\ s \in Keys(dependencies'[o])
  BY <1>2, <1>3, <1>4 DEF VersionOf
<1>6. QED
  BY <1>5 DEF Outdated

(* A verification that finds a difference has found one of its node's edges *)
(* out of date.                                                             *)
LEMMA DifferenceFound ==
  ASSUME TypeOK, CoreInv, Verifying, Top.cur # None, Differs
  PROVE  Outdated(Top.node)
<1>1. /\ Top.cur \in Keys(Top.todo)
      /\ Top.cur \in Keys(dependencies[Top.node])
      /\ Top.todo[Top.cur] = dependencies[Top.node][Top.cur]
  <2>1. Top.cur \in Keys(Top.todo)
    BY TopSound DEF Verifying, FrameSound, VerifySound
  <2>2. /\ Len(stack) \in DOMAIN stack /\ Top = stack[Len(stack)] /\ Top.kind = "verify"
        /\ EdgesInGraph /\ FramesSound(stack)
    BY TopIndex DEF Verifying, CoreInv
  <2>3. QED
    BY <2>1, <2>2, TodoRecorded
<1>2. QED
  BY <1>1 DEF Outdated, Differs

LEMMA ComputeJustified ==
  ASSUME TypeOK, CoreInv, Next, NEW c \in Computed, Started(c, "compute")
  PROVE  Outdated(c) \/ state[c] = "Dirty"
<1>1. PICK f \in FramesOf(stack') : f.node = c /\ f.kind = "compute" /\ f \notin FramesOf(stack)
  BY HasFrameMeans DEF Started
<1>2. stack \in Seq(Frames)
  BY DEF TypeOK
<1>3. ASSUME NEW d \in Computed, NEW t \in BOOLEAN, NEW stk \in Seq(Frames),
             FramesOf(stk) \subseteq FramesOf(stack) \cup {g \in Frames : g.kind = "verify"},
             StartRefresh(d, t, stk)
      PROVE  d = c /\ state[c] = "Dirty"
  <2>1. CASE stack' = Append(stk, VerifyFrame(d, t))
    BY <1>1, <1>3, <2>1, PushedRefresh, FramesPushed
  <2>2. CASE state[d] = "Dirty" /\ stack' = Append(stk, Frame("compute", d, t))
    BY <1>1, <1>3, <2>2, PushedRefresh, FramesPushed
  <2>3. QED
    BY <1>3, <2>1, <2>2 DEF StartRefresh, StartCompute
<1>4. ASSUME NEW d \in Computed, ReadStale(d) PROVE state[c] = "Dirty"
  <2>1. PICK t \in BOOLEAN : StartRefresh(d, t, stack)
    BY <1>4 DEF ReadStale, TrackModes
  <2>2. QED
    BY <1>2, <1>3, <2>1
<1>5. ASSUME NEW g \in Frames, g.kind # "compute", ~Idle,
             stack' = Append(stack, g) \/ stack' = Append(Pop, g) \/ stack' = Pop
      PROVE  FALSE
  <2>1. FramesOf(Pop) \subseteq FramesOf(stack) /\ Pop \in Seq(Frames)
    BY <1>5, FramesPopped, TopType
  <2>2. FramesOf(stack') \subseteq FramesOf(stack) \cup {g}
    BY <1>2, <1>5, <2>1, FramesPushed
  <2>3. QED
    BY <1>1, <1>5, <2>2
<1>6. ASSUME NEW g \in Frames, g.kind # "compute", stack' = Append(stack, g) PROVE FALSE
  BY <1>1, <1>2, <1>6, FramesPushed
<1>7. ~Idle /\ stack' = Pop => FALSE
  BY <1>1, FramesPopped
<1>8. ASSUME NEW e \in Effects, RunStale(e) \/ Dispose(e) PROVE FALSE
  BY <1>6, <1>8, PushedEffect DEF RunStale, Dispose, StartDispose
<1>9. ASSUME NEW d \in Observables, VerifyRefresh(d) PROVE state[c] = "Dirty"
  <2> DEFINE g == [Top EXCEPT !.cur = d]
  <2>1. ~Idle /\ g \in Frames /\ g.kind = "verify" /\ Pop \in Seq(Frames)
    BY <1>9, CursorAsked, TopType DEF Frames
  <2>2. Retop(g) = Append(Pop, g) /\ Retop(g) \in Seq(Frames)
    BY <2>1, RetopIsPush, TopType
  <2> HIDE DEF g
  <2>3. FramesOf(Retop(g)) \subseteq FramesOf(stack) \cup {h \in Frames : h.kind = "verify"}
    BY <2>1, <2>2, FramesPushed, FramesPopped
  <2>4. CASE stack' = Retop(g)
    BY <1>5, <2>1, <2>2, <2>4
  <2>5. CASE d \in Computed /\ StartRefresh(d, FALSE, Retop(g))
    BY <1>3, <2>2, <2>3, <2>5
  <2>6. QED
    BY <1>9, <2>4, <2>5 DEF VerifyRefresh, g
<1>10. CASE VerifySame
  <2> DEFINE g == [Top EXCEPT !.cur = None, !.todo[Top.cur] = None]
  <2>1. ~Idle /\ g \in Frames /\ g.kind = "verify"
    BY <1>10, TopType DEF VerifySame, Verifying, Frames, EdgeMaps
  <2>2. stack' = Append(Pop, g)
    BY <1>10, <2>1, RetopIsPush DEF VerifySame
  <2> HIDE DEF g
  <2>3. QED
    BY <1>5, <2>1, <2>2
<1>11. CASE VerifyChangedComputed
  <2>1. /\ ~Idle /\ Top \in Frames /\ Pop \in Seq(Frames) /\ Top.node \in Computed
        /\ Top.tracked \in BOOLEAN
        /\ stack' = Append(Pop, Frame("compute", Top.node, Top.tracked))
    BY <1>11, TopType, FrameKinds DEF VerifyChangedComputed, Verifying, StartCompute
  <2>2. Top.node = c
    BY <1>1, <2>1, PushedRefresh, FramesPushed, FramesPopped
  <2>3. QED
    BY <1>11, <2>2, DifferenceFound DEF VerifyChangedComputed
<1>12. ASSUME VerifyChangedEffect \/ TeardownReturn \/ BoundaryCatch
       PROVE  FALSE
  <2>1. ~Idle /\ Top.node \in Effects
    BY <1>12, KindsTell, ClosuresAssumption
       DEF VerifyChangedEffect, TeardownReturn, BoundaryCatch, Verifying, TypeOK
  <2>2. stack' = Pop \/ \E g \in Frames : g.kind # "compute" /\ stack' = Append(Pop, g)
    <3>1. CASE TeardownReturn \/ VerifyChangedEffect
      BY <2>1, <3>1, EffectRetop DEF TeardownReturn, VerifyChangedEffect
    <3>2. CASE BoundaryCatch
      BY <2>1, <3>2, PushedEffect DEF BoundaryCatch, StartDispose
    <3>3. QED
      BY <1>12, <3>1, <3>2
  <2>3. QED
    BY <1>5, <1>7, <2>1, <2>2
<1>13. ASSUME \/ VerifyUnchangedComputed \/ VerifyUnchangedEffect \/ ComputeReturn
              \/ BodyReturn \/ DisposeReturn \/ ComparatorPanic \/ UnwindComputed
              \/ UnwindEffect \/ UnwindDispose
       PROVE  FALSE
  <2>1. ~Idle
    BY <1>13, ContinuesOnTop DEF Continue
  <2>2. QED
    BY <1>7, <1>13, <2>1 DEF VerifyUnchangedComputed, VerifyUnchangedEffect, ComputeReturn,
       BodyReturn, DisposeReturn, ComparatorPanic, UnwindComputed, UnwindEffect, UnwindDispose,
       PopUnwinding
<1>14. stack' # stack
  BY <1>1
<1>15. CASE \/ \E s \in Signals : Write(s) \/ ReadSignal(s)
            \/ \E d \in Computed : ReadCycle(d) \/ ReadClean(d)
            \/ \E d \in Effects : RunNothing(d) \/ RunDeferred(d) \/ Discard(d)
            \/ \E n \in Observables : DropHandle(n) \/ VerifyCycle(n)
            \/ Panic
  BY <1>14, <1>15 DEF Write, ReadSignal, ReadCycle, ReadClean, RunNothing, RunDeferred, Discard,
     DropHandle, VerifyCycle, Panic
<1>16. QED
  BY <1>4, <1>8, <1>9, <1>10, <1>11, <1>12, <1>13, <1>15 DEF Next, Continue, RunReady

LEMMA TeardownJustified ==
  ASSUME TypeOK, CoreInv, Next, NEW e \in Effects, Started(e, "teardown")
  PROVE  Outdated(e) \/ state[e] = "Dirty"
<1>1. PICK f \in FramesOf(stack') : f.node = e /\ f.kind = "teardown" /\ f \notin FramesOf(stack)
  BY HasFrameMeans DEF Started
<1>2. stack \in Seq(Frames) /\ ~ (e \in Computed)
  BY NodesAssumption DEF TypeOK
<1>3. ASSUME NEW stk \in Seq(Frames), NEW g \in Frames, FramesOf(stk) \subseteq FramesOf(stack),
             stack' = Append(stk, g)
      PROVE  g = f
  BY <1>1, <1>3, FramesPushed
<1>4. ASSUME ~Idle, NEW g \in Frames, stack' = Append(Pop, g) PROVE g = f
  <2>1. FramesOf(Pop) \subseteq FramesOf(stack) /\ Pop \in Seq(Frames)
    BY <1>4, FramesPopped, TopType
  <2>2. QED
    BY <1>3, <1>4, <2>1
<1>5. ~Idle /\ stack' = Pop => FALSE
  BY <1>1, FramesPopped
<1>6. stack' # stack
  BY <1>1
<1>7. ASSUME NEW d \in Computed, NEW t \in BOOLEAN, NEW stk \in Seq(Frames),
             FramesOf(stk) \subseteq FramesOf(stack) \cup {g \in Frames : g.kind = "verify"},
             StartRefresh(d, t, stk)
      PROVE  FALSE
  <2>1. PICK g \in Frames : g.node = d /\ stack' = Append(stk, g)
    BY <1>7, RefreshPushes
  <2>2. f \in FramesOf(stk) \/ f = g
    BY <1>1, <1>7, <2>1, FramesPushed
  <2>3. QED
    BY <1>1, <1>2, <1>7, <2>1, <2>2
<1>8. ASSUME NEW d \in Computed, ReadStale(d) PROVE FALSE
  <2>1. PICK t \in BOOLEAN : StartRefresh(d, t, stack)
    BY <1>8 DEF ReadStale, TrackModes
  <2>2. QED
    BY <1>2, <1>7, <2>1
<1>9. ASSUME NEW d \in Effects, RunStale(d) PROVE state[e] = "Dirty"
  <2>1. CASE state[d] = "Dirty" /\ stack' = Append(stack, Frame("teardown", d, FALSE))
    <3>1. Frame("teardown", d, FALSE) \in Frames /\ Frame("teardown", d, FALSE).node = d
      BY PushedEffect
    <3>2. Frame("teardown", d, FALSE) = f
      BY <1>2, <1>3, <2>1, <3>1
    <3>3. QED
      BY <1>1, <2>1, <3>1, <3>2
  <2>2. CASE stack' = Append(stack, VerifyFrame(d, FALSE))
    BY <1>1, <1>2, <1>3, <2>2, PushedEffect
  <2>3. QED
    BY <1>9, <2>1, <2>2 DEF RunStale
<1>10. ASSUME NEW d \in Effects, Dispose(d) PROVE FALSE
  BY <1>1, <1>2, <1>3, <1>10, PushedEffect DEF Dispose, StartDispose
<1>11. ASSUME NEW d \in Observables, VerifyRefresh(d) PROVE FALSE
  <2> DEFINE g == [Top EXCEPT !.cur = d]
  <2>1. ~Idle /\ g \in Frames /\ g.kind = "verify" /\ Pop \in Seq(Frames)
    BY <1>11, CursorAsked, TopType DEF Frames
  <2>2. Retop(g) = Append(Pop, g) /\ Retop(g) \in Seq(Frames)
    BY <2>1, RetopIsPush, TopType
  <2> HIDE DEF g
  <2>3. FramesOf(Retop(g)) \subseteq FramesOf(stack) \cup {h \in Frames : h.kind = "verify"}
    BY <2>1, <2>2, FramesPushed, FramesPopped
  <2>4. CASE stack' = Retop(g)
    BY <1>1, <1>4, <2>1, <2>2, <2>4
  <2>5. CASE d \in Computed /\ StartRefresh(d, FALSE, Retop(g))
    BY <1>7, <2>2, <2>3, <2>5
  <2>6. QED
    BY <1>11, <2>4, <2>5 DEF VerifyRefresh, g
<1>12. ASSUME VerifySame PROVE FALSE
  <2> DEFINE g == [Top EXCEPT !.cur = None, !.todo[Top.cur] = None]
  <2>1. ~Idle /\ g \in Frames /\ g.kind = "verify"
    BY <1>12, TopType DEF VerifySame, Verifying, Frames, EdgeMaps
  <2>2. stack' = Append(Pop, g)
    BY <1>12, <2>1, RetopIsPush DEF VerifySame
  <2> HIDE DEF g
  <2>3. QED
    BY <1>1, <1>4, <2>1, <2>2
<1>13. ASSUME VerifyChangedComputed PROVE FALSE
  <2>1. /\ ~Idle /\ Top.node \in Computed /\ Top.tracked \in BOOLEAN
        /\ stack' = Append(Pop, Frame("compute", Top.node, Top.tracked))
    BY <1>13, TopType, FrameKinds DEF VerifyChangedComputed, Verifying, StartCompute
  <2>2. QED
    BY <1>1, <1>4, <2>1, PushedRefresh
<1>14. CASE VerifyChangedEffect
  <2>1. ~Idle /\ Top.node \in Effects
    BY <1>14 DEF VerifyChangedEffect, Verifying
  <2>2. \E g \in Frames : g.node = Top.node /\ stack' = Append(Pop, g)
    BY <1>5, <1>14, <2>1, EffectRetop DEF VerifyChangedEffect
  <2>3. Top.node = e
    BY <1>1, <1>4, <2>1, <2>2
  <2>4. QED
    BY <1>14, <2>3, DifferenceFound DEF VerifyChangedEffect
<1>15. ASSUME TeardownReturn \/ BoundaryCatch PROVE FALSE
  <2>1. ~Idle /\ Top.node \in Effects
    BY <1>15, KindsTell, ClosuresAssumption DEF TeardownReturn, BoundaryCatch, TypeOK
  <2>2. stack' = Pop \/ \E g \in Frames : g.kind # "teardown" /\ stack' = Append(Pop, g)
    <3>1. CASE TeardownReturn
      BY <2>1, <3>1, EffectRetop DEF TeardownReturn
    <3>2. CASE BoundaryCatch
      BY <2>1, <3>2, PushedEffect DEF BoundaryCatch, StartDispose
    <3>3. QED
      BY <1>15, <3>1, <3>2
  <2>3. QED
    BY <1>1, <1>4, <1>5, <2>1, <2>2
<1>16. ASSUME \/ VerifyUnchangedComputed \/ VerifyUnchangedEffect \/ ComputeReturn
              \/ BodyReturn \/ DisposeReturn \/ ComparatorPanic \/ UnwindComputed
              \/ UnwindEffect \/ UnwindDispose
       PROVE  FALSE
  <2>1. ~Idle
    BY <1>16, ContinuesOnTop DEF Continue
  <2>2. QED
    BY <1>5, <1>16, <2>1 DEF VerifyUnchangedComputed, VerifyUnchangedEffect, ComputeReturn,
       BodyReturn, DisposeReturn, ComparatorPanic, UnwindComputed, UnwindEffect, UnwindDispose,
       PopUnwinding
<1>17. CASE \/ \E s \in Signals : Write(s) \/ ReadSignal(s)
            \/ \E d \in Computed : ReadCycle(d) \/ ReadClean(d)
            \/ \E d \in Effects : RunNothing(d) \/ RunDeferred(d) \/ Discard(d)
            \/ \E n \in Observables : DropHandle(n) \/ VerifyCycle(n)
            \/ Panic
  BY <1>6, <1>17 DEF Write, ReadSignal, ReadCycle, ReadClean, RunNothing, RunDeferred, Discard,
     DropHandle, VerifyCycle, Panic
<1>18. QED
  BY <1>8, <1>9, <1>10, <1>11, <1>12, <1>13, <1>14, <1>15, <1>16, <1>17
     DEF Next, Continue, RunReady

(* No wasted work: without a panic a node gets dirty only when a version it  *)
(* has recorded is out of date, and a closure that is not dirty starts only  *)
(* then; a change that an equality check suppresses goes no further.         *)
THEOREM RunsAreJustifiedCorrect == Spec => RunsAreJustified
<1> DEFINE Justified ==
      \A o \in Observers :
        /\ ~panicking /\ state[o] # "Dirty" /\ state'[o] = "Dirty" => Outdated(o)'
        /\ Started(o, IF o \in Computed THEN "compute" ELSE "teardown") /\ EverRan(o)
             => Outdated(o) \/ state[o] = "Dirty"
<1>1. ASSUME TypeOK, EdgesAgree, CoreInv, [Next]_vars PROVE [Justified]_vars
  <2>1. CASE UNCHANGED vars
    BY <2>1
  <2>2. CASE Next
    <3>1. SUFFICES ASSUME NEW o \in Observers
                   PROVE  /\ ~panicking /\ state[o] # "Dirty" /\ state'[o] = "Dirty" => Outdated(o)'
                          /\ Started(o, IF o \in Computed THEN "compute" ELSE "teardown")
                               /\ EverRan(o) => Outdated(o) \/ state[o] = "Dirty"
      OBVIOUS
    <3>2. ~panicking /\ state[o] # "Dirty" /\ state'[o] = "Dirty" => Outdated(o)'
      BY <1>1, <2>2, DirtyJustified
    <3>3. CASE o \in Computed
      BY <1>1, <2>2, <3>2, <3>3, ComputeJustified
    <3>4. CASE o \notin Computed
      BY <1>1, <2>2, <3>2, <3>4, TeardownJustified DEF Observers
    <3>5. QED
      BY <3>3, <3>4
  <2>3. QED
    BY <1>1, <2>1, <2>2
<1>2. TypeOK /\ EdgesAgree /\ CoreInv /\ [Next]_vars => [Justified]_vars
  BY <1>1
<1>3. Spec => [][Justified]_vars
  BY <1>2, TypeCorrect, EdgesCorrect, CoreCorrect, PTL DEF Spec
<1>4. QED
  BY <1>3 DEF RunsAreJustified
=============================================================================
