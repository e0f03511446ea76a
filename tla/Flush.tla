------------------------------- MODULE Flush -------------------------------
(***************************************************************************)
(* How adaptite gets queued work done: the reactor's job queue and the     *)
(* microtask that drains it, the flushes a consumer opens around its own   *)
(* lanes, and the divergence guard that ends a drain which feeds itself.   *)
(*                                                                         *)
(* Flushes nest, callbacks run in the middle of opening and closing one,   *)
(* and any of it may unwind, so this module too keeps the call stack as a  *)
(* variable: one step is one operation of the closure on top of it or one  *)
(* step of the library code there.  What makes an effect stale is in       *)
(* ReactiveGraph; here user code just invalidates effects.  An epoch is    *)
(* only ever compared for equality with the current one, so `counted'      *)
(* stands for the drain epoch: the effects whose last_drain_epoch is it.   *)
(***************************************************************************)
EXTENDS Naturals, Sequences, FiniteSets

CONSTANTS
  Jobs,          \* closures handed to Reactor::schedule
  Queued,        \* effects on the reactor's own lane
  Held,          \* effects whose EffectScheduler stores the runs
  None,          \* no job or effect
  Feeds,         \* Feeds[e]: the effects that the body of e may invalidate
  Env,           \* what else closures and the host do, see Behaviours
  Panics,        \* the kinds of closures that may panic
  MaxRuns,       \* MAX_RUNS_PER_FLUSH
  MaxStack,      \* bound: user code opens a flush only below this depth
  MaxMicrotasks  \* bound: the host adds work only below this many microtasks

Effects == Queued \cup Held

(*   subscriber      diagnostics are subscribed to, and callbacks schedule *)
(*   nested          closures call flush_now, external_flush, or run lanes *)
(*   external        consumers drain inside external_flush                 *)
(*   spawn           closures schedule jobs                                *)
Behaviours == {"subscriber", "nested", "external", "spawn"}

ASSUME EffectsAssumption ==
  /\ Jobs \cap Effects = {} /\ Queued \cap Held = {}
  /\ None \notin Jobs \cup Effects
  /\ Feeds \in [Effects -> SUBSET Effects]
ASSUME LimitsAssumption ==
  /\ Env \subseteq Behaviours /\ Panics \subseteq {"job", "body", "callback"}
  /\ MaxRuns \in Nat \ {0} /\ MaxStack \in Nat /\ MaxMicrotasks \in Nat

VARIABLES
  pending,     \* ReactorInner::pending_jobs, oldest first
  armed,       \* flush_scheduled
  microtasks,  \* how many microtasks that flush this reactor the runtime holds
  depth,       \* flush_depth
  dirty,       \* effects that are marked and would run
  latched,     \* EffectInner::scheduled
  held,        \* effects whose EffectRun sits in a consumer's lane
  rerun,       \* EffectInner::rerun_after_current
  counted,     \* effects with last_drain_epoch = drain_epoch
  runs,        \* EffectInner::runs_this_drain
  stack,       \* the call stack, outermost frame first
  panicking,   \* TRUE while a panic unwinds the stack
  ran,         \* history: bodies started since the outermost flush began
  abandoned    \* history: a callback's panic broke the last flush off

queue == <<pending, armed, microtasks>>
marks == <<dirty, latched, held, rerun>>
guard == <<counted, runs, ran>>
vars  == <<queue, depth, marks, guard, stack, panicking, abandoned>>

-----------------------------------------------------------------------------
(* Frames: a flush_jobs call before, in and after its loop (opening, drain, *)
(* closing), an external_flush or a lone EffectRun::run before and after    *)
(* its guard (external, single, ended), a diagnostic callback, and the user *)
(* closures job and body.  unwinding: the guard of this frame runs because  *)
(* of a panic that goes on afterwards.                                      *)
Kinds == {"opening", "drain", "closing", "external", "single", "ended",
          "callback", "job", "body"}
WhoOf(k) ==
  CASE k = "job" -> Jobs [] k = "body" -> Effects
    [] k = "single" -> Effects \cup {None} [] OTHER -> {None}
Frames ==
  {f \in [kind : Kinds, who : Jobs \cup Effects \cup {None}, unwinding : BOOLEAN] :
     f.who \in WhoOf(f.kind)}
Frame(k, w) == [kind |-> k, who |-> w, unwinding |-> FALSE]
Guarding(k) == [kind |-> k, who |-> None, unwinding |-> panicking]

Idle     == stack = <<>>
Host     == Frame("host", None)
Top      == IF Idle THEN Host ELSE stack[Len(stack)]
Pop      == SubSeq(stack, 1, Len(stack) - 1)
Retop(f) == [stack EXCEPT ![Len(stack)] = f]
On(k)    == Top.kind = k
HasFrame(k, w)  == \E i \in DOMAIN stack : stack[i].kind = k /\ stack[i].who = w
Running(e)      == HasFrame("body", e)
WithCallback(s) == IF "subscriber" \in Env THEN Append(s, Frame("callback", None)) ELSE s

(* User code that may work on the graph, and user code at all.              *)
GraphCode == ~panicking /\ Top.kind \in {"host", "job", "body", "external"}
UserCode  == GraphCode \/ (~panicking /\ On("callback"))
MayOpen   == GraphCode /\ (Idle \/ ("nested" \in Env /\ Len(stack) < MaxStack))

-----------------------------------------------------------------------------
(* Queueing.                                                               *)

(* ensure_flush_scheduled. *)
Arm ==
  IF armed THEN UNCHANGED <<armed, microtasks>>
  ELSE armed' = TRUE /\ microtasks' = microtasks + 1

(* Reactor::schedule. *)
Enqueue(j) == pending' = Append(pending, j) /\ Arm

(* EffectInner::schedule. *)
Schedule(e) ==
  /\ latched' = latched \cup {e}
  /\ IF e \in latched THEN UNCHANGED <<queue, held>>
     ELSE IF e \in Queued THEN Enqueue(e) /\ UNCHANGED held
     ELSE held' = held \cup {e} /\ UNCHANGED queue

InSequence(s) == {s[i] : i \in DOMAIN s}

ScheduleJob(j) ==
  /\ UserCode /\ (GraphCode /\ ~Idle => "spawn" \in Env)
  /\ microtasks < MaxMicrotasks /\ j \notin InSequence(pending)
  /\ Enqueue(j)
  /\ UNCHANGED <<depth, marks, guard, stack, panicking, abandoned>>

Invalidate(e) ==
  /\ GraphCode /\ microtasks < MaxMicrotasks
  /\ On("body") => e \in Feeds[Top.who]
  /\ dirty' = dirty \cup {e}
  /\ Schedule(e)
  /\ UNCHANGED <<depth, rerun, guard, stack, panicking, abandoned>>

-----------------------------------------------------------------------------
(* run_scheduled and the divergence guard, on top of stk.                   *)

(* The history variable: it starts anew with an outermost flush, and stops  *)
(* counting an effect that is over the limit.                               *)
Restart     == ran' = IF Idle THEN [e \in Effects |-> 0] ELSE ran
Counting(e) == IF ran[e] > MaxRuns THEN ran ELSE [ran EXCEPT ![e] = @ + 1]

(* Mutant: no limit. *)
CheckDivergenceNever(e, stk) ==
  /\ UNCHANGED <<counted, runs>>
  /\ stack' = Append(stk, Frame("body", e)) /\ UNCHANGED panicking
  /\ ran' = Counting(e)

CheckDivergence(e, stk) ==
  LET n == IF e \in counted THEN runs[e] + 1 ELSE 1 IN
  /\ counted' = counted \cup {e}
  /\ runs' = [runs EXCEPT ![e] = n]
  /\ IF n > MaxRuns THEN stack' = stk /\ panicking' = TRUE
     ELSE stack' = Append(stk, Frame("body", e)) /\ UNCHANGED panicking
  /\ ran' = IF n > MaxRuns THEN ran ELSE Counting(e)

RunScheduled(e, stk) ==
  /\ latched' = latched \ {e}
  /\ \/ /\ Running(e)
        /\ rerun' = rerun \cup {e}
        /\ stack' = stk
        /\ UNCHANGED <<dirty, guard, panicking>>
     \/ /\ ~Running(e) /\ e \notin dirty
        /\ stack' = stk
        /\ UNCHANGED <<dirty, rerun, guard, panicking>>
     \/ /\ ~Running(e) /\ e \in dirty
        /\ dirty' = dirty \ {e}
        /\ CheckDivergence(e, stk)
        /\ UNCHANGED rerun

-----------------------------------------------------------------------------
(* flush_jobs: an empty queue is no flush; otherwise the flush opens, which *)
(* may call back, before its guard exists.                                  *)

(* Mutant: a nested flush_now starts a new logical drain. *)
FlushJobsNewDrain ==
  \/ /\ pending = <<>>
     /\ armed' = FALSE /\ abandoned' = FALSE
     /\ UNCHANGED <<counted, ran, stack>>
  \/ /\ pending # <<>>
     /\ counted' = {} /\ Restart
     /\ stack' = WithCallback(Append(stack, Frame("opening", None)))
     /\ UNCHANGED <<armed, abandoned>>

FlushJobs ==
  \/ /\ pending = <<>>
     /\ armed' = FALSE /\ abandoned' = FALSE
     /\ UNCHANGED <<counted, ran, stack>>
  \/ /\ pending # <<>>
     /\ counted' = IF depth = 0 THEN {} ELSE counted
     /\ Restart
     /\ stack' = WithCallback(Append(stack, Frame("opening", None)))
     /\ UNCHANGED <<armed, abandoned>>

FlushNow ==
  /\ MayOpen /\ microtasks < MaxMicrotasks
  /\ FlushJobs
  /\ UNCHANGED <<pending, microtasks, depth, marks, runs, panicking>>

Microtask ==
  /\ Idle /\ microtasks > 0
  /\ microtasks' = microtasks - 1
  /\ FlushJobs
  /\ UNCHANGED <<pending, depth, marks, runs, panicking>>

EnterLoop ==
  /\ ~panicking /\ On("opening")
  /\ depth' = depth + 1
  /\ stack' = Retop(Frame("drain", None))
  /\ UNCHANGED <<queue, marks, guard, panicking, abandoned>>

RunJob ==
  /\ ~panicking /\ On("drain") /\ pending # <<>>
  /\ pending' = Tail(pending)
  /\ IF Head(pending) \in Jobs
     THEN /\ stack' = Append(stack, Frame("job", Head(pending)))
          /\ UNCHANGED <<dirty, latched, rerun, guard, panicking>>
     ELSE RunScheduled(Head(pending), stack)
  /\ UNCHANGED <<armed, microtasks, depth, held, abandoned>>

(* FlushGuard, first half: the depth, and the FlushFinished callback.       *)
CloseDrain ==
  /\ On("drain") /\ (panicking \/ pending = <<>>)
  /\ depth' = depth - 1
  /\ panicking' = FALSE
  /\ stack' = WithCallback(Retop(Guarding("closing")))
  /\ UNCHANGED <<queue, marks, guard, abandoned>>

(* A frame is left; a panic that its guard held up goes on, unless this was *)
(* the outermost frame: then it is the host's.                              *)
Leave == stack' = Pop /\ panicking' = (Top.unwinding /\ Len(stack) > 1)

(* Second half: the flag, and the jobs that are left.                       *)
(* Mutant: nobody is told about the jobs that are left. *)
FinishDrainForgetful ==
  /\ ~panicking /\ On("closing")
  /\ armed' = FALSE
  /\ Leave
  /\ abandoned' = FALSE
  /\ UNCHANGED <<pending, microtasks, depth, marks, guard>>

FinishDrain ==
  /\ ~panicking /\ On("closing")
  /\ armed' = (pending # <<>>)
  /\ microtasks' = IF pending # <<>> THEN microtasks + 1 ELSE microtasks
  /\ Leave
  /\ abandoned' = FALSE
  /\ UNCHANGED <<pending, depth, marks, guard>>

-----------------------------------------------------------------------------
(* external_flush and EffectRun::run: the guard is armed first.             *)

(* begin_flush under frame f. *)
(* Mutant: the drain is not a new one. *)
BeginFlushSameDrain(f) ==
  /\ depth' = depth + 1
  /\ counted' = counted /\ Restart
  /\ stack' = IF depth = 0 THEN WithCallback(Append(stack, f)) ELSE Append(stack, f)

BeginFlush(f) ==
  /\ depth' = depth + 1
  /\ counted' = IF depth = 0 THEN {} ELSE counted
  /\ Restart
  /\ stack' = IF depth = 0 THEN WithCallback(Append(stack, f)) ELSE Append(stack, f)

ExternalFlush ==
  /\ MayOpen /\ "external" \in Env
  /\ BeginFlush(Frame("external", None))
  /\ UNCHANGED <<queue, marks, runs, panicking, abandoned>>

RunHeld(e) ==
  /\ MayOpen /\ e \in held
  /\ held' = held \ {e}
  /\ \/ /\ depth > 0
        /\ RunScheduled(e, stack)
        /\ UNCHANGED depth
     \/ /\ depth = 0
        /\ BeginFlush(Frame("single", e))
        /\ UNCHANGED <<dirty, latched, rerun, runs, panicking>>
  /\ UNCHANGED <<queue, abandoned>>

RunSingle ==
  /\ ~panicking /\ On("single") /\ Top.who # None
  /\ RunScheduled(Top.who, Retop(Frame("single", None)))
  /\ UNCHANGED <<queue, depth, held, abandoned>>

(* end_flush, which a guard calls. *)
(* Mutant: end_flush is called, but not by a guard. *)
EndFlushNoGuard ==
  /\ \/ On("external")
     \/ On("single") /\ (panicking \/ Top.who = None)
  /\ depth' = IF panicking THEN depth ELSE depth - 1
  /\ IF depth = 1
     THEN stack' = WithCallback(Retop(Guarding("ended"))) /\ panicking' = FALSE
     ELSE stack' = Pop /\ panicking' = (panicking /\ Len(stack) > 1)
  /\ UNCHANGED <<queue, marks, guard, abandoned>>

EndFlush ==
  /\ \/ On("external")
     \/ On("single") /\ (panicking \/ Top.who = None)
  /\ depth' = depth - 1
  /\ IF depth = 1
     THEN stack' = WithCallback(Retop(Guarding("ended"))) /\ panicking' = FALSE
     ELSE stack' = Pop /\ panicking' = (panicking /\ Len(stack) > 1)
  /\ UNCHANGED <<queue, marks, guard, abandoned>>

FlushEnded ==
  /\ ~panicking /\ On("ended")
  /\ Leave
  /\ UNCHANGED <<queue, depth, marks, guard, abandoned>>

-----------------------------------------------------------------------------
(* Closures return or panic.                                               *)

Return ==
  /\ ~panicking /\ (On("job") \/ On("callback"))
  /\ stack' = Pop
  /\ UNCHANGED <<queue, depth, marks, guard, panicking, abandoned>>

BodyReturn ==
  /\ ~panicking /\ On("body")
  /\ IF Top.who \in rerun THEN Schedule(Top.who) ELSE UNCHANGED <<queue, latched, held>>
  /\ rerun' = rerun \ {Top.who}
  /\ stack' = Pop
  /\ UNCHANGED <<depth, dirty, guard, panicking, abandoned>>

Panic ==
  /\ ~panicking /\ Top.kind \in Panics
  /\ panicking' = TRUE
  /\ UNCHANGED <<queue, depth, marks, guard, stack, abandoned>>

(* emit_from_drop swallows a second panic. *)
UnwindCallback ==
  /\ panicking /\ On("callback")
  /\ stack' = Pop
  /\ panicking' = ~Pop[Len(Pop)].unwinding
  /\ UNCHANGED <<queue, depth, marks, guard, abandoned>>

UnwindFrame ==
  /\ panicking /\ Top.kind \in {"opening", "closing", "ended", "job", "body"}
  /\ stack' = Pop
  /\ panicking' = (Len(stack) > 1)
  /\ abandoned' = IF Top.kind \in {"opening", "closing"} THEN TRUE ELSE abandoned
  /\ UNCHANGED <<queue, depth, marks, guard>>

-----------------------------------------------------------------------------
Init ==
  /\ pending = <<>> /\ armed = FALSE /\ microtasks = 0
  /\ depth = 0
  /\ dirty = {} /\ latched = {} /\ held = {} /\ rerun = {}
  /\ counted = {} /\ runs = [e \in Effects |-> 0]
  /\ stack = <<>> /\ panicking = FALSE
  /\ ran = [e \in Effects |-> 0]
  /\ abandoned = FALSE

(* Steps the library takes by itself, and returns of closures.              *)
Continue ==
  \/ EnterLoop \/ RunJob \/ CloseDrain \/ FinishDrain
  \/ RunSingle \/ EndFlush \/ FlushEnded
  \/ Return \/ BodyReturn \/ UnwindCallback \/ UnwindFrame

Next ==
  \/ \E j \in Jobs : ScheduleJob(j)
  \/ \E e \in Effects : Invalidate(e) \/ RunHeld(e)
  \/ FlushNow \/ Microtask \/ ExternalFlush
  \/ Panic
  \/ Continue

Spec == Init /\ [][Next]_vars

(* The runtime gets to its microtasks after a turn, and closures return: at *)
(* each depth where one can open flushes, it does not do so for ever.       *)
Fairness ==
  /\ WF_vars(Continue)
  /\ \A d \in 1 .. MaxStack - 1 : SF_vars(Len(stack) = d /\ Continue)
  /\ SF_vars(Microtask)
FairSpec == Spec /\ Fairness

-----------------------------------------------------------------------------
(* Correctness.                                                            *)

(* Every variable keeps its type. *)
TypeOK ==
  /\ pending \in Seq(Jobs \cup Queued)
  /\ armed \in BOOLEAN /\ microtasks \in Nat
  /\ depth \in Nat
  /\ dirty \subseteq Effects /\ latched \subseteq Effects
  /\ held \subseteq Held /\ rerun \subseteq Effects
  /\ counted \subseteq Effects
  /\ runs \in [Effects -> Nat]
  /\ stack \in Seq(Frames)
  /\ panicking \in BOOLEAN
  /\ panicking => ~Idle
  /\ ran \in [Effects -> Nat]
  /\ abandoned \in BOOLEAN

Flushing == \E i \in DOMAIN stack : stack[i].kind \in {"opening", "drain", "closing"}

(* Queued jobs are never stalled: a microtask is on its way, or a flush on  *)
(* the stack will get to them or hand them to one.  The exception: the last *)
(* flush was broken off by a callback that panicked while it opened or      *)
(* closed, and left the flag set (reactor.rs:1921, 1957).                   *)
NoStalledJobs == pending # <<>> => microtasks > 0 \/ Flushing \/ abandoned

(* flush_depth counts the flushes on the stack, whatever unwound: a reactor *)
(* that believes itself in a flush for ever would never start a new drain.  *)
DepthMatches ==
  depth = Cardinality({i \in DOMAIN stack :
                         stack[i].kind \in {"drain", "external", "single"}})

(* The guard really limits the runs of an effect in one outermost flush,    *)
(* however many flushes nest inside it.                                     *)
RunsAreBounded == \A e \in Effects : ran[e] <= MaxRuns

(* ... and it only fires at an effect that has used up its runs since the   *)
(* outermost flush began, never because of what earlier drains counted.     *)
DivergenceIsReal ==
  [][ \A e \in Effects : runs'[e] > runs[e] /\ runs'[e] > MaxRuns => ran[e] >= MaxRuns ]_vars

(* A job in the queue is run in the end, also when jobs before it panic,    *)
(* with the same exception.                                                 *)
JobsRun == \A j \in Jobs : j \in InSequence(pending) ~> HasFrame("job", j) \/ abandoned

(* Flushes return, though effects may go on invalidating each other for     *)
(* ever: the divergence guard is what ends them, unless jobs go on being    *)
(* scheduled for ever.                                                      *)
FlushReturns == []<>Idle \/ []<><<\E j \in Jobs : ScheduleJob(j)>>_vars
=============================================================================
