----------------------------- MODULE Observation -----------------------------
(***************************************************************************)
(* Who watches the graph, and what it is told: the hooks of                *)
(* source_with_hooks, the diagnostic subscribers, and whoever asks for     *)
(* graph_stats.  Nodes come and go, computations record edges, writes      *)
(* queue effects, flushes nest; each of these moves counters, opens and    *)
(* closes what subscribers hear, and may be news for a hook, which hears   *)
(* it from a job later on.                                                 *)
(*                                                                         *)
(* The graph has two layers: closures read sources, and only peek at       *)
(* computed nodes.  What marks do between computed nodes is ReactiveGraph. *)
(***************************************************************************)
EXTENDS FlushSpans

CONSTANTS
  Sources, Computed, Effects,
  Hooked  \* the source with hooks

ASSUME ObservationAssumption ==
  /\ Hooked \in Sources
  /\ None \notin Sources \cup Computed \cup Effects
  /\ Sources \cap (Computed \cup Effects) = {}
  /\ Computed \cap Effects = {}
  /\ IsFiniteSet(Effects)

VARIABLES
  life,      \* node metadata: "unborn", "live", "gone"
  edges,     \* <<observer, observed>>: dependencies and dependents
  pending,   \* pending_jobs: an effect's run or a source's hook, by node
  latched,   \* effects with a run pending
  rerun,     \* effects with a deferred run
  stale,     \* State::Dirty
  hooks,     \* ObservationHooks
  told,      \* history: what the hooks said last
  calls,     \* history: how often one was called, modulo 2
  gauges,    \* GraphCounters
  panicking

Observers == Computed \cup Effects
Nodes == Sources \cup Observers

nodes == <<life, edges, stale>>
queue == <<pending, latched, rerun>>
announced == <<hooks, told, calls>>
vars == <<spanVars, nodes, queue, announced, gauges, panicking>>

-----------------------------------------------------------------------------
(* Inspection.                                                             *)

Kinds == {"source", "thunk", "effect"}
node_kind(n) ==
  CASE n \in Sources -> "source" [] n \in Computed -> "thunk" [] n \in Effects -> "effect"

observers_of(x) == {o \in Observers : <<o, x>> \in edges}
dependencies_of(o) == {x \in Sources : <<o, x>> \in edges}
is_observed(x) == observers_of(x) # {}

(* What walking the maps of the reactor counts. *)
walked ==
  [live |-> [k \in Kinds |-> Cardinality({n \in Nodes : life[n] = "live" /\ node_kind(n) = k})],
   edges |-> Cardinality(edges),
   observed |-> Cardinality({x \in Sources : is_observed(x)}),
   queued |-> Cardinality(latched)]

(* Reactor::graph_stats walks nothing. *)
graph_stats == gauges

(* GraphCounters: its helpers saturate. *)
Minus(a, b) == IF a > b THEN a - b ELSE 0
node_created(g, n) == [g EXCEPT !.live[node_kind(n)] = @ + 1]
node_disposed(g, n) == [g EXCEPT !.live[node_kind(n)] = Minus(@, 1)]
edge_added(g) == [g EXCEPT !.edges = @ + 1]
edges_removed(g, k) == [g EXCEPT !.edges = Minus(@, k)]
effects_queued(g, E) == [g EXCEPT !.queued = @ + Cardinality(E)]
effects_unqueued(g, E) == [g EXCEPT !.queued = Minus(@, Cardinality(E))]

-----------------------------------------------------------------------------
(* The call stack.                                                         *)

Run(n) == Frame("run", 0, n, subscribed # {})
HookCall == Frame("hook", 0, Hooked, FALSE)
Running(n) == \E i \in DOMAIN stack : stack[i].kind = "run" /\ stack[i].node = n

(* Whom a read is recorded for.  A job a closure flushes is not a computation: *)
(* what a hook reads is recorded for the closure.                              *)
Observer ==
  LET runs == Places({"run"})
  IN IF runs = {} THEN None ELSE stack[Max(runs)].node

NodeSpan(n) == <<"node", n>>
RunSpan(n) == <<"run", n>>

OnTop(kind) == ~Idle /\ Top.kind = kind

(* User code is on top of the stack and does something. *)
UserCode ==
  /\ ~panicking /\ ~OnTop("drain")
  /\ flush_epoch < MaxEpoch
Room == Len(stack) < MaxStack

-----------------------------------------------------------------------------
(* Jobs.                                                                   *)

(* note_observation_change, for every source whose observation became b:    *)
(* most have no hooks.  Mutant: what happens while the job is queued is not  *)
(* noted. *)
NoteOnlyOnce(X, b, jobs) ==
  IF Hooked \in X /\ ~hooks.queued
  THEN /\ hooks' = [hooks EXCEPT !.observed = b, !.queued = TRUE]
       /\ pending' = Append(jobs, Hooked)
  ELSE UNCHANGED hooks /\ pending' = jobs
Note(X, b, jobs) ==
  IF Hooked \in X
  THEN /\ hooks' = [hooks EXCEPT !.observed = b, !.queued = TRUE]
       /\ pending' = IF hooks.queued THEN jobs ELSE Append(jobs, Hooked)
  ELSE UNCHANGED hooks /\ pending' = jobs

(* EffectInner::schedule: one job per latch. *)
Schedule(E) ==
  LET fresh == E \ latched
  IN /\ \E q \in SetToSeqs(fresh) : pending' = pending \o q
     /\ latched' = latched \cup fresh
     /\ gauges' = effects_queued(gauges, fresh)

-----------------------------------------------------------------------------
(* Nodes.                                                                  *)

allocate_node(n) ==
  /\ UserCode
  /\ life[n] = "unborn"
  /\ life' = [life EXCEPT ![n] = "live"]
  /\ Begins(NodeSpan(n))
  /\ UNCHANGED <<subscribed, epochs, stack, witnesses, orphans, reported, edges, rerun,
                 announced, panicking>>

CreateSource(x) ==
  /\ allocate_node(x)
  /\ gauges' = node_created(gauges, x)
  /\ NoWork
  /\ UNCHANGED <<stale, pending, latched>>

(* A thunk or a memo is computed when it is first read. *)
CreateComputed(c) ==
  /\ allocate_node(c)
  /\ gauges' = node_created(gauges, c)
  /\ stale' = stale \cup {c}
  /\ NoWork
  /\ UNCHANGED <<pending, latched>>

(* An effect is queued for its first run. *)
CreateEffect(e) ==
  /\ allocate_node(e)
  /\ gauges' = effects_queued(node_created(gauges, e), {e})
  /\ stale' = stale \cup {e}
  /\ pending' = Append(pending, e) /\ latched' = latched \cup {e}
  /\ Work

(* clear_observer_dependencies, with what else the caller counts in g. *)
ClearDependencies(o, jobs, g) ==
  LET lost == {x \in Sources : observers_of(x) = {o}}
  IN /\ edges' = {e \in edges : e[1] # o}
     /\ gauges' = [edges_removed(g, Cardinality(dependencies_of(o)))
                     EXCEPT !.observed = Minus(@, Cardinality(lost))]
     /\ Note(lost, FALSE, jobs)

(* try_observe. *)
Read(x) ==
  /\ UserCode
  /\ life[x] = "live"
  /\ Observer \in Observers /\ <<Observer, x>> \notin edges
  /\ edges' = edges \cup {<<Observer, x>>}
  /\ gauges' = [edge_added(gauges) EXCEPT !.observed = @ + (IF is_observed(x) THEN 0 ELSE 1)]
  /\ Note(IF is_observed(x) THEN {} ELSE {x}, TRUE, pending)
  /\ Work
  /\ UNCHANGED <<subscribed, epochs, stack, heard, reported, life, stale, latched, rerun,
                 told, calls, panicking>>

(* trigger: marks computed nodes, queues effects. *)
Write(x) ==
  /\ UserCode
  /\ life[x] = "live"
  /\ LET marked == {o \in observers_of(x) : life[o] = "live"}
     IN stale' = stale \cup marked /\ Schedule(marked \cap Effects)
  /\ Work
  /\ UNCHANGED <<subscribed, epochs, stack, heard, reported, life, edges, rerun, announced,
                 panicking>>

(* The start of a run: of a computed node that is peeked at, of an effect. *)
StartRun(n, jobs, g) ==
  /\ stale' = stale \ {n}
  /\ Begins(RunSpan(n))
  /\ ClearDependencies(n, jobs, g)
  /\ stack' = Append(stack, Run(n))
  /\ Work
  /\ UNCHANGED <<subscribed, epochs, witnesses, orphans, reported, life, told, calls, panicking>>

Peek(c) ==
  /\ UserCode /\ Room
  /\ life[c] = "live" /\ c \in stale /\ ~Running(c)
  /\ StartRun(c, pending, gauges)
  /\ UNCHANGED <<latched, rerun>>

(* Reactor::dispose of an observer that is dropped or disposed, perhaps an  *)
(* effect in its own body; a closure that is being computed is held.        *)
DisposeObserver(o) ==
  /\ UserCode
  /\ life[o] = "live"
  /\ o \in Computed => ~Running(o)
  /\ life' = [life EXCEPT ![o] = "gone"]
  /\ stale' = stale \ {o}
  /\ latched' = latched \ {o}
  /\ ClearDependencies(o, pending, effects_unqueued(node_disposed(gauges, o), {o} \cap latched))
  /\ Ends(NodeSpan(o))
  /\ Work
  /\ UNCHANGED <<subscribed, epochs, stack, witnesses, orphans, reported, rerun, told, calls, panicking>>

(* Reactor::dispose of a source.  Mutant: that it was observed is forgotten. *)
DisposeSourceObserved(x) ==
  /\ UserCode
  /\ life[x] = "live"
  /\ life' = [life EXCEPT ![x] = "gone"]
  /\ edges' = {e \in edges : e[2] # x}
  /\ gauges' = edges_removed(node_disposed(gauges, x), Cardinality(observers_of(x)))
  /\ hooks' = [hooks EXCEPT !.cancelled = @ \/ x = Hooked]
  /\ Ends(NodeSpan(x))
  /\ Work
  /\ UNCHANGED <<subscribed, epochs, stack, witnesses, orphans, reported, stale, queue, told, calls,
                 panicking>>
DisposeSource(x) ==
  /\ UserCode
  /\ life[x] = "live"
  /\ life' = [life EXCEPT ![x] = "gone"]
  /\ edges' = {e \in edges : e[2] # x}
  /\ gauges' = [edges_removed(node_disposed(gauges, x), Cardinality(observers_of(x)))
                  EXCEPT !.observed = Minus(@, IF is_observed(x) THEN 1 ELSE 0)]
  /\ hooks' = [hooks EXCEPT !.cancelled = @ \/ x = Hooked]
  /\ Ends(NodeSpan(x))
  /\ Work
  /\ UNCHANGED <<subscribed, epochs, stack, witnesses, orphans, reported, stale, queue, told, calls,
                 panicking>>

-----------------------------------------------------------------------------
(* Subscriptions and flushes.                                              *)

graphVars == <<nodes, queue, announced, gauges>>

Listen(s) ==
  /\ UserCode
  /\ Subscribe(s) \/ Unsubscribe(s)
  /\ UNCHANGED <<graphVars, panicking>>

(* flush_now, and the microtask, which comes when nothing else is running. *)
OpenDrain ==
  /\ ~panicking /\ pending # <<>>
  /\ \/ Idle
     \/ UserCode /\ Room
  /\ PushDrain
  /\ UNCHANGED <<graphVars, panicking>>

OpenExternal ==
  /\ UserCode /\ Room
  /\ PushExternal
  /\ UNCHANGED <<graphVars, panicking>>

CloseFlush ==
  /\ \/ OnTop("external") \/ OnTop("joined")
     \/ OnTop("drain") /\ (panicking \/ pending = <<>>)
  /\ PopFlush
  /\ panicking' = (panicking /\ Len(stack) > 1)
  /\ UNCHANGED graphVars

-----------------------------------------------------------------------------
(* The jobs of a drain.                                                    *)

Draining == ~panicking /\ OnTop("drain") /\ pending # <<>>

(* An effect's run: of one that is gone, deferred, skipped, or started. *)
RunEffect ==
  LET e == Head(pending)
      g == effects_unqueued(gauges, {e} \cap latched)
  IN /\ Draining /\ e \in Effects
     /\ latched' = latched \ {e}
     /\ IF life[e] # "live" \/ Running(e) \/ e \notin stale
        THEN /\ pending' = Tail(pending)
             /\ gauges' = g
             /\ rerun' = IF life[e] = "live" /\ Running(e) THEN rerun \cup {e} ELSE rerun
             /\ IF life[e] = "live" /\ ~Running(e) THEN Work ELSE NoWork
             /\ UNCHANGED <<subscribed, epochs, stack, heard, reported, nodes, announced,
                            panicking>>
        ELSE StartRun(e, Tail(pending), g) /\ UNCHANGED rerun

(* The job of note_observation_change.  Mutant: it tells what it was queued *)
(* for, known already or not. *)
RunHookAlways ==
  /\ Draining /\ Head(pending) = Hooked
  /\ pending' = Tail(pending)
  /\ hooks' = [hooks EXCEPT !.queued = FALSE, !.delivered = hooks.observed]
  /\ IF hooks.cancelled THEN UNCHANGED <<stack, told, calls>>
     ELSE /\ told' = hooks.observed
          /\ calls' = 1 - calls
          /\ stack' = Append(stack, HookCall)
  /\ UNCHANGED <<subscribed, epochs, totals, heard, history, nodes, latched, rerun, gauges,
                 panicking>>
RunHook ==
  /\ Draining /\ Head(pending) = Hooked
  /\ pending' = Tail(pending)
  /\ IF hooks.cancelled \/ hooks.delivered = hooks.observed
     THEN /\ hooks' = [hooks EXCEPT !.queued = FALSE]
          /\ UNCHANGED <<stack, told, calls>>
     ELSE /\ hooks' = [hooks EXCEPT !.queued = FALSE, !.delivered = hooks.observed]
          /\ told' = hooks.observed
          /\ calls' = 1 - calls
          /\ stack' = Append(stack, HookCall)
  /\ UNCHANGED <<subscribed, epochs, totals, heard, history, nodes, latched, rerun, gauges,
                 panicking>>

HookReturn ==
  /\ OnTop("hook")
  /\ stack' = Front(stack)
  /\ panicking' = (panicking /\ Len(stack) > 1)
  /\ UNCHANGED <<subscribed, epochs, totals, heard, history, graphVars>>

(* The guards at the end of a run send what its beginning promised. *)
EndSpan == IF Top.heard THEN Ends(RunSpan(Top.node)) ELSE UNCHANGED spans

FinishRun ==
  LET n == Top.node
      owed == IF n \in rerun /\ life[n] = "live" THEN {n} ELSE {}
  IN /\ ~panicking /\ OnTop("run")
     /\ Schedule(owed)
     /\ rerun' = rerun \ {n}
     /\ EndSpan
     /\ stack' = Front(stack)
     /\ IF n \in Computed \/ owed # {} THEN Work ELSE NoWork
     /\ UNCHANGED <<subscribed, epochs, witnesses, orphans, reported, nodes, announced,
                    panicking>>

(* DirtyOnUnwind: a computed node is stale again; a deferred run stays owed. *)
UnwindRun ==
  /\ panicking /\ OnTop("run")
  /\ stale' = IF Top.node \in Computed THEN stale \cup {Top.node} ELSE stale
  /\ EndSpan
  /\ stack' = Front(stack)
  /\ panicking' = (Len(stack) > 1)
  /\ UNCHANGED <<subscribed, epochs, totals, witnesses, orphans, history, life, edges, queue,
                 announced, gauges>>

(* User code panics. *)
Panic ==
  /\ UserCode /\ ~Idle
  /\ panicking' = TRUE
  /\ UNCHANGED <<spanVars, graphVars>>

-----------------------------------------------------------------------------
Init ==
  /\ SpansInit
  /\ life = [n \in Nodes |-> "unborn"]
  /\ edges = {} /\ stale = {}
  /\ pending = <<>> /\ latched = {} /\ rerun = {}
  /\ hooks = [observed |-> FALSE, delivered |-> FALSE, queued |-> FALSE, cancelled |-> FALSE]
  /\ told = FALSE /\ calls = 0
  /\ gauges = [live |-> [k \in Kinds |-> 0], edges |-> 0, observed |-> 0, queued |-> 0]
  /\ panicking = FALSE

(* The code on top of the stack goes on and in the end returns. *)
Continue == CloseFlush \/ RunEffect \/ RunHook \/ HookReturn \/ FinishRun \/ UnwindRun

Next ==
  \/ \E x \in Sources : CreateSource(x) \/ Read(x) \/ Write(x) \/ DisposeSource(x)
  \/ \E c \in Computed : CreateComputed(c) \/ Peek(c)
  \/ \E e \in Effects : CreateEffect(e)
  \/ \E o \in Observers : DisposeObserver(o)
  \/ \E s \in Subscribers : Listen(s)
  \/ OpenDrain \/ OpenExternal
  \/ Continue
  \/ Panic

(* Every closure returns, at every depth, and the microtask of a queued job *)
(* comes.  Depths deeper than MaxStack are jobs of a drain there.           *)
Fairness ==
  /\ \A d \in 1 .. MaxStack + 2 : SF_vars(Len(stack) = d /\ Continue)
  /\ SF_vars(Idle /\ OpenDrain)

Spec == Init /\ [][Next]_vars /\ Fairness

-----------------------------------------------------------------------------
(* A subscriber hears of what begins and of what ends, in pairs: it takes   *)
(* for alive, running and flushing only what is (everything that is, if it  *)
(* has listened from the beginning), and no flush ends that it did not hear *)
(* begin.  Although spans are closed by guards in an unwind, by whoever     *)
(* opened them with another subscriber, and by epoch numbers others move.   *)
Real ==
  {FlushSpan(stack[i].epoch) : i \in Timed}
    \cup {NodeSpan(n) : n \in {m \in Nodes : life[m] = "live"}}
    \cup {RunSpan(n) : n \in {m \in Observers : Running(m)}}
TakenForReal ==
  /\ \A s \in Subscribers : spans[s] \subseteq Real
  /\ \A s \in witnesses : spans[s] = Real
HeardInPairs == TakenForReal /\ orphans = {}

(* graph_stats never walks the graph and says what a walk would find: the   *)
(* gauges moved by a dozen operations, some of them for nodes that are gone *)
(* already, agree with the maps.                                            *)
StatsAgree == graph_stats = walked

(* If the hooks said last what is not the case, a job is queued that will   *)
(* say what is, however often the observers change before it runs.          *)
NewsIsQueued ==
  life[Hooked] = "live" /\ told # is_observed(Hooked)
    => \E i \in DOMAIN pending : pending[i] = Hooked

(* The hooks of a source keep the promise of an Announcer: called with      *)
(* news only, never twice in a row with the same, always with the truth of  *)
(* the moment, and in the end, as long as the source lives, up to date.     *)
Hooks == INSTANCE Announcer WITH
  truth <- is_observed(Hooked), open <- life[Hooked] # "gone"
HooksAnnounce == Hooks!Spec
=============================================================================
