# adaptite in TLA+

A model of [adaptite](../src/README.md), a fine-grained reactivity crate, at the
commit under `src/`: TLA+ modules, TLC configurations that check them on small
instances, and theorems checked by TLAPS. Paths such as `reactor.rs:961` are
below `src/src/`.

The crate is single threaded; nothing here is about data races. What makes it
hard is **re-entrancy**: reading a memo runs closures, a closure reads, writes,
flushes, disposes, creates or panics, and each of these re-enters the library in
the middle of what it was doing. All modules but `Resource` and the abstract
`Announcer` therefore keep the **call stack as a variable**. A step is one operation of the
user closure on top of the stack, or one step the library code on top of it takes
between two calls of user code. A panic is a flag that unwinds the stack frame by
frame through the guards (`Drop` impls, `catch_unwind`) the code puts there.
Closures are not modelled by what they compute but by everything they may do.

## 1. The system

| Part | State it keeps | Operations | Interacts with |
|---|---|---|---|
| **Reactor graph core** (`reactor.rs`) | node metadata and versions, the two edge maps `dependencies` and `dependents`, the computation stack | observe, clear, dispose, trigger, mark_dependents, refresh_node, dependencies_changed, cycle check, run_in_context | calls `ObserverHook`s of thunks and effects; they call back |
| **Thunk, Memo** (`thunk.rs`) | `State` (Clean, Check, Dirty), cached value, last comparison | read, verify, recompute, compare, drop; `DirtyOnUnwind` on a panic | reads observe through the reactor; `mark_computed` passes marks on |
| **Signal, Source** (`signal.rs`, `source.rs`) | a value; a version in the reactor | get, set, update, notify | every write triggers the reactor |
| **Effect, EffectRun, EffectScheduler** (`effect.rs`) | state, latch (`scheduled`), `rerun_after_current`, `disposed`, divergence counters | schedule, verify, tear down, run, defer, dispose, discard a run; `RecoverOnUnwind`, `UnhookOnUnwind`, error boundary | queued as jobs, or handed to a consumer's lane |
| **Job queue and flushes** (`reactor.rs`) | pending jobs, `flush_scheduled`, `flush_depth`, drain epoch | schedule, flush_now, microtask, external_flush, `EffectRun::run`, guards | runite's microtasks; diagnostic callbacks in the middle |
| **Flush diagnostics** (`reactor.rs`, `stats.rs`) | subscribers, epochs, `FlushAccounting` slots | subscribe, unsubscribe, FlushStarted, FlushFinished | opened and closed by flushes |
| **Ownership** (`scope.rs`, `ownership.rs`) | the tree of `OwnerFrame`s with cleanups and children, `OWNER_STACK`, gauges | scope, scope_catch, run_in, unowned, on_cleanup, adopt, sweep, reset, dispose | effects are owned and own; cleanups are user code |
| **Event, Subscription** (`event.rs`) | subscriber list, per-`on` queue | emit, subscribe, on, unsubscribe, drain | `on` is an immediate subscriber plus an effect |
| **Resource** (`resource.rs`) | generation, loading, value, the running task | refetch, fetch, poll, publish, cleanup, dispose | a memo, an effect, runite tasks |
| **Observation hooks** (`source.rs`, `reactor.rs:1553-1641`) | per hooked source: what is the case, what was delivered, whether a job is queued, whether it was cancelled | register, note a change, the job that compares and calls, unregister | observing, clearing and disposing note changes; the job runs in a flush |
| **Default reactor, EnterGuard, untrack** (`reactor.rs:26-172, 399-566`) | thread locals: the default (weak), the anchor (strong), the untracked depth, the running reactor | new, current, enter, untrack, and their guards | every ambient constructor, every read |
| **watch, writable, observables** (`watch.rs`, `writable.rs`, `observable.rs`) | a memo, an effect and the previous value; memos with a setter; handles with or without erasure | watch, map, erase, writable, set | built from memos, effects and `untrack`, over several reactors |
| **Statistics and inspection** (`stats.rs`, `inspect.rs`) | gauges of live nodes, edges, observed sources, queued effects | graph_stats, observers_of, dependencies_of, is_observed | every operation that changes the graph moves them |
| **Diagnostic events** (`diagnostics.rs`) | subscribers | NodeCreated and NodeDisposed, Started and Finished of computations, runs, flushes | emitted by every operation, also by guards in an unwind |
| node ids, crate root, runite | see section 8 | | |

What makes each part correct, and what is hard about it:

* *Graph core.* A cache hit is never stale; a running computation sees one moment
  (no glitches); a closure runs only if something it read changed; a write marks
  everything below it; the edge maps mirror each other; no closure is entered
  twice. Hard because versions are copied, user code runs, and the copies are
  compared afterwards; and because a node that is already marked passes no further
  marks on, so one broken link strands everything below it.
* *Effects.* An effect at rest is up to date; a run is queued at most once; a run
  that comes while the effect runs is owed and paid. Hard because latch, mark and
  queue entry are changed in four places and every one of them can unwind.
* *Flushes.* No job stalls; `flush_depth` is exact; a drain that feeds itself ends,
  and only such a drain; a flush announced is a flush finished. Hard because
  flushes nest, join, and call back while half open.
* *Ownership.* Every cleanup runs once; a child dies with its owner; gauges agree;
  what teardown creates belongs to nobody. Hard because cleanups dispose, create
  and panic, also while the thread is already unwinding.
* *Events.* Each value reaches each subscriber once. Hard because subscribers emit,
  flush and unsubscribe inside an emission.
* *Values.* A clean node has the value its closure would compute. Hard because
  comparators and `with` closures are user code that runs while a cell is borrowed
  and while a node is already clean.
* *Hooks.* A source's hooks are called alternately, with the truth, and in the end
  say what is. Hard because the news travels in a job that others overtake.
* *Contexts.* A read is recorded for the innermost computation or for nobody; an
  entered reactor is the default. Hard because guards of four kinds nest in each
  other and unwind, and because the default is weak.
* *watch.* The handler misses no change and gets the right previous value. Hard
  because it may write what it watches, flush, dispose and panic.
* *Statistics and diagnostics.* Counters agree with the maps, spans come in pairs.
  Hard because a dozen operations move them, some for nodes that are already gone.
* *Resource.* The newest fetch wins, `loading` says what is, the value settles.
  Hard because a future may supersede or cancel itself in its own last poll.

## 2. The modules

`PROJECT.json` maps each definition to its lines.

| Module | Models | Instances |
|---|---|---|
| `ReactiveGraph` | the graph core, thunks, memos, signals, effects and their lanes | `MCCyclic` |
| `AcyclicGraph` | the same with closures that respect a rank | `MCGraph` |
| `ReactiveGraphProofs` | theorems about `ReactiveGraph` (any graph) and about `AcyclicGraph` | |
| `Cells` | the values in signals, thunks and memos, borrows, comparators | `MCCells` |
| `CellsProofs` | theorems about `Cells` | |
| `Flush` | job queue, flushes, divergence guard | `MCFlush` |
| `FlushProofs` | theorems about `Flush` | |
| `FlushSpans` | operations: subscriptions, spans, flush epochs, totals | composed by `Observation` |
| `Announcer` | abstract: what a party is told | refined by `Observation` |
| `Observation` | hooks, graph statistics, inspection, spans of nodes, runs and flushes | `MCObservation` |
| `ObservationProofs` | theorems about `Observation` | |
| `Contexts` | operations: default reactor, enter, untrack, observer stacks of several reactors | composed by `Watch` |
| `Views` | operations: `map`, `writable`, erased handles; extends `Contexts` | composed by `Watch` |
| `Watch` | one watch and the user code around it; extends `Views` | `MCWatch` |
| `WatchProofs` | theorems about `Watch`, `Views` and `Contexts` | |
| `Ownership` | owner frames, teardown, boundaries, gauges | `MCOwnership` |
| `OwnershipProofs` | theorems about `Ownership` | |
| `Events` | one event and its subscriptions | `MCEvents` |
| `EventsProofs` | theorems about `Events` | |
| `Resource` | one resource | `MCResource` |
| `ResourceProofs` | theorems about `Resource` | |

The modules are views of one program. Each models the parts it shares with
another by what it needs of them: `Flush` reduces staleness to "invalidated",
`ReactiveGraph` reduces the queue to "some run of `e` is pending", `Ownership` lets
a live effect run wherever user code may flush, `Events`, `Resource` and `Watch`
keep only the mark, the latch and the debt of their driving effect, `Observation`
has a graph of two layers, and only `Cells` has values.

Operators whose comment starts with *Mutant* are plausible mistakes in the
definition that follows them. Each property of a passing run is violated by one of
them put in that definition's place (`PROJECT.json`, "mutants").

### ReactiveGraph

State: `registered` (what the reactor has metadata for), `version`, `dependencies`
and `dependents`, `state`, `disposed`, `scheduled` (the latch), `lane` (how many
queued runs an effect has), `rerun`, `stack`, `panicking`, and the history variable
`abandoned` (section 7, items 3 and 4). The frames of the stack
are a verification in `refresh_node` (with the edges it copied and not yet
compared), a compute closure, an effect's cleanups, an effect's body, and a dispose
that runs cleanups.

* `Write`, `ReadSignal`, `ReadCycle`, `ReadClean`, `ReadStale`: what closures and the
  host do. A read is a hit, starts a refresh, or panics with a cycle.
* `VerifyRefresh`, `VerifySame`, `VerifyChanged…`, `VerifyUnchanged…`,
  `VerifyCycle`: the loop of `dependencies_changed`, one dependency at a time.
* `ComputeReturn` chooses whether the comparator finds a change (a thunk always
  does); `TeardownReturn`, `BodyReturn` (with the deferred rerun), `DisposeReturn`.
* `RunReady`: a lane runs an effect: nothing, deferred, stale or to be verified.
  `Dispose`, `Discard` (an `EffectRun` dropped), `DropHandle`.
* `Panic`, `ComparatorPanic`, `UnwindComputed`, `UnwindEffect`, `BoundaryCatch`,
  `UnwindDispose`: the guards.

`Env` names the unusual things closures do in an instance (`nested_flush`,
`dispose_running`, `panic_body`, …), so each run says exactly what it admits.

Abstractions: all nodes exist in `Init`, observers Dirty and effects latched, which
is the state after their creation. Values are versions. Lanes run in any order (the
reactor's own is FIFO; `Flush` has the order). Versions do not wrap.
Lanes queue: a scheduler that runs the effect inline, which the documentation of
`EffectScheduler` advises against, is not modelled. Nodes with a frame on the
stack are not dropped: their closure holds a handle.

### Flush

State: the FIFO `pending`, `armed` (`flush_scheduled`), `microtasks`, `depth`,
`dirty`/`latched`/`held`/`rerun` per effect, `counted` (the effects counted in the
current drain epoch; an epoch is only ever compared with the current one) with
`runs`, and the stack. A flush is three frames one after the other: *opening*
(FlushStarted is out, the guard does not exist yet), *drain*, *closing* (the guard
after FlushFinished); external flushes and lone runs are one before and one after
their guard. Diagnostic callbacks are frames: they may queue jobs and panic, not
flush. `ran` is a history variable that counts bodies since the outermost flush
began; `abandoned` remembers that a callback's panic has broken off a flush half
open (section 7, item 7) until a flush next leaves the queue in order.

### Cells

State: `value` (the `RefCell`s), `version`, `state`, `seen` (the version of its one
input a computed node has read: its edge) and the stack. A frame is a borrow where
the code holds one: `Borrows` says whose cell is borrowed, and how. `with`, `update`
and the comparisons of `set` and of memos are user code that runs inside those
frames, so it may write, read or refresh the node that is borrowed; where the
`RefCell` would refuse, the step panics. Closures of computed nodes are functions
given in the instance, so that a property can say what a value ought to be, and no
node is made of itself: `ReactiveGraph` has cyclic reads, which panic.

A read, a computation and a verification need another node: they look at its state
once (`RefreshWanted`; `asked` in their frame) and then use it in whatever state that
one refresh has left it (`Lend`, `Compute`, `Verified`), as `thunk.rs:376, 473` and
`reactor.rs:996` do. A comparator in between may mark it again.
`lost`, `behind` and `torn` are history: they name what the exceptions of
`CleanIsCurrent` are about.

### FlushSpans, Observation and Announcer

`FlushSpans` has the operations of flush epochs, `open_flush_epoch`, the
`FlushAccounting` slots, and of what each subscriber has heard begin and not end
(`spans`; `witnesses` are those who have listened from the beginning, `orphans` those
who heard the end of a flush they had not heard begin). `Observation` extends it with
nodes that come and go, recorded edges, the FIFO of jobs, latches, the hooks of one
source and the counters of `graph_stats`. Each of its operations is one step that
changes the graph, moves the counters, emits the events and notes the news for the
hooks, as the code does in one go. The job of a hook and a run are frames, in which
everything else can happen. `walked` counts what `graph_stats` does not walk.

`Announcer` is the abstract specification of what hooks promise: called with news
only, with the truth of the moment, and not left wrong for ever. `Observation`
implements it under `truth <- is_observed(Hooked)`, `open <- life[Hooked] # "gone"`.

Abstractions: `Peek` of a computed node runs it if it is stale, its edges are to
sources only, and a write makes stale and latches what is recorded. Callbacks of
subscribers do not panic here (`Flush` has that).

### Contexts, Views and Watch

`Contexts` has the four thread locals, and frames for enter guards, untracked regions
and computations, each with what it will put back; `Alive` is the weak reference of
the default. `Views` adds the memos of `map` and `writable`, made of whatever
observable and on the reactor the handle reports, or on the default one. `Watch`
composes them with a watch on reactor `r`: its memo (`gate`), its effect and the
handler, which is the code in an untracked frame that carries the value. User code on
top of the stack enters, releases and creates reactors, untracks, computes nodes of
its own, makes, reads and sets views, writes, flushes, disposes the watch and panics.

Abstractions: the build has debug assertions (a read across reactors in a computation
panics); guards are dropped in reverse order; whether a view is stale is left open;
the `source` closure of the watch reads but does nothing else; a reset of the watch's
effect has no cleanups of its own to run.

### Ownership

State: `OwnerFrame` (status, parent, children, sweep threshold, cleanups), which
owners have a boundary above them, the gauges, and the stack that also stands for
`OWNER_STACK`. A teardown (`reset`) is a frame that holds the entries it took and
attempts them one by one; `failed` is the captured panic and `unwinding` says that
the teardown started from a drop during another panic, in which case what it
captures is swallowed. `known` and `ran` are history. What a captured environment
drops when a sweep releases a child is the same as a later `Dispose`. The boundary
lookup walks parents as if disposed frames stayed in memory, `RunIn` of a disposed
owner is allowed more often than handles permit: both are over-approximations.

### Events

The subscriber list, a queue per draining subscription, and which drains are
queued, owed and observing. An emission is a frame with the rest of its snapshot, a
drain a frame with the rest of the batch it took. `handed`, `since`, `ahead`, `lost`
and `cut` are history.

### Resource

The memoised input, the driving effect (`dirty`, `due`, `rerun`, `disposed`), the
generation, the registered cleanup, `loading`, `value` and a task per fetch.
runite is external: a task is polled until done or aborted, an abort does not
interrupt a poll, and user code in a poll may write, refetch, flush and dispose.
A source closure that panics is a memo that panics (`ReactiveGraph`).

## 3. The runs

| Run | Instance | Shows |
|---|---|---|
| `reentrant` | a memo, two effects; one writes what both read; nested flushes, cleanups that read, panics in bodies and cleanups; fairness | `RunsAreJustified`, `EffectsCatchUp` |
| `failures` | a thunk under a memo, two effects, one guarded; panics in computations and bodies, untracked reads, disposal, dropped handles | `Coherent`, `NoTornReads`, `NoStrandedEffect`, `WriteQueuesEffects` |
| `unruly` | two memos that read each other, one writes its own input; *every* behaviour of `Env` | `LatchMatchesLane`, `NoReentry` |
| `discard_strands` | a lane that drops runs | violates `WriteQueuesEffects` (section 7) |
| `values` | a signal, a memo that keeps half of it, a memo of that, a thunk of that one; borrows, comparators that do anything | `CleanIsCurrent` |
| `flushing` | a job, an effect and a held effect that invalidate one another, everything panics, callbacks too; fairness | `DepthMatches`, `RunsAreBounded`, `DivergenceIsReal`, `NoStalledJobs`, `JobsRun`, `FlushReturns` |
| `observing` | a hooked source, a computed node, an effect and a subscriber that come and go; 2 flushes; fairness | `HeardInPairs`, `CountedOnce`, `StatsAgree`, `NewsIsQueued`, `HooksAnnounce` |
| `watching` | a watch and views over two reactors | `EnteredIsDefault`, `UntrackedMatches`, `RecordsInnermost`, `PreviousIsTold`, `WatchIsOwed`, `MapsStayHome` |
| `teardown` | two scopes, one catching, an effect, two cleanups, panics, drops, `unowned`, sweep at every adoption | `AccountedOnce`, `LiveIsOwned`, `GaugesMatch`, `DisposedHoldNothing`, `ReportedAfterTeardown`, `NoRunAfterDisposal`, `TeardownIsABarrier` |
| `delivery` | one immediate and two draining subscribers, 3 values, panics | `EachValueOnce`, `QueuedIsDue`, `FirstInEmissionOrder` |
| `emission_order` | one immediate and one draining subscriber | violates `InEmissionOrder` (section 7) |
| `fetching` | two inputs, 4 writes and refetches, panics; fairness | `LoadingMatches`, `OneInFlight`, `LatestWins`, `Settles` |

Deadlock is not checked anywhere: a program whose host stops calling the library,
or that has reached its bounds, may rest. What must happen all the same is said by
the liveness properties.

### The bounds and why they are enough

* `MaxVersion` (2 writes; 3 where runs are discarded): the first write makes things
  stale, the second comes while the first is being worked off, or after a node was left
  in a wrong state and no longer passes marks on.
* A computed node over another, joined at the top by effects that read both ends: the
  smallest graph with two paths of different kind, and with a node (`Check`) that is
  neither a direct dependent nor an effect. Two effects, as one may write what the
  other reads, or dispose it.
* 3 values in `values`: the first memo keeps half of the signal, so that a write may
  or may not change it. A chain of three computed nodes, two writes and user code four
  frames deep: one write makes the chain out of date, the other comes from a comparator
  while something further down is verified or computes; the comparator then reads any
  of the three, and inside that read another comparison may do the same. That reaches a
  reader of a node its refresh left marked, a verification that keeps a node over one,
  a node computed again while it is verified, and the cycle panic of a verification.
* `MaxRuns = 1` instead of 100: the guard compares a counter with the limit and
  nothing depends on its size. `MaxStack = 3` lets a flush nest in a flush that is
  nested in a body; `MaxMicrotasks = 2` allows one microtask to arrive for a queue
  that something else has drained.
* `MaxEpoch = 2` and `MaxStack = 2` in `observing`: a flush in a flush, or one after
  another, with a run or a hook in it; jobs of a drain may go two frames deeper. That
  is deep enough for an external flush that is open while a flush inside it ends.
* `MaxEntered = 2` and `MaxMade = 1` in `watching`: two guards or computations that user
  code has entered are open at a time, around the watch's own frames, inside its handler,
  or one around and one inside; and one view, of either reactor.
* `SweepAt = 1` instead of 8: sweeps happen at every adoption. `MaxStack = 3` in
  `teardown`: closures start at most three deep; the teardowns they cause and the cleanups
  in those come on top of that. One scope is `Kept`: its handle is stored and `run_in`
  enters it later, also after it is disposed.
* 3 values and 6 frames in `delivery`: an emission in a subscriber in an emission,
  or a flush in a handler in a drain, with a value left over.
* 4 writes in `fetching`: five fetches, so that a fetch superseded in its own last
  poll is itself superseded.

### Fairness

* `ReactiveGraph`: `WF(Continue)`, closures return and the library goes on;
  `WF(RunReady(e))`, whoever owns the lane drains it. For the reactor's own lane
  that is runite's guarantee that a microtask queued in a turn runs before the next
  macrotask (`docs/MIGRATING-0.3.md:66-69`); for custom lanes it is the consumer's
  part of the contract. Nobody owes the graph a read or write.
* `Flush`: `WF(Continue)` and `SF(Microtask)`, the same guarantee, strong because a
  microtask only runs between turns. Closures that open flushes over and over would
  make "the code goes on" true without their ever returning; hence also
  `SF(Len(stack) = d /\ Continue)` for each depth `d` at which user code may still open
  something: what is on top at that depth returns in the end. Nothing else limits what
  user code does, which is why `FlushReturns` excepts jobs scheduled for ever.
* `Observation`: the same for each depth, and `SF(Idle /\ OpenDrain)`, the microtask.
* `Resource`: flushes happen, the fetch closure returns, a runnable task is polled,
  and a future polled again and again becomes ready (`SF(Publish)`).

## 4. What the properties mean

Each module with theorems has a type invariant (`TypeOK`; `Types` and `SpanTypes` for
`Observation`), which is proved rather than run. The less obvious properties:

* **Coherent**: a computed node without a mark, and with no refresh of it under
  way, has recorded the current version of all it read, and so on downwards. That
  is what allows `Thunk::with` to answer from the cache without looking.
* **NoTornReads**: whatever a running closure has read so far is of the present
  moment unless the node has been marked meanwhile (then it runs again).
* **WriteQueuesEffects**: in the very step of a write,
  every effect reachable over the *recorded* edges is told, whatever marks were there
  already. It is stated against the closure of the edge relation, not against the
  traversal the code makes, which stops at marked nodes.
* **RunsAreJustified**: without a panic a node only ever becomes dirty when a version it
  recorded is no longer the current one, and after its first run a closure that is not
  dirty starts only then. So what an unchanged memo suppresses stays suppressed, also
  when effects write and flush. Its run has pure computations only, so nothing computes
  a node again while a verification of it holds the versions it copied; `values` has
  that.
* **EffectsCatchUp**: an effect that is out of date runs, and rests on the present state
  of everything it reads. `abandoned` names what the code leaves behind in a panic: an
  effect whose teardown it broke off, or whose body it broke off while a run was owed.
* **CleanIsCurrent**: the statement about values that versions only stand for: what is
  clean has the value its closure makes of what is true now. Its exceptions are
  behaviours of the code (section 7, items 6 and 9 to 11), and each is tied to the step
  that causes it: `lost` are nodes that a panic broke off after their closure, `behind`
  those that became Clean over a node left marked or while one further up was being
  compared, `torn` the signals an update changed and told nobody of. A node leaves
  `lost` when it is computed again, `behind` also when it is verified over an input that
  is Clean, a signal leaves `torn` at its next write. What depends on such a node is
  excepted with it. With any of the three left out of the property TLC finds a
  counterexample, and so it does with either half of `behind` left out of the model.
* **DivergenceIsReal**: the guard panics only at an effect that has really run
  `MaxRuns` times since the outermost flush began; **RunsAreBounded** is the other
  direction.
* **FlushReturns**: either the stack is empty again and again or somebody goes on
  scheduling jobs for ever. Effects that feed each other do not keep it from being
  empty: the guard ends them.
* **HeardInPairs**: what a subscriber takes for alive, running or flushing is so, for
  one that has listened from the beginning also the other way round (`TakenForReal`), and
  it hears no end of a flush whose beginning it did not hear. For other spans the second
  half is not so (section 7, item 8).
* **CountedOnce**: a unit of work that totals count is in one place, outside of all
  flushes, in one accounting slot or in one report, and the report is the one of the
  innermost flush it was done in, or of the next; it follows one unit, at any moment.
* **StatsAgree**: the counters say what a walk of the maps would.
* **HooksAnnounce**: `Observation` implements `Announcer`, liveness included;
  **NewsIsQueued** is the invariant behind it.
* **EnteredIsDefault**, **UntrackedMatches**, **RecordsInnermost**: what the thread
  locals say is what the nesting of guards says, and a read is recorded for the
  innermost computation of all reactors or for nobody.
* **WatchIsOwed**: while the handler has not been given the current value, the effect
  is queued and not clean, so that its job will look, or is being verified; also while
  the effect runs. The exception (`owed`) is a rerun that was deferred in a handler that
  then panicked (section 7, item 4).
* **MapsStayHome**: the memo of `map` is made where it can read what it maps, whatever
  handles it went through.
* **LiveIsOwned**: a live owner created under another is in its children list or in
  the entries a teardown of it has still to attempt, so a panic in the middle loses
  nobody.
* **DisposedHoldNothing**: nothing is entrusted to an owner after its only teardown,
  whatever its closures go on to create or register, also when `run_in` enters it again.
* **TeardownIsABarrier**: an owner only takes in what its own closure makes, never
  what a teardown makes that happens inside it.
* **FirstInEmissionOrder**: where `InEmissionOrder` fails (section 7) needs an
  immediate subscriber registered earlier; without one the order holds, however many
  flushes the handler makes.

## 5. What is proved

For every value of the constants: any number of nodes, closures, writes, inputs.

**`ReactiveGraphProofs`**, for any graph: none of these four cites an assumption of
`AcyclicGraph`, which the module extends for the theorems after them
* `TypeCorrect`: `Spec => []TypeOK`. The frames on the stack stay well formed
  and a panic is in flight only while there is a frame. `TypeOK` is inductive by
  itself; the work is in the lemmas on what pushing, popping and replacing a frame
  does (`TopType`) and on what `Unhook`, `Trigger`, `StartRefresh` and the unwinding
  actions leave behind.
* `EdgesCorrect`: `Spec => []EdgesAgree`. The two edge maps mirror each other in
  every state, whatever interleaves. The invariant is `TypeOK /\ EdgesAgree`. Every
  change of the maps is one of three operators (`Observe`, `ClearDependencies`,
  `ForgetObservable`), one lemma each. No user code runs between the two halves of such
  a change, so there is no run of this: it is what later theorems rest on.
* `LatchCorrect`: `Spec => []LatchMatchesLane`. `LatchMatchesLane` is inductive, with
  `TypeOK`; every step changes latch and lane in one of five ways (`LatchStep`).
* `NeverReentered`: `Spec => []NoReentry`. `NoReentry` is not inductive: a verification
  turns into a computation, a teardown into a body. `Exclusive` is: above a frame in
  which a node runs or is torn down there is nothing of that node but its disposal. It
  holds because each of the four places that push a frame checks first (`ChecksTell`)
  and a frame below the top does not change.

**`ReactiveGraphProofs`**, for `AcyclicGraph` (`RankAssumption`: a closure only reads nodes
of smaller rank; `PureAssumption`: computed closures have no side effects)
* `CoherentCorrect` (`Coherent`) and `NoTornReadsCorrect` (`NoTornReads`). Neither is
  inductive: a verification trusts the edges it has compared so far, a computation those
  it has read so far, and both go on while other nodes are refreshed. `CoreInv` says what
  every frame on the stack may rely on: a refresh only starts refreshes further down
  (`RankedStack`) and of what the frame below asked for (`AskedFor`); a verification
  still holds the recorded version of what it has to compare and is current with what it
  has compared, a computation and the body of an unmarked effect are current with all
  they have read (`FramesSound`); what a verification is about to compare is fresh
  (`CursorSettled`); edges lead to registered nodes at versions these have had
  (`EdgesInGraph`). The rank is what makes it work: nothing that a refresh does moves a
  version that a frame below has compared already.
* `NoStrandedEffectCorrect` (`NoStrandedEffect`) and `WriteQueuesEffectsCorrect`
  (`WriteQueuesEffects`), if no lane discards runs; `discard_strands` shows that
  both are false otherwise. `Rested` (an unmarked effect is current with all it read) and
  `Owed` (a marked one has its latch set or owes a rerun) are added to `CoreInv`; for the
  write, what the traversal reaches together with what is marked already (`Told`) is closed
  under the recorded edges: the traversal stops at a marked node, but whatever depends on
  that was told when it was marked.
* `RunsAreJustifiedCorrect` (`RunsAreJustified`), from `CoreInv`: the version that made a
  verification give up is not that of a node which is still the same.

**`CellsProofs`**
* `CleanIsCurrentCorrect` (`CleanIsCurrent`), for chains of computed nodes of any length
  and any forest they form. What the property says of a node follows from its parts one
  input at a time (`AtRestBelow`): its edge is the current version of an input that is at
  rest (`CleanInv`), and its value is the closure's of that (`ValueInv`). Neither is
  inductive: between a node's first step of a refresh and its last, user code writes,
  reads and panics. So the invariant (`Inv`) says what frames stand for. What a
  computation is about to store is right unless its input has moved since, if it is the
  innermost of its node (`SettleInv`: a comparator may compute its own memo again); a
  verification's version is not newer than the edge, which only a computation of the
  same node above it takes away (`VerifyInv`); a refresh asks for what its node is made
  of, until some memo's comparator asks for anything it likes (`Chained`).
* The last is why `behind` is where it is. When a node becomes clean while its input is
  still being refreshed below it, there must be a comparator of something further up in
  between (`Chain`), for two nodes are not made of each other: `Comparing` then puts the
  node into `behind`. Without acyclicity this fails, and so does `Truth`, which is a recursive
  function along `Input`: that the recursion defines one (`Recursion`) is proved from
  `CellsAssumption`, with neither an induction theorem nor a bound on the length.
* While a panic unwinds, `SettleInv` and `VerifyInv` are not claimed: no frame that is
  left goes on (`FramesInv`).

**`FlushProofs`**
* `TypeCorrect`, `DepthCorrect` (`DepthMatches`), `BoundedRuns` (`RunsAreBounded`)
  and `RealDivergence` (`DivergenceIsReal`) from one invariant, `IInv`. `Balanced`
  says that the depth counts the guards on the stack and that the stack is well
  nested: a callback is on top and has a caller, what opens or closes a flush calls
  only callbacks, a job or body runs below a guard. That is why code below which
  there is no flush is the host, so that a new drain epoch and the outermost flush
  are the same thing. `Tally` says that the counters of the guard then are the
  counts of what ran, up to the limit. The lemmas `Call`, `Returned` and `Replaced`
  say what a call, a return and a replaced frame do to the shape of a stack.
* `JobsNeverStall` (`NoStalledJobs`). `Attended` is the heart of it: jobs that wait
  have a microtask that is armed, or a flush on the stack, and an unwinding that meets a
  flush half open, whose guard does not exist yet, is what sets `abandoned`.
  TLC has checked `IInv` on the instance of `flushing`.

**`OwnershipProofs`**
* `TypeCorrect`, `ReportedAfterTeardownCorrect` (`ReportedAfterTeardown`),
  `NoRunAfterDisposalCorrect` (`NoRunAfterDisposal`) and `TeardownIsABarrierCorrect`
  (`TeardownIsABarrier`) from `OwnedInv`. `StackInv` is its heart: a scope on the stack is
  live and sits right above the owner that will adopt it, a teardown is of something
  disposed or of an effect about to run again, and while an effect is torn down it neither
  runs nor is reported. `PushFits` says what a frame must be to be pushed; every action
  then is a push, a pop or a replaced top, after a change of the tree that only makes
  owners older (`Aged`).
* `DisposedHoldNothingCorrect` (`DisposedHoldNothing`): only live owners hold anything
  (`OnlyLiveHold`), for the owner that takes something in has a frame on the stack and
  so was created (`FramesExist`), and `adopt` and `add_cleanup` see whether it is disposed.
* `LiveIsOwnedCorrect` (`LiveIsOwned`). Not inductive, since a scope is on its way from
  the stack into its parent's list when its closure returns: `AllOwned` counts the three
  places in which an owner may be, `ListedAreClosed` makes sure that it is not in two.
* `GaugesMatchCorrect` (`GaugesMatch`) and `AccountedOnceCorrect` (`AccountedOnce`), from
  `GaugesCount` and `CountedOnce`, which also say that what is counted is finite: that is
  why no `saturating_sub` ever saturates. The lemmas `RowCounts` and `SpotsReplaced`
  say how a count over all lists changes when one list does.

**`EventsProofs`**
* `QueuedIsDueCorrect` (`QueuedIsDue`) from `EventsInv`: the registry is what is
  subscribed, each once (`Registered`), a subscription has one drain on the stack at most
  (`StackOnce`), and what is in a queue has a drain queued, a deferred rerun of the drain
  under way, or an emission that has not notified the drain yet (`Owed`).
* `EachValueOnceCorrect` (`EachValueOnce`): `Once` adds up where a value can be, and also
  says that no other value is anywhere, without which a step that hands one over could
  not be shown to hand over a new one.
* `FirstInEmissionOrderCorrect` (`FirstInEmissionOrder`): in `Fits` the places of a
  subscription's values are in order one after the other, `LastCall` says that an
  emission that has it still to call is on top and is the latest. This is where the
  immediate subscriber of `emission_order` would be in the way.

**`WatchProofs`**
* `EnteredIsDefaultCorrect`, `UntrackedMatchesCorrect` and `RecordsInnermostCorrect` (the
  properties of those names) from `ContextInv`: the thread locals are what the innermost
  frame of each kind says, and what a frame will put back is what the innermost one
  around it says. The depth of untracked regions has no such frame, as computations
  reset it and put it back: `DepthFits` asks for a trace of depths, one for each prefix
  of the stack.
* `MapsStayHomeCorrect` (`MapsStayHome`): a mapped memo is on the reactor of what it maps
  (`MappedAtHome`), which erasure and the default do not change.
* `PreviousIsToldCorrect` (`PreviousIsTold`) and `WatchIsOwedCorrect` (`WatchIsOwed`) from
  `WatchInv`: which frames of the watch can lie over which (`InPlace`), that handlers on
  the stack were told what was told last (`HandlersTold`), that an unmarked gate has the
  present value (`MemoFits`), that the effect depends on what it was told
  (`DependsOnTold`) and that one that is behind is queued or owed (`BehindIsOwed`).

**`ObservationProofs`**
* `NewsQueued` (`NewsIsQueued`), and `HooksImplementAnnouncer`: the initial states of
  `Observation` are initial states of `Announcer` under the refinement mapping, and every
  step is a step of it or a stutter. The invariant is `Types /\ HooksInv`; `HooksInv`
  ties the record of the hooks (`observed`, `delivered`, `queued`) to the edges, to what
  was told and to the place of the job in the queue. What makes the proof short is that
  every step of the many is one of five as far as the hooks are concerned
  (`NextIsHookStep`): nothing happens, news is noted, the source goes, a job finds
  nothing to say, or the hook is called; one lemma per action says which. The liveness
  half of `Announcer` is for TLC (`HooksAnnounce`).
* `StatsCorrect` (`StatsAgree`), with the finiteness of what is counted (`Countable`).
* `TakenForRealCorrect`, `HeardInPairsCorrect` (`HeardInPairs`) and `CountedOnceCorrect`
  (`CountedOnce`). Again every step is one of a few (`NextIsSpanStep`). `Shape` is what
  they share: epochs grow along the stack, the external flush is the one whose epoch the
  reactor remembers, and the slots are those of the innermost flushes (`SlotsInv`), so
  that closing a flush closes its own slot. `TakenForReal` adds that a flush is heard
  of only with a slot and a run only if its frame noted so (`HeardInv`). `HeardInPairs`
  holds **for one subscriber** (`AloneInv`: whoever is subscribed has heard every
  slot begin); with two it is false (section 7, item 8), which is why the theorem assumes
  it and `TakenForReal` is proved by itself without. `CountInv` lists the places of the
  followed unit: nowhere, outside, in the slot of its flush, reported by it.

**`ResourceProofs`**
* `TypeCorrect`, `NewestInFlight` (`OneInFlight`), `LoadingCorrect`
  (`LoadingMatches`) and `LatestPublishes` (`LatestWins`). None is inductive alone.
  `IInv` adds `Budget` (a fetch only starts for a first run, a change of input or a
  refetch, so there are never more than `MaxWrites + 1`), `InFlightHasCleanup` (the
  running task is the one whose cleanup is registered, so whoever runs the cleanup
  aborts it), `FetchClosure` (inside the fetch closure there is no cleanup and the
  resource is loading) and `Disposal` (a disposed resource has no queued run and no
  cleanup). TLC has checked `IInv` on the instance of `fetching`.

Every inductive invariant was checked by TLC on the instance of its run before it was
proved. A set of positions of a stack has a largest member because strict inclusion is
well-founded on finite sets (the library's `WFMin`); finite sets are counted with its
theorems on cardinality. Nothing is assumed of the size of an instance: `MaxStack`,
`MaxVersion` and the other bounds are any naturals.

Assumptions: the named `ASSUME`s, which TLC evaluates in every run: the sets of nodes
are disjoint, `None` is neither a node nor a number, closures read and write what
is of the right kind, bounds are naturals, `Effects` of `Observation` is finite, the
parts of a watch are on one reactor. Only coherence and what follows it use `RankAssumption`
and `PureAssumption`; `CellsAssumption` says that a set of computed nodes always has one
whose input is outside it, which is to say that no node is made of itself. Three theorems have a hypothesis of their own, which is named above and
which the run of the property satisfies: no discarded runs, one subscriber.

**Only model-checked**: what is out of the prover's reach, liveness (`EffectsCatchUp`,
`JobsRun`, `FlushReturns`, `Settles`) and the fairness in `HooksAnnounce`. Every safety
invariant and every action property of a passing run is a theorem.

## 6. Hazards

`PROJECT.json` lists what is hard to test in this code, at its line, with the
properties that would catch it. Entries without a property say why.

## 7. Known disagreements between the code and its documentation

The first two are runs. The others are exceptions that a property names, so that a run
shows that nothing else goes wrong: TLC finds each of them when the exception is taken
out. Where a behaviour of `Env` is named instead, add it to the configuration.

1. **A discarded run strands its effect** (`discard_strands`; `thunk.rs:558`).
   README.md:130-132 and `effect.rs:226-232` say that an effect whose `EffectRun`
   was dropped is scheduled again at its next invalidation. Behind a memo it is
   not: the memo is still marked, and `mark_computed` returns early.
2. **`on` may reorder** (`emission_order`; `event.rs:293`). An immediate subscriber
   registered before an `on` subscription that emits while it is called gets its
   value into the queue first. `event.rs:31-32` promises emission order.
3. *A panicking cleanup strands its effect* (`effect.rs:676`; `abandoned` in
   `reentrant`). The effect is set Clean before its cleanups run and stays so, behind a
   memo that passes no marks on. `tests/teardown.rs:168-171` expects that a later change
   re-runs it; it tests an effect that reads a signal directly.
4. *A panicking body loses the owed run* (`effect.rs:827`; `abandoned` in `reentrant`,
   `owed` in `watching`). The comment at `effect.rs:662-663` says it is re-queued once
   the run finishes.
5. *An effect that disposes itself and reads on leaves edges behind*
   (`reactor.rs:728`; `dispose_running`; compare `effect.rs:388`). `EdgesAgree` holds all
   the same; a source only such edges lead to goes on counting as observed.
6. *A node that panics after its closure has returned stays Clean with its old value*:
   a memo whose comparator panics, and a value that cannot be stored because its cell is
   borrowed (`thunk.rs:741-769, 829-843`; `lost` in `values`; compare
   `diagnostics.rs:124`, and `panic_compare` in `ReactiveGraph`).
7. *A panicking FlushStarted callback stalls the queue* (`reactor.rs:1921`;
   `NoStalledJobs` without `abandoned`), and the start is never finished
   (`reactor.rs:1927`): the guard does not exist yet. `docs/diagnostics.md:217-219`
   says remaining jobs get a fresh flush and a pair always closes; `:142-143` tells
   callbacks not to panic.
8. *A second subscriber hears a finish without its start* (`reactor.rs:1953`; two
   `Subscribers` in `observing`). `CHANGELOG.md:341-347` says pairing is unconditional;
   the computed and effect spans have the same gap, against the "Always paired" of
   `diagnostics.rs`.
9. *A comparator that reads what depends on its memo leaves that Clean and stale*
   (`thunk.rs:836`; `behind` in `values`): the memo is Clean with its old value and version
   while it compares, so the dependent records both. The comment at `thunk.rs:831-833`
   provides for comparators that read; `inspect.rs:27` calls Clean "Up to date."
10. *A comparator that writes what its own memo is made of leaves whoever asked for the
    memo Clean and stale* (`thunk.rs:376, 473`, `reactor.rs:996-1002`; `behind` in
    `values`). The write marks the memo again, but a node is refreshed once and then used:
    the reader records the memo's version and ends Clean (or is verified and set Clean,
    `thunk.rs:705, 791`) over a memo that is Dirty and passes no further marks on.
    `thunk.rs:400-401` says that the node is brought up to date before `f` runs, and
    `inspect.rs:27` calls Clean "Up to date." (`thunk.rs:817-819` calls such a write from
    a closure discouraged and re-marks the memo for it; the reader is not thought of.)
11. *An update that changes the value and then panics tells nobody* (`signal.rs:195`;
    `torn` in `values`).
12. *A watch may hand over an unchanged value* (`watch.rs:10-13` says it does not): set,
    a source closure that panics in the verification, set back, flush. `RecoverOnUnwind`
    has marked the effect Dirty, and a dirty effect does not compare.

Not contradicted by any document, but worth knowing: an `Owner` handle captured by a
scope whose closure panics keeps the frame and all it owns alive; a cleanup that
panics while an error boundary disposes the effect keeps the handler from being
called; a resource whose fetch closure or future panicked stays `loading`; a future
that disposes its resource in its own last poll still publishes; a `source` closure of
a watch that panics in the effect's own run leaves the watch without an edge, so that no
write wakes it; a release build records a read of another reactor for the computation
that runs outermost there (`RecordsInnermost` is about debug builds, its mutant is the
release build); disposing an observed source calls no `on_unwatch`.

## 8. What is not modelled

* Monotonic counters and high-water marks of `stats.rs`, the records of
  `graph_snapshot`, the pruning of the reactor registry, tracing: they count or copy
  what the model has, and nothing depends on them.
* What diagnostic events carry: names, durations, the causes of invalidations.
* Effect schedulers that run the effect inside `schedule()`, which their
  documentation advises against.
* Release builds of reads across reactors; guards dropped out of order.
* Node ids (a counter) and the crate root (re-exports). runite is external: microtasks
  and tasks are actions of `Flush`, `Observation` and `Resource`.
* The ownership audit registry and the monotonic counters; only the gauges.
* Version wrap-around (2^64 writes), memory exhaustion.

## 9. Plan

Done: the core (`ReactiveGraph`, `Cells`), its queue (`Flush`), what watches it
(`Observation`, refining `Announcer`), contexts and what is derived (`Contexts`, `Views`,
`Watch`), `Ownership`, `Events`, `Resource`, and the theorems of section 5. From here:

1. An abstract specification of the graph, "an effect sees every last write", and
   `ReactiveGraph` shown to implement it.
