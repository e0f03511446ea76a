------------------------------ MODULE Resource ------------------------------
(***************************************************************************)
(* adaptite's Resource: an effect that starts a fetch whenever its input   *)
(* changes or a refetch is asked for, and a task per fetch that publishes  *)
(* the result if no newer fetch was started.                               *)
(*                                                                         *)
(* The fetch closure and the futures are user code: they write the source, *)
(* refetch, dispose and flush, so a fetch may be superseded or cancelled   *)
(* from inside its own last poll.  runite is external: it polls a task     *)
(* until it is done or aborted, and an abort does not interrupt a poll.    *)
(***************************************************************************)
EXTENDS Naturals

CONSTANTS
  Inputs,         \* the fetch inputs that the source closure can produce
  NoValue,        \* the resource's None
  MayPanic,       \* whether fetch closures and futures panic
  MaxWrites       \* bound: changes of the source and refetches

ASSUME ResourceAssumption ==
  /\ NoValue \notin Inputs /\ MayPanic \in BOOLEAN
  /\ MaxWrites \in Nat

(* Only the first fetch and those that a write or refetch leads to start.   *)
Fetches == 1 .. MaxWrites + 1

VARIABLES
  source,      \* what the source closure would return now
  input,       \* gated_input: the input of the memo's last recomputation
  stale,       \* the memo is marked: a write of the source reaches no further
  dirty,       \* the effect is marked by a refetch, or has never run
  due,         \* a run of the effect is queued
  rerun,       \* a run came while the effect was running
  disposed,
  generation,  \* the number of the newest fetch
  cleanup,     \* the fetch whose cleanup is registered, or 0
  loading,
  value,       \* the fetch whose result is published
  tasks,       \* tasks[g]: none, running, aborted or done
  inputs,      \* inputs[g]: what fetch g was started with
  fetching,    \* the effect is inside the fetch closure
  polling,     \* the fetch whose task is being polled, or 0
  writes,      \* history: changes of the source and refetches so far
  failed       \* history: the fetches that panicked

effect  == <<stale, dirty, due, rerun, disposed>>
result  == <<loading, value>>
work    == <<generation, cleanup, tasks, inputs>>
control == <<fetching, polling>>
history == <<writes, failed>>
vars    == <<source, input, effect, result, work, control, history>>

Fetch(g, i) == [generation |-> g, input |-> i]

-----------------------------------------------------------------------------
(* User code, in the host, a future or the fetch closure.                  *)

Wrote == writes < MaxWrites /\ writes' = writes + 1

(* A write of the source marks the memo, and with it the effect.  If the    *)
(* memo is marked already, mark_computed passes nothing on.                 *)
WriteSource(i) ==
  /\ Wrote /\ i # source
  /\ source' = i
  /\ stale' = TRUE
  /\ due' = (due \/ (~stale /\ ~disposed))
  /\ UNCHANGED <<input, dirty, rerun, disposed, result, work, control, failed>>

Refetch ==
  /\ Wrote
  /\ IF disposed THEN UNCHANGED <<dirty, due>> ELSE dirty' = TRUE /\ due' = TRUE
  /\ UNCHANGED <<source, input, stale, rerun, disposed, result, work, control, failed>>

(* The registered cleanup: the fetch is aborted, and it is not loading.     *)
CleanUp ==
  IF cleanup = 0 THEN UNCHANGED <<tasks, loading>>
  ELSE /\ loading' = FALSE
       /\ tasks' = [tasks EXCEPT ![cleanup] = IF @ = "running" THEN "aborted" ELSE @]

(* Dropping the last handle, or the owner's teardown. *)
Dispose ==
  /\ ~disposed
  /\ disposed' = TRUE /\ due' = FALSE /\ cleanup' = 0
  /\ CleanUp
  /\ UNCHANGED <<source, input, stale, dirty, rerun, generation, value, inputs, control, history>>

-----------------------------------------------------------------------------
(* A flush gets to the effect.                                             *)

RunDeferred ==
  /\ due /\ fetching
  /\ due' = FALSE /\ rerun' = TRUE
  /\ UNCHANGED <<source, input, stale, dirty, disposed, result, work, control, history>>

(* The effect is not marked, or the memo comes out as it was. *)
RunUnchanged ==
  /\ due /\ ~fetching /\ ~dirty /\ (stale => source = input)
  /\ due' = FALSE /\ stale' = FALSE
  /\ UNCHANGED <<source, input, dirty, rerun, disposed, result, work, control, history>>

(* The last run's cleanup, then the body up to the call of fetch.           *)
StartFetch ==
  /\ due /\ ~fetching /\ (dirty \/ (stale /\ source # input))
  /\ input' = source
  /\ stale' = FALSE /\ dirty' = FALSE /\ due' = FALSE
  /\ generation' = generation + 1 /\ cleanup' = 0
  /\ tasks' = IF cleanup = 0 THEN tasks
              ELSE [tasks EXCEPT ![cleanup] = IF @ = "running" THEN "aborted" ELSE @]
  /\ inputs' = [inputs EXCEPT ![generation'] = source]
  /\ loading' = TRUE /\ fetching' = TRUE
  /\ UNCHANGED <<source, rerun, disposed, value, polling, history>>

(* fetch returns the future, which is spawned; on_cleanup runs the cleanup  *)
(* at once if the effect was disposed meanwhile.                            *)
(* Mutant: it does not. *)
FetchReturnsAnyway ==
  /\ fetching /\ fetching' = FALSE
  /\ tasks' = [tasks EXCEPT ![generation] = "running"]
  /\ cleanup' = generation
  /\ rerun' = FALSE /\ due' = (due \/ (rerun /\ ~disposed))
  /\ UNCHANGED <<source, input, stale, dirty, disposed, generation, inputs, result, polling, history>>

(* Mutant: the deferred run is forgotten. *)
FetchReturnsForgets ==
  /\ fetching /\ fetching' = FALSE
  /\ IF disposed
     THEN /\ tasks' = [tasks EXCEPT ![generation] = "aborted"]
          /\ loading' = FALSE
          /\ UNCHANGED cleanup
     ELSE /\ tasks' = [tasks EXCEPT ![generation] = "running"]
          /\ cleanup' = generation
          /\ UNCHANGED loading
  /\ rerun' = FALSE
  /\ UNCHANGED <<source, input, stale, dirty, due, disposed, generation, value, inputs, polling, history>>

FetchReturns ==
  /\ fetching /\ fetching' = FALSE
  /\ IF disposed
     THEN /\ tasks' = [tasks EXCEPT ![generation] = "aborted"]
          /\ loading' = FALSE
          /\ UNCHANGED cleanup
     ELSE /\ tasks' = [tasks EXCEPT ![generation] = "running"]
          /\ cleanup' = generation
          /\ UNCHANGED loading
  /\ rerun' = FALSE /\ due' = (due \/ (rerun /\ ~disposed))
  /\ UNCHANGED <<source, input, stale, dirty, disposed, generation, value, inputs, polling, history>>

FetchPanics ==
  /\ MayPanic /\ fetching
  /\ fetching' = FALSE
  /\ failed' = failed \cup {generation}
  /\ UNCHANGED <<source, input, effect, result, work, polling, writes>>

-----------------------------------------------------------------------------
(* The runtime polls the tasks.                                            *)

Poll(g) ==
  /\ polling = 0 /\ ~fetching /\ tasks[g] = "running"
  /\ polling' = g
  /\ UNCHANGED <<source, input, effect, result, work, fetching, history>>

PollPending ==
  /\ polling # 0 /\ ~fetching
  /\ polling' = 0
  /\ UNCHANGED <<source, input, effect, result, work, fetching, history>>

(* The future is ready, and the task publishes unless it is superseded.     *)
(* Mutant: it always does. *)
PublishAnyway ==
  /\ polling # 0 /\ ~fetching
  /\ tasks' = [tasks EXCEPT ![polling] = "done"]
  /\ value' = Fetch(polling, inputs[polling])
  /\ loading' = FALSE
  /\ polling' = 0
  /\ UNCHANGED <<source, input, effect, generation, cleanup, inputs, fetching, history>>

Publish ==
  /\ polling # 0 /\ ~fetching
  /\ tasks' = [tasks EXCEPT ![polling] = "done"]
  /\ IF polling = generation
     THEN value' = Fetch(polling, inputs[polling]) /\ loading' = FALSE
     ELSE UNCHANGED result
  /\ polling' = 0
  /\ UNCHANGED <<source, input, effect, generation, cleanup, inputs, fetching, history>>

FuturePanics ==
  /\ MayPanic /\ polling # 0 /\ ~fetching
  /\ tasks' = [tasks EXCEPT ![polling] = "done"]
  /\ failed' = failed \cup {polling}
  /\ polling' = 0
  /\ UNCHANGED <<source, input, effect, generation, cleanup, inputs, result, fetching, writes>>

-----------------------------------------------------------------------------
Init ==
  /\ source \in Inputs /\ input = NoValue
  /\ stale = TRUE /\ dirty = TRUE /\ due = TRUE /\ rerun = FALSE
  /\ disposed = FALSE
  /\ generation = 0 /\ cleanup = 0
  /\ loading = FALSE /\ value = Fetch(0, NoValue)
  /\ tasks = [g \in Fetches |-> "none"] /\ inputs = [g \in Fetches |-> NoValue]
  /\ fetching = FALSE /\ polling = 0
  /\ writes = 0 /\ failed = {}

Run == RunDeferred \/ RunUnchanged \/ StartFetch

Next ==
  \/ \E i \in Inputs : WriteSource(i)
  \/ Refetch \/ Dispose
  \/ Run \/ FetchReturns \/ FetchPanics
  \/ \E g \in Fetches : Poll(g)
  \/ PollPending \/ Publish \/ FuturePanics

Spec == Init /\ [][Next]_vars

(* Flushes happen, the fetch closure returns, and a future that is polled   *)
(* again and again becomes ready.                                           *)
Fairness ==
  /\ WF_vars(Run) /\ WF_vars(FetchReturns)
  /\ WF_vars(\E g \in Fetches : Poll(g)) /\ SF_vars(Publish)
FairSpec == Spec /\ Fairness

-----------------------------------------------------------------------------
(* Correctness.                                                            *)

(* Every variable keeps its type. *)
TypeOK ==
  /\ source \in Inputs /\ input \in Inputs \cup {NoValue}
  /\ {stale, dirty, due, rerun, disposed, loading, fetching} \subseteq BOOLEAN
  /\ generation \in 0 .. MaxWrites + 1 /\ cleanup \in {0, generation}
  /\ value \in [generation : 0 .. generation, input : Inputs \cup {NoValue}]
  /\ tasks \in [Fetches -> {"none", "running", "aborted", "done"}]
  /\ inputs \in [Fetches -> Inputs \cup {NoValue}]
  /\ polling \in 0 .. generation
  /\ writes \in 0 .. MaxWrites /\ failed \subseteq Fetches

(* Whoever looks outside the fetch closure sees `loading' exactly while the *)
(* newest fetch is in flight: a superseded fetch does not switch it off,    *)
(* and no cancelled one leaves it on.  A panic leaves it on.                *)
LoadingMatches ==
  ~fetching /\ generation \notin failed =>
    (loading <=> generation > 0 /\ tasks[generation] = "running")

(* Only the newest fetch is in flight, and none once the resource is gone.  *)
OneInFlight ==
  \A g \in Fetches : tasks[g] = "running" => g = generation /\ ~disposed /\ ~fetching

(* A result is only published while its fetch is the newest, even if the    *)
(* future itself has superseded it just before it became ready.             *)
LatestWins == [][ value' # value => value'.generation = generation' ]_vars

(* In the end the value is that of the source and nothing is loading, when  *)
(* nobody writes or refetches any more, unless the resource was disposed or *)
(* a fetch panicked.                                                        *)
Settles == <>[](disposed \/ failed # {} \/ (value.input = source /\ ~loading))
=============================================================================
