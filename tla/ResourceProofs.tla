--------------------------- MODULE ResourceProofs ---------------------------
(***************************************************************************)
(* Proofs about a resource for every set of inputs, with panics or without, *)
(* and however often its source is written: type correctness, that only the *)
(* newest fetch is ever in flight, that `loading' says so, and that only    *)
(* the newest fetch publishes.                                              *)
(***************************************************************************)
EXTENDS Resource, TLAPS

(* A fetch is started only by the first run, a write that changes the input *)
(* or a refetch: without this there would be more fetches than Fetches.     *)
Budget ==
  generation + (IF dirty \/ source # input THEN 1 ELSE 0) <= writes + 1

(* The fetch in flight is the one whose cleanup is registered, so whoever   *)
(* runs the cleanup aborts it.                                              *)
InFlightHasCleanup ==
  \A g \in Fetches : tasks[g] = "running" => cleanup = g

(* Inside the fetch closure the cleanup of the last fetch has run already   *)
(* and the new one is loading; a disposed resource has nothing to run.      *)
FetchClosure ==
  fetching => generation > 0 /\ cleanup = 0 /\ loading
Disposal == disposed => ~due /\ cleanup = 0

IInv ==
  /\ TypeOK /\ Budget
  /\ InFlightHasCleanup /\ FetchClosure /\ Disposal
  /\ OneInFlight /\ LoadingMatches

-----------------------------------------------------------------------------
(* The first state. *)
LEMMA InitIInv == Init => IInv
<1> SUFFICES ASSUME Init PROVE IInv
  OBVIOUS
<1>1. TypeOK
  <2>1. MaxWrites + 1 \in Nat /\ 0 \in 0 .. MaxWrites + 1
    BY ResourceAssumption
  <2>2. value \in [generation : 0 .. generation, input : Inputs \cup {NoValue}]
    BY DEF Init, Fetch
  <2>3. /\ tasks \in [Fetches -> {"none", "running", "aborted", "done"}]
        /\ inputs \in [Fetches -> Inputs \cup {NoValue}]
    BY DEF Init
  <2>4. /\ generation \in 0 .. MaxWrites + 1 /\ cleanup \in {0, generation}
        /\ polling \in 0 .. generation /\ writes \in 0 .. MaxWrites
    BY <2>1, ResourceAssumption DEF Init
  <2>5. /\ source \in Inputs /\ input \in Inputs \cup {NoValue}
        /\ {stale, dirty, due, rerun, disposed, loading, fetching} \subseteq BOOLEAN
        /\ failed \subseteq Fetches
    BY DEF Init
  <2>6. QED
    BY <2>2, <2>3, <2>4, <2>5 DEF TypeOK
<1>2. Budget
  BY ResourceAssumption DEF Init, Budget
<1>3. InFlightHasCleanup /\ FetchClosure /\ Disposal /\ OneInFlight /\ LoadingMatches
  BY ResourceAssumption
    
        DEF Init, InFlightHasCleanup, FetchClosure, Disposal,
            OneInFlight, LoadingMatches, Fetches
<1>4. QED
  BY <1>1, <1>2, <1>3 DEF IInv

(* What the cleanup does: whatever was in flight is aborted. *)
LEMMA CleanUpAborts ==
  ASSUME IInv, CleanUp
  PROVE  /\ tasks' \in [Fetches -> {"none", "running", "aborted", "done"}]
         /\ loading' \in BOOLEAN
         /\ \A g \in Fetches : tasks'[g] # "running"
         /\ cleanup # 0 => ~loading'
         /\ cleanup = 0 => UNCHANGED <<tasks, loading>>
<1>1. CASE cleanup = 0
  <2>1. UNCHANGED <<tasks, loading>>
    BY <1>1 DEF CleanUp
  <2>2. \A g \in Fetches : tasks[g] # "running"
    BY <1>1, ResourceAssumption DEF IInv, InFlightHasCleanup, Fetches
  <2>3. QED
    BY <1>1, <2>1, <2>2 DEF IInv, TypeOK
<1>2. CASE cleanup # 0
  <2>1. loading' = FALSE
    BY <1>2 DEF CleanUp
  <2>2. tasks' = [tasks EXCEPT ![cleanup] =
                    IF tasks[cleanup] = "running" THEN "aborted" ELSE tasks[cleanup]]
    BY <1>2 DEF CleanUp
  <2>3. tasks \in [Fetches -> {"none", "running", "aborted", "done"}] /\ cleanup \in Fetches
    BY <1>2, ResourceAssumption DEF IInv, TypeOK, Fetches
  <2>4. \A g \in Fetches :
          tasks'[g] = IF g = cleanup /\ tasks[g] = "running" THEN "aborted" ELSE tasks[g]
    BY <2>2, <2>3
  <2>5. tasks' \in [Fetches -> {"none", "running", "aborted", "done"}]
    BY <2>2, <2>3
  <2>6. QED
    BY <1>2, <2>1, <2>4, <2>5 DEF IInv, InFlightHasCleanup
<1>3. QED
  BY <1>1, <1>2

(* A fetch that starts is within the bound. *)
LEMMA NextFetch ==
  ASSUME IInv, dirty \/ source # input
  PROVE  generation + 1 <= writes + 1 /\ generation + 1 \in Fetches
BY ResourceAssumption DEF IInv, TypeOK, Budget, Fetches

(* Every step keeps the invariant: one step of the proof per action. *)
LEMMA NextIInv == IInv /\ [Next]_vars => IInv'
<1> SUFFICES ASSUME IInv, [Next]_vars PROVE IInv'
  OBVIOUS
<1> USE ResourceAssumption
<1>1. ASSUME NEW i \in Inputs, WriteSource(i) PROVE IInv'
  BY <1>1
     DEF IInv, TypeOK, Budget, InFlightHasCleanup, FetchClosure, Disposal,
         OneInFlight, LoadingMatches, WriteSource, Wrote, effect, result,
         work, control
<1>2. CASE Refetch
  <2>1. CASE disposed
    BY <1>2, <2>1
       DEF IInv, TypeOK, Budget, InFlightHasCleanup, FetchClosure,
           Disposal, OneInFlight, LoadingMatches, Refetch, Wrote, result,
           work, control
  <2>2. CASE ~disposed
    <3>1. writes' = writes + 1 /\ writes' \in 0 .. MaxWrites
      BY <1>2 DEF Refetch, Wrote, IInv, TypeOK
    <3>2. /\ dirty' = TRUE /\ due' = TRUE
          /\ UNCHANGED <<source, input, stale, rerun, disposed, generation, cleanup, tasks,
                         inputs, loading, value, fetching, polling, failed>>
      BY <1>2, <2>2 DEF Refetch, result, work, control
    <3>3. TypeOK'
      BY <3>1, <3>2 DEF IInv, TypeOK
    <3>4. Budget'
      BY <3>1, <3>2 DEF IInv, TypeOK, Budget
    <3>5. QED
      BY <2>2, <3>2, <3>3, <3>4
         DEF IInv, InFlightHasCleanup, FetchClosure, Disposal,
             OneInFlight, LoadingMatches
  <2>3. QED
    BY <2>1, <2>2
<1>3. CASE Dispose
  <2>1. CleanUp
    BY <1>3 DEF Dispose
  <2>2. /\ disposed' = TRUE /\ due' = FALSE /\ cleanup' = 0
        /\ UNCHANGED <<source, input, stale, dirty, rerun, generation, value, inputs,
                       fetching, polling, writes, failed>>
    BY <1>3 DEF Dispose, control, history
  <2>3. TypeOK' /\ Budget'
    BY <2>1, <2>2, CleanUpAborts DEF IInv, TypeOK, Budget
  <2>4. InFlightHasCleanup' /\ FetchClosure' /\ Disposal' /\ OneInFlight'
    BY <2>1, <2>2, CleanUpAborts
       DEF IInv, InFlightHasCleanup, FetchClosure, Disposal, OneInFlight,
           LoadingMatches
  <2>5. ~fetching /\ generation \notin failed =>
          (loading' <=> generation > 0 /\ tasks'[generation] = "running")
    BY <2>1, CleanUpAborts DEF IInv, TypeOK, LoadingMatches, Fetches
  <2>6. QED
    BY <2>2, <2>3, <2>4, <2>5 DEF IInv, LoadingMatches
<1>4. CASE RunDeferred
  BY <1>4
     DEF IInv, TypeOK, Budget, InFlightHasCleanup, FetchClosure, Disposal,
         OneInFlight, LoadingMatches, RunDeferred, result, work, control,
         history
<1>5. CASE RunUnchanged
  BY <1>5
     DEF IInv, TypeOK, Budget, InFlightHasCleanup, FetchClosure, Disposal,
         OneInFlight, LoadingMatches, RunUnchanged, result, work, control,
         history
<1>6. CASE StartFetch
  <2>1. dirty \/ source # input
    BY <1>6 DEF StartFetch
  <2>2. generation' = generation + 1 /\ generation' \in Fetches /\ generation' <= writes + 1
    BY <1>6, <2>1, NextFetch DEF StartFetch
  <2>3. /\ tasks' \in [Fetches -> {"none", "running", "aborted", "done"}]
        /\ \A g \in Fetches : tasks'[g] # "running"
    BY <1>6 DEF StartFetch, IInv, TypeOK, InFlightHasCleanup, Fetches
  <2>4. inputs' \in [Fetches -> Inputs \cup {NoValue}]
    BY <1>6, <2>2 DEF StartFetch, IInv, TypeOK
  <2>5. TypeOK'
    <3>1. /\ source' \in Inputs /\ input' \in Inputs \cup {NoValue}
          /\ {stale, dirty, due, rerun, disposed, loading, fetching}' \subseteq BOOLEAN
      BY <1>6 DEF IInv, TypeOK, StartFetch
    <3>2. generation' \in 0 .. MaxWrites + 1 /\ cleanup' \in {0, generation'}
      BY <1>6, <2>2 DEF StartFetch, Fetches
    <3>3. /\ value' \in [generation : 0 .. generation', input : Inputs \cup {NoValue}]
          /\ polling' \in 0 .. generation'
      BY <1>6, <2>2 DEF IInv, TypeOK, StartFetch
    <3>4. writes' \in 0 .. MaxWrites /\ failed' \subseteq Fetches
      BY <1>6 DEF IInv, TypeOK, StartFetch, history
    <3>5. QED
      BY <2>3, <2>4, <3>1, <3>2, <3>3, <3>4 DEF TypeOK
  <2>6. Budget'
    BY <1>6, <2>2 DEF Budget, StartFetch, history
  <2>7. QED
    BY <1>6, <2>2, <2>3, <2>5, <2>6
      
          DEF IInv, TypeOK, InFlightHasCleanup, FetchClosure,
              Disposal, OneInFlight,
           LoadingMatches, StartFetch
<1>7. CASE FetchReturns
  <2>1. /\ fetching /\ fetching' = FALSE /\ rerun' = FALSE
        /\ due' = (due \/ (rerun /\ ~disposed))
        /\ UNCHANGED <<source, input, stale, dirty, disposed, generation, value, inputs,
                       polling, writes, failed>>
    BY <1>7 DEF FetchReturns, history
  <2>2. generation \in Fetches /\ cleanup = 0 /\ loading
    BY <2>1 DEF IInv, TypeOK, FetchClosure, Fetches
  <2>3. \A g \in Fetches : tasks[g] # "running"
    BY <2>1 DEF IInv, OneInFlight
  <2>4. Budget'
    BY <2>1 DEF IInv, Budget
  <2>5. CASE disposed
    <3>1. /\ tasks' = [tasks EXCEPT ![generation] = "aborted"]
          /\ loading' = FALSE /\ cleanup' = 0
      BY <1>7, <2>2, <2>5 DEF FetchReturns
    <3>2. TypeOK'
      BY <2>1, <2>2, <3>1 DEF IInv, TypeOK
    <3>3. QED
      BY <2>1, <2>2, <2>3, <2>4, <2>5, <3>1, <3>2
         DEF IInv, TypeOK, InFlightHasCleanup, FetchClosure, Disposal,
             OneInFlight, LoadingMatches
  <2>6. CASE ~disposed
    <3>1. /\ tasks' = [tasks EXCEPT ![generation] = "running"]
          /\ loading' = loading /\ cleanup' = generation
      BY <1>7, <2>6 DEF FetchReturns
    <3>2. TypeOK'
      BY <2>1, <2>2, <3>1 DEF IInv, TypeOK
    <3>3. QED
      BY <2>1, <2>2, <2>3, <2>4, <2>6, <3>1, <3>2
         DEF IInv, TypeOK, InFlightHasCleanup, FetchClosure, Disposal,
             OneInFlight, LoadingMatches
  <2>7. QED
    BY <2>5, <2>6
<1>8. CASE FetchPanics
  <2>1. /\ fetching /\ fetching' = FALSE /\ failed' = failed \cup {generation}
        /\ UNCHANGED <<source, input, stale, dirty, due, rerun, disposed, loading, value,
                       generation, cleanup, tasks, inputs, polling, writes>>
    BY <1>8 DEF FetchPanics, effect, result, work
  <2>2. generation \in Fetches
    BY <2>1 DEF IInv, TypeOK, FetchClosure, Fetches
  <2>3. TypeOK' /\ Budget'
    BY <2>1, <2>2 DEF IInv, TypeOK, Budget
  <2>4. QED
    BY <2>1, <2>3
       DEF IInv, InFlightHasCleanup, FetchClosure, Disposal, OneInFlight,
           LoadingMatches
<1>9. ASSUME NEW g \in Fetches, Poll(g) PROVE IInv'
  BY <1>9
     DEF IInv, TypeOK, Budget, InFlightHasCleanup, FetchClosure, Disposal,
         OneInFlight, LoadingMatches, Poll, effect, result, work, history
<1>10. CASE PollPending
  BY <1>10
     DEF IInv, TypeOK, Budget, InFlightHasCleanup, FetchClosure, Disposal,
         OneInFlight, LoadingMatches, PollPending, effect, result, work,
         history
<1>11. CASE Publish
  <2>1. /\ polling # 0 /\ ~fetching /\ polling' = 0
        /\ tasks' = [tasks EXCEPT ![polling] = "done"]
        /\ UNCHANGED <<source, input, stale, dirty, due, rerun, disposed, generation,
                       cleanup, inputs, fetching, writes, failed>>
    BY <1>11 DEF Publish, effect, history
  <2>2. polling \in Fetches /\ polling \in 0 .. generation
    BY <2>1 DEF IInv, TypeOK, Fetches
  <2>3. /\ tasks' \in [Fetches -> {"none", "running", "aborted", "done"}]
        /\ \A g \in Fetches : tasks'[g] = IF g = polling THEN "done" ELSE tasks[g]
    BY <2>1, <2>2 DEF IInv, TypeOK
  <2>4. Budget' /\ InFlightHasCleanup' /\ FetchClosure' /\ Disposal' /\ OneInFlight'
    BY <2>1, <2>3
       DEF IInv, Budget, InFlightHasCleanup, FetchClosure, Disposal,
           OneInFlight, LoadingMatches
  <2>5. CASE polling = generation
    <3>1. value' = Fetch(polling, inputs[polling]) /\ loading' = FALSE
      BY <1>11, <2>5 DEF Publish
    <3>2. value' \in [generation : 0 .. generation, input : Inputs \cup {NoValue}]
      BY <2>2, <3>1 DEF IInv, TypeOK, Fetch
    <3>3. TypeOK'
      <4>1. /\ generation' \in 0 .. MaxWrites + 1 /\ cleanup' \in {0, generation'}
            /\ polling' \in 0 .. generation'
            /\ value' \in [generation : 0 .. generation', input : Inputs \cup {NoValue}]
        BY <2>1, <3>2 DEF IInv, TypeOK
      <4>2. {stale, dirty, due, rerun, disposed, loading, fetching}' \subseteq BOOLEAN
        BY <2>1, <3>1 DEF IInv, TypeOK
      <4>3. QED
        BY <2>1, <2>3, <4>1, <4>2 DEF IInv, TypeOK
    <3>4. QED
      BY <2>1, <2>2, <2>3, <2>4, <2>5, <3>1, <3>3 DEF IInv, LoadingMatches
  <2>6. CASE polling # generation
    <3>1. UNCHANGED <<loading, value>>
      BY <1>11, <2>6 DEF Publish, result
    <3>2. TypeOK'
      BY <2>1, <2>3, <3>1 DEF IInv, TypeOK
    <3>3. QED
      BY <2>1, <2>3, <2>4, <2>6, <3>1, <3>2
         DEF IInv, TypeOK, LoadingMatches, Fetches
  <2>7. QED
    BY <2>5, <2>6
<1>12. CASE FuturePanics
  BY <1>12
     DEF IInv, TypeOK, Budget, InFlightHasCleanup, FetchClosure, Disposal,
         OneInFlight, LoadingMatches, FuturePanics, effect, result, Fetches
<1>13. CASE UNCHANGED vars
  BY <1>13
     DEF IInv, TypeOK, Budget, InFlightHasCleanup, FetchClosure, Disposal,
         OneInFlight, LoadingMatches, vars, effect, result, work, control,
         history
<1>14. QED
  BY <1>1, <1>2, <1>3, <1>4, <1>5, <1>6, <1>7, <1>8, <1>9, <1>10, <1>11, <1>12, <1>13
     DEF Next, Run

-----------------------------------------------------------------------------
(* The invariant holds throughout. *)
LEMMA Invariance == Spec => []IInv
BY InitIInv, NextIInv, PTL DEF Spec

(* Every variable of a resource keeps its type; in particular there are     *)
(* never more fetches than first runs, writes and refetches call for        *)
(* (resource.rs, Reactor::resource).                                        *)
THEOREM TypeCorrect == Spec => []TypeOK
<1>1. IInv => TypeOK
  BY DEF IInv
<1>2. QED
  BY Invariance, <1>1, PTL

(* Only the newest fetch is ever in flight, and none once the resource is   *)
(* disposed, also if the fetch closure disposes it (resource.rs, on_cleanup *)
(* at the end of the driving effect).                                       *)
THEOREM NewestInFlight == Spec => []OneInFlight
<1>1. IInv => OneInFlight
  BY DEF IInv
<1>2. QED
  BY Invariance, <1>1, PTL

(* Resource::loading is true exactly while the newest fetch is in flight,   *)
(* unless that fetch panicked.                                              *)
THEOREM LoadingCorrect == Spec => []LoadingMatches
<1>1. IInv => LoadingMatches
  BY DEF IInv
<1>2. QED
  BY Invariance, <1>1, PTL

(* A superseded fetch never publishes, even if it was superseded by its own *)
(* last poll (resource.rs, the generation check of the task).               *)
THEOREM LatestPublishes == Spec => LatestWins
<1>1. [Next]_vars => [value' # value => value'.generation = generation']_vars
  <2> SUFFICES ASSUME [Next]_vars, value' # value
               PROVE  value'.generation = generation'
    OBVIOUS
  <2>1. Publish
    BY
       DEF Next, Run, vars, result, WriteSource, Refetch, Dispose,
           RunDeferred, RunUnchanged,
           StartFetch, FetchReturns, FetchPanics, Poll, PollPending, FuturePanics
  <2>2. QED
    BY <2>1 DEF Publish, Fetch, result
<1>2. QED
  BY <1>1, PTL DEF Spec, LatestWins
=============================================================================
