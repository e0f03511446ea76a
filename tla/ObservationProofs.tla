-------------------------- MODULE ObservationProofs --------------------------
(***************************************************************************)
(* The hooks of a source keep the promise of an Announcer, for every set of *)
(* nodes and subscribers, every bound and every behaviour of the closures:  *)
(* Observation implements the steps of Announcer.  That news arrives in the *)
(* end is liveness, which TLC checks.                                       *)
(***************************************************************************)
EXTENDS Observation, FiniteSetTheorems, SequenceTheorems, TLAPS

-----------------------------------------------------------------------------
(* The inductive invariant.                                                *)

Seen == is_observed(Hooked)
Gone == life[Hooked] = "gone"
Posted(q) == \E i \in DOMAIN q : q[i] = Hooked

Types ==
  /\ life \in [Nodes -> {"unborn", "live", "gone"}]
  /\ edges \subseteq Observers \X Sources
  /\ pending \in Seq(Nodes)
  /\ rerun \subseteq Effects
  /\ hooks \in [observed : BOOLEAN, delivered : BOOLEAN, queued : BOOLEAN, cancelled : BOOLEAN]

(* What is delivered is what was told, queued means that the job is there,  *)
(* a disposed source is disconnected, and until then observed is what the   *)
(* edges say and whatever is not delivered yet is queued.                   *)
HooksInv ==
  /\ told = hooks.delivered
  /\ hooks.queued => Posted(pending)
  /\ hooks.cancelled = Gone
  /\ ~Gone => /\ hooks.observed = Seen
              /\ hooks.delivered # hooks.observed => hooks.queued

-----------------------------------------------------------------------------
(* Every step of the system is one of five, as far as the hooks go.        *)

Silent == UNCHANGED <<told, calls>> /\ Gone' = Gone

(* Nothing happens to the hooks, and their job is not lost. *)
Quiet ==
  /\ Silent
  /\ hooks' = hooks
  /\ Seen' = Seen
  /\ Posted(pending) => Posted(pending')

(* The source gets its first observer or loses its last. *)
Noted ==
  /\ Silent
  /\ hooks' = [hooks EXCEPT !.observed = Seen', !.queued = TRUE]
  /\ Seen' # Seen
  /\ hooks.queued => Posted(pending)
  /\ Posted(pending')

(* The source is disposed. *)
Cancelled ==
  /\ UNCHANGED <<told, calls, pending>>
  /\ ~Gone /\ Gone'
  /\ hooks' = [hooks EXCEPT !.cancelled = TRUE]

(* The job finds nothing to tell. *)
Spared ==
  /\ Silent
  /\ Seen' = Seen
  /\ hooks.cancelled \/ hooks.delivered = hooks.observed
  /\ hooks' = [hooks EXCEPT !.queued = FALSE]

(* The job calls a hook. *)
Rung ==
  /\ ~hooks.cancelled /\ hooks.delivered # hooks.observed
  /\ told' = hooks.observed
  /\ calls' = 1 - calls
  /\ Gone' = Gone /\ Seen' = Seen
  /\ hooks' = [hooks EXCEPT !.queued = FALSE, !.delivered = hooks.observed]

HookStep == Quiet \/ Noted \/ Cancelled \/ Spared \/ Rung

-----------------------------------------------------------------------------
(* Sequences of jobs.                                                      *)

LEMMA PostedAppend ==
  ASSUME NEW q \in Seq(Nodes), NEW n \in Nodes
  PROVE  /\ Append(q, n) \in Seq(Nodes)
         /\ Posted(q) => Posted(Append(q, n))
         /\ n = Hooked => Posted(Append(q, n))
<1>1. /\ Append(q, n) \in Seq(Nodes)
      /\ DOMAIN q = 1 .. Len(q) /\ Len(q) \in Nat
      /\ DOMAIN Append(q, n) = 1 .. Len(q) + 1
      /\ \A i \in 1 .. Len(q) : Append(q, n)[i] = q[i]
      /\ Append(q, n)[Len(q) + 1] = n
  OBVIOUS
<1>2. QED
  BY <1>1 DEF Posted

(* What is taken from the queue for somebody else leaves the hooks' job. *)
LEMMA PostedTail ==
  ASSUME NEW q \in Seq(Nodes), q # <<>>
  PROVE  /\ Tail(q) \in Seq(Nodes)
         /\ Head(q) # Hooked /\ Posted(q) => Posted(Tail(q))
<1>1. /\ Tail(q) \in Seq(Nodes)
      /\ DOMAIN q = 1 .. Len(q) /\ Len(q) \in Nat
      /\ DOMAIN Tail(q) = 1 .. Len(q) - 1
      /\ \A i \in 1 .. Len(q) - 1 : Tail(q)[i] = q[i + 1]
      /\ Head(q) = q[1]
  OBVIOUS
<1>2. ASSUME NEW i \in DOMAIN q, q[i] = Hooked, Head(q) # Hooked
      PROVE  i - 1 \in DOMAIN Tail(q) /\ Tail(q)[i - 1] = Hooked
  BY <1>1, <1>2
<1>3. QED
  BY <1>1, <1>2 DEF Posted

LEMMA PostedConcat ==
  ASSUME NEW q \in Seq(Nodes), NEW r \in Seq(Nodes)
  PROVE  /\ q \o r \in Seq(Nodes)
         /\ Posted(q) => Posted(q \o r)
<1>1. /\ q \o r \in Seq(Nodes)
      /\ DOMAIN q = 1 .. Len(q) /\ Len(q) \in Nat /\ Len(r) \in Nat
      /\ DOMAIN (q \o r) = 1 .. Len(q) + Len(r)
      /\ \A i \in 1 .. Len(q) : (q \o r)[i] = q[i]
  OBVIOUS
<1>2. QED
  BY <1>1 DEF Posted

LEMMA FunctionIsSeq ==
  ASSUME NEW S, NEW n \in Nat, NEW f \in [1 .. n -> S]
  PROVE  f \in Seq(S)
<1>1. [1 .. n -> S] \in {[1 .. m -> S] : m \in Nat}
  OBVIOUS
<1>2. f \in UNION {[1 .. m -> S] : m \in Nat}
  BY <1>1, Zenon
<1>3. QED
  BY <1>2, SeqDef, Zenon

(* Whichever order a set of effects is queued in. *)
LEMMA ScheduleJobs ==
  ASSUME Types, NEW E \in SUBSET Effects, Schedule(E)
  PROVE  pending' \in Seq(Nodes) /\ (Posted(pending) => Posted(pending'))
<1>1. PICK q \in SetToSeqs(E \ latched) : pending' = pending \o q
  BY DEF Schedule
<1>2. Cardinality(E \ latched) \in Nat
  <2>1. IsFiniteSet(E \ latched)
    BY ObservationAssumption, FS_Subset
  <2>2. QED
    BY <2>1, FS_CardinalityType
<1>3. q \in [1 .. Cardinality(E \ latched) -> E \ latched]
  BY <1>1 DEF SetToSeqs
<1>4. q \in Seq(Nodes)
  <2>1. q \in [1 .. Cardinality(E \ latched) -> Nodes]
    BY <1>3 DEF Nodes, Observers
  <2>2. QED
    BY <1>2, <2>1, FunctionIsSeq
<1>5. QED
  BY <1>1, <1>4, PostedConcat DEF Types

-----------------------------------------------------------------------------
(* The operations the actions are made of.                                 *)

LEMMA SameGraph ==
  ASSUME Types, UNCHANGED <<life, edges, pending, rerun, hooks, told, calls>>
  PROVE  Types' /\ Quiet
BY DEF Types, Quiet, Silent, Gone, Seen, is_observed, observers_of, Posted

LEMMA NoteStep ==
  ASSUME Types, HooksInv,
         NEW X \in SUBSET Sources, NEW b \in BOOLEAN, NEW jobs \in Seq(Nodes),
         Posted(pending) => Posted(jobs),
         Note(X, b, jobs)
  PROVE  /\ pending' \in Seq(Nodes)
         /\ Posted(pending) => Posted(pending')
         /\ hooks.queued => Posted(pending)
         /\ Hooked \in X => /\ hooks' = [hooks EXCEPT !.observed = b, !.queued = TRUE]
                            /\ Posted(pending')
         /\ Hooked \notin X => hooks' = hooks
<1>1. Hooked \in Nodes
  BY ObservationAssumption DEF Nodes
<1>2. /\ Append(jobs, Hooked) \in Seq(Nodes)
      /\ Posted(Append(jobs, Hooked))
  BY <1>1, PostedAppend
<1>3. hooks.queued => Posted(pending)
  BY DEF HooksInv
<1>4. CASE Hooked \notin X
  BY <1>3, <1>4 DEF Note
<1>5. CASE Hooked \in X /\ hooks.queued
  <2>1. pending' = jobs /\ hooks' = [hooks EXCEPT !.observed = b, !.queued = TRUE]
    BY <1>5 DEF Note
  <2>2. QED
    BY <1>3, <1>5, <2>1
<1>6. CASE Hooked \in X /\ ~hooks.queued
  <2>1. /\ pending' = Append(jobs, Hooked)
        /\ hooks' = [hooks EXCEPT !.observed = b, !.queued = TRUE]
    BY <1>6 DEF Note
  <2>2. QED
    BY <1>2, <1>3, <1>6, <2>1
<1>7. QED
  BY <1>4, <1>5, <1>6

(* The type of the hooks survives what Note does to them. *)
LEMMA NotedType ==
  ASSUME Types, NEW b \in BOOLEAN
  PROVE  [hooks EXCEPT !.observed = b, !.queued = TRUE]
           \in [observed : BOOLEAN, delivered : BOOLEAN, queued : BOOLEAN, cancelled : BOOLEAN]
BY DEF Types

(* An observer loses its edges: news if it was the only one. *)
LEMMA ClearStep ==
  ASSUME Types, HooksInv,
         NEW o \in Observers, NEW jobs \in Seq(Nodes), NEW g,
         Posted(pending) => Posted(jobs),
         ClearDependencies(o, jobs, g),
         life' \in [Nodes -> {"unborn", "live", "gone"}], rerun' \subseteq Effects,
         Silent
  PROVE  Types' /\ HookStep
<1> DEFINE lost == {x \in Sources : observers_of(x) = {o}}
<1>1. /\ edges' = {e \in edges : e[1] # o}
      /\ Note(lost, FALSE, jobs)
  BY DEF ClearDependencies
<1>2. edges' \subseteq Observers \X Sources
  BY <1>1 DEF Types
<1>3. Hooked \in Sources
  BY ObservationAssumption
<1>4. observers_of(Hooked)' = observers_of(Hooked) \ {o}
  <2>1. ASSUME NEW p \in Observers
        PROVE  <<p, Hooked>> \in edges' <=> <<p, Hooked>> \in edges /\ p # o
    BY <1>1
  <2>2. QED
    BY <2>1 DEF observers_of
<1>5. Hooked \in lost => Seen /\ ~Seen'
  BY <1>4 DEF Seen, is_observed
<1>6. Hooked \notin lost => Seen' = Seen
  <2>1. CASE observers_of(Hooked) = {}
    BY <1>4, <2>1 DEF Seen, is_observed
  <2>2. CASE observers_of(Hooked) # {} /\ observers_of(Hooked) # {o}
    <3>1. observers_of(Hooked) \ {o} # {}
      BY <2>2
    <3>2. QED
      BY <1>4, <2>2, <3>1 DEF Seen, is_observed
  <2>3. QED
    BY <1>3, <2>1, <2>2
<1> HIDE DEF lost
<1>7. lost \in SUBSET Sources
  BY DEF lost
<1>8. /\ pending' \in Seq(Nodes)
      /\ Posted(pending) => Posted(pending')
      /\ hooks.queued => Posted(pending)
      /\ Hooked \in lost => /\ hooks' = [hooks EXCEPT !.observed = FALSE, !.queued = TRUE]
                            /\ Posted(pending')
      /\ Hooked \notin lost => hooks' = hooks
  BY <1>1, <1>7, NoteStep
<1>9. Types'
  <2>1. hooks' \in [observed : BOOLEAN, delivered : BOOLEAN, queued : BOOLEAN, cancelled : BOOLEAN]
    BY <1>8, NotedType DEF Types
  <2>2. QED
    BY <1>2, <1>8, <2>1 DEF Types
<1>10. CASE Hooked \in lost
  <2>1. Seen' = FALSE
    BY <1>5, <1>10 DEF Seen, is_observed
  <2>2. Seen' # Seen
    BY <1>5, <1>10 DEF Seen, is_observed
  <2>3. hooks' = [hooks EXCEPT !.observed = Seen', !.queued = TRUE]
    BY <1>8, <1>10, <2>1
  <2>4. QED
    BY <1>8, <1>9, <1>10, <2>2, <2>3 DEF HookStep, Noted
<1>11. CASE Hooked \notin lost
  BY <1>6, <1>8, <1>9, <1>11 DEF HookStep, Quiet
<1>12. QED
  BY <1>10, <1>11

-----------------------------------------------------------------------------
(* The actions.                                                            *)

LEMMA CreateStep ==
  ASSUME Types, NEW n \in Nodes, allocate_node(n),
         \/ UNCHANGED pending
         \/ pending' = Append(pending, n)
  PROVE  Types' /\ HookStep
<1>1. /\ life[n] = "unborn" /\ life' = [life EXCEPT ![n] = "live"]
      /\ UNCHANGED <<edges, rerun, hooks, told, calls>>
  BY DEF allocate_node, announced
<1>2. /\ pending' \in Seq(Nodes)
      /\ Posted(pending) => Posted(pending')
  BY PostedAppend DEF Types, Posted
<1>3. Hooked \in Nodes
  BY ObservationAssumption DEF Nodes
<1>4. Gone' = Gone
  BY <1>1, <1>3 DEF Gone, Types
<1>5. Types'
  BY <1>1, <1>2 DEF Types
<1>6. QED
  BY <1>1, <1>2, <1>4, <1>5
  DEF HookStep, Quiet, Silent, Seen, is_observed, observers_of

LEMMA ReadStep ==
  ASSUME Types, HooksInv, NEW x \in Sources, Read(x)
  PROVE  Types' /\ HookStep
<1> DEFINE news == IF is_observed(x) THEN {} ELSE {x}
<1>1. /\ Observer \in Observers
      /\ edges' = edges \cup {<<Observer, x>>}
      /\ Note(news, TRUE, pending)
      /\ UNCHANGED <<life, rerun, told, calls>>
  BY DEF Read
<1>2. edges' \subseteq Observers \X Sources
  BY <1>1 DEF Types
<1>3. pending \in Seq(Nodes)
  BY DEF Types
<1>4. news \in SUBSET Sources
  OBVIOUS
<1>5. /\ pending' \in Seq(Nodes)
      /\ Posted(pending) => Posted(pending')
      /\ hooks.queued => Posted(pending)
      /\ Hooked \in news => /\ hooks' = [hooks EXCEPT !.observed = TRUE, !.queued = TRUE]
                            /\ Posted(pending')
      /\ Hooked \notin news => hooks' = hooks
  BY <1>1, <1>3, <1>4, NoteStep
<1>6. Types'
  <2>1. hooks' \in [observed : BOOLEAN, delivered : BOOLEAN, queued : BOOLEAN, cancelled : BOOLEAN]
    BY <1>5, NotedType DEF Types
  <2>2. QED
    BY <1>1, <1>2, <1>5, <2>1 DEF Types
<1>7. Silent
  BY <1>1 DEF Silent, Gone
<1>8. observers_of(Hooked)'
        = observers_of(Hooked) \cup (IF x = Hooked THEN {Observer} ELSE {})
  BY <1>1 DEF observers_of
<1>9. CASE Hooked \in news
  <2>1. ~Seen /\ Seen'
    BY <1>1, <1>8, <1>9 DEF Seen, is_observed
  <2>2. Seen' = TRUE /\ Seen' # Seen
    BY <2>1 DEF Seen, is_observed
  <2>3. QED
    BY <1>5, <1>6, <1>7, <1>9, <2>2 DEF HookStep, Noted
<1>10. CASE Hooked \notin news
  <2>1. x # Hooked \/ Seen
    BY <1>10 DEF Seen
  <2>2. Seen' = Seen
    BY <1>8, <2>1 DEF Seen, is_observed
  <2>3. QED
    BY <1>5, <1>6, <1>7, <1>10, <2>2 DEF HookStep, Quiet
<1>11. QED
  BY <1>9, <1>10

(* A write and the end of a run queue effects and touch nothing else. *)
LEMMA ScheduleStep ==
  ASSUME Types, NEW E \in SUBSET Effects, Schedule(E),
         UNCHANGED <<life, edges, hooks, told, calls>>, rerun' \subseteq Effects
  PROVE  Types' /\ HookStep
<1>1. pending' \in Seq(Nodes) /\ (Posted(pending) => Posted(pending'))
  BY ScheduleJobs
<1>2. QED
  BY <1>1 DEF Types, HookStep, Quiet, Silent, Gone, Seen, is_observed, observers_of

LEMMA DisposeSourceStep ==
  ASSUME Types, HooksInv, NEW x \in Sources, DisposeSource(x)
  PROVE  Types' /\ HookStep
<1>1. /\ life[x] = "live" /\ life' = [life EXCEPT ![x] = "gone"]
      /\ edges' = {e \in edges : e[2] # x}
      /\ hooks' = [hooks EXCEPT !.cancelled = hooks.cancelled \/ x = Hooked]
      /\ UNCHANGED <<pending, rerun, told, calls>>
  BY DEF DisposeSource, queue
<1>2. Hooked \in Nodes /\ x \in Nodes
  BY ObservationAssumption DEF Nodes
<1>3. Types'
  <2>1. hooks' \in [observed : BOOLEAN, delivered : BOOLEAN, queued : BOOLEAN, cancelled : BOOLEAN]
    BY <1>1 DEF Types
  <2>2. QED
    BY <1>1, <2>1 DEF Types
<1>4. CASE x = Hooked
  <2>1. ~Gone /\ Gone'
    BY <1>1, <1>2, <1>4 DEF Gone, Types
  <2>2. hooks' = [hooks EXCEPT !.cancelled = TRUE]
    BY <1>1, <1>4
  <2>3. QED
    BY <1>1, <1>3, <2>1, <2>2 DEF HookStep, Cancelled
<1>5. CASE x # Hooked
  <2>1. Gone' = Gone
    BY <1>1, <1>2, <1>5 DEF Gone, Types
  <2>2. hooks' = hooks
    BY <1>1, <1>5 DEF Types
  <2>3. observers_of(Hooked)' = observers_of(Hooked)
    BY <1>1, <1>5 DEF observers_of
  <2>4. QED
    BY <1>1, <1>3, <2>1, <2>2, <2>3 DEF HookStep, Quiet, Silent, Seen, is_observed, Posted
<1>6. QED
  BY <1>4, <1>5

LEMMA DisposeObserverStep ==
  ASSUME Types, HooksInv, NEW o \in Observers, DisposeObserver(o)
  PROVE  Types' /\ HookStep
<1>1. /\ life' = [life EXCEPT ![o] = "gone"]
      /\ UNCHANGED <<rerun, told, calls>>
      /\ \E g : ClearDependencies(o, pending, g)
  BY DEF DisposeObserver
<1>2. PICK g : ClearDependencies(o, pending, g)
  BY <1>1
<1>3. o # Hooked /\ Hooked \in Nodes /\ o \in Nodes
  BY ObservationAssumption DEF Nodes, Observers
<1>4. Silent
  BY <1>1, <1>3 DEF Silent, Gone, Types
<1>5. /\ life' \in [Nodes -> {"unborn", "live", "gone"}]
      /\ pending \in Seq(Nodes)
      /\ rerun' \subseteq Effects
  BY <1>1 DEF Types
<1>6. QED
  BY <1>2, <1>4, <1>5, ClearStep

LEMMA StartRunStep ==
  ASSUME Types, HooksInv,
         NEW n \in Observers, NEW jobs \in Seq(Nodes), NEW g,
         Posted(pending) => Posted(jobs),
         StartRun(n, jobs, g), UNCHANGED rerun
  PROVE  Types' /\ HookStep
<1>1. /\ ClearDependencies(n, jobs, g)
      /\ UNCHANGED <<life, told, calls>>
  BY DEF StartRun
<1>2. Silent
  BY <1>1 DEF Silent, Gone
<1>3. life' \in [Nodes -> {"unborn", "live", "gone"}] /\ rerun' \subseteq Effects
  BY <1>1 DEF Types
<1>4. QED
  BY <1>1, <1>2, <1>3, ClearStep

LEMMA RunEffectStep ==
  ASSUME Types, HooksInv, RunEffect
  PROVE  Types' /\ HookStep
<1> DEFINE e == Head(pending)
           g == effects_unqueued(gauges, {e} \cap latched)
<1>1. /\ pending # <<>> /\ e \in Effects
      /\ \/ /\ pending' = Tail(pending)
            /\ rerun' = rerun \cup {e} \/ rerun' = rerun
            /\ UNCHANGED <<life, edges, hooks, told, calls>>
         \/ StartRun(e, Tail(pending), g) /\ UNCHANGED rerun
  BY DEF RunEffect, Draining, nodes, announced
<1>2. e # Hooked /\ e \in Observers
  BY <1>1, ObservationAssumption DEF Observers
<1>3. Tail(pending) \in Seq(Nodes) /\ (Posted(pending) => Posted(Tail(pending)))
  BY <1>1, <1>2, PostedTail DEF Types
<1>4. CASE StartRun(e, Tail(pending), g) /\ UNCHANGED rerun
  <2> HIDE DEF e, g
  <2>1. QED
    BY <1>2, <1>3, <1>4, StartRunStep DEF e
<1>5. CASE /\ pending' = Tail(pending)
           /\ rerun' = rerun \cup {e} \/ rerun' = rerun
           /\ UNCHANGED <<life, edges, hooks, told, calls>>
  <2>1. Types'
    BY <1>1, <1>3, <1>5 DEF Types
  <2>2. Quiet
    BY <1>3, <1>5 DEF Quiet, Silent, Gone, Seen, is_observed, observers_of
  <2>3. QED
    BY <2>1, <2>2 DEF HookStep
<1>6. QED
  BY <1>1, <1>4, <1>5

LEMMA RunHookStep ==
  ASSUME Types, HooksInv, RunHook
  PROVE  Types' /\ HookStep
<1>1. /\ pending # <<>> /\ pending' = Tail(pending)
      /\ UNCHANGED <<life, edges, rerun>>
  BY DEF RunHook, Draining, nodes
<1>2. Tail(pending) \in Seq(Nodes)
  BY <1>1, PostedTail DEF Types
<1>3. Gone' = Gone /\ Seen' = Seen
  BY <1>1 DEF Gone, Seen, is_observed, observers_of
<1>4. CASE hooks.cancelled \/ hooks.delivered = hooks.observed
  <2>1. hooks' = [hooks EXCEPT !.queued = FALSE] /\ UNCHANGED <<told, calls>>
    BY <1>4 DEF RunHook
  <2>2. Types'
    BY <1>1, <1>2, <2>1 DEF Types
  <2>3. QED
    BY <1>3, <1>4, <2>1, <2>2 DEF HookStep, Spared, Silent
<1>5. CASE ~(hooks.cancelled \/ hooks.delivered = hooks.observed)
  <2>1. /\ hooks' = [hooks EXCEPT !.queued = FALSE, !.delivered = hooks.observed]
        /\ told' = hooks.observed /\ calls' = 1 - calls
    BY <1>5 DEF RunHook
  <2>2. Types'
    BY <1>1, <1>2, <2>1 DEF Types
  <2>3. QED
    BY <1>3, <1>5, <2>1, <2>2 DEF HookStep, Rung
<1>6. QED
  BY <1>4, <1>5

(* Every step, whichever of the five it is. *)
LEMMA NextIsHookStep ==
  ASSUME Types, HooksInv, [Next]_vars
  PROVE  Types' /\ HookStep
<1>1. CASE \E x \in Sources : CreateSource(x) \/ Read(x) \/ Write(x) \/ DisposeSource(x)
  <2>1. PICK x \in Sources : CreateSource(x) \/ Read(x) \/ Write(x) \/ DisposeSource(x)
    BY <1>1
  <2>2. CASE CreateSource(x)
    BY <2>2, CreateStep DEF CreateSource, Nodes
  <2>3. CASE Write(x)
    <3>1. PICK E \in SUBSET Effects : Schedule(E)
      BY <2>3 DEF Write
    <3>2. UNCHANGED <<life, edges, hooks, told, calls, rerun>>
      BY <2>3 DEF Write, announced
    <3>3. rerun' \subseteq Effects
      BY <3>2 DEF Types
    <3>4. QED
      BY <3>1, <3>2, <3>3, ScheduleStep
  <2>4. QED
    BY <2>1, <2>2, <2>3, ReadStep, DisposeSourceStep
<1>2. CASE \E c \in Computed : CreateComputed(c) \/ Peek(c)
  <2>1. PICK c \in Computed : CreateComputed(c) \/ Peek(c)
    BY <1>2
  <2>2. c \in Observers /\ c \in Nodes
    BY DEF Observers, Nodes
  <2>3. CASE CreateComputed(c)
    BY <2>2, <2>3, CreateStep DEF CreateComputed
  <2>4. CASE Peek(c)
    <3>1. StartRun(c, pending, gauges) /\ UNCHANGED rerun /\ pending \in Seq(Nodes)
      BY <2>4 DEF Peek, Types
    <3>2. QED
      BY <2>2, <3>1, StartRunStep
  <2>5. QED
    BY <2>1, <2>3, <2>4
<1>3. CASE \E e \in Effects : CreateEffect(e)
  <2>1. PICK e \in Effects : CreateEffect(e)
    BY <1>3
  <2>2. e \in Nodes
    BY DEF Nodes, Observers
  <2>3. QED
    BY <2>1, <2>2, CreateStep DEF CreateEffect
<1>4. CASE \E o \in Observers : DisposeObserver(o)
  BY <1>4, DisposeObserverStep
<1>5. CASE \/ \E s \in Subscribers : Listen(s)
           \/ OpenDrain \/ OpenExternal \/ CloseFlush \/ HookReturn \/ Panic
  <2>1. UNCHANGED graphVars
    BY <1>5 DEF Listen, OpenDrain, OpenExternal, CloseFlush, HookReturn, Panic
  <2>2. QED
    BY <2>1, SameGraph DEF graphVars, nodes, queue, announced, HookStep
<1>6. CASE RunEffect
  BY <1>6, RunEffectStep
<1>7. CASE RunHook
  BY <1>7, RunHookStep
<1>8. CASE FinishRun
  <2>1. PICK E \in SUBSET Effects : Schedule(E)
    <3> DEFINE owed == IF Top.node \in rerun /\ life[Top.node] = "live" THEN {Top.node} ELSE {}
    <3>1. Schedule(owed)
      BY <1>8 DEF FinishRun
    <3>2. owed \in SUBSET Effects
      BY DEF Types
    <3>3. QED
      BY <3>1, <3>2
  <2>2. UNCHANGED <<life, edges, hooks, told, calls>> /\ rerun' \subseteq Effects
    BY <1>8 DEF FinishRun, nodes, announced, Types
  <2>3. QED
    BY <2>1, <2>2, ScheduleStep
<1>9. CASE UnwindRun
  BY <1>9, SameGraph DEF UnwindRun, queue, announced, HookStep
<1>10. CASE UNCHANGED vars
  BY <1>10, SameGraph DEF vars, nodes, queue, announced, HookStep
<1>11. QED
  BY <1>1, <1>2, <1>3, <1>4, <1>5, <1>6, <1>7, <1>8, <1>9, <1>10 DEF Next, Continue

-----------------------------------------------------------------------------
(* The invariant, and what follows from it.                                *)

LEMMA InitHooks == Init => Types /\ HooksInv
<1> SUFFICES ASSUME Init PROVE Types /\ HooksInv
  OBVIOUS
<1>1. /\ edges = {} /\ pending = <<>> /\ rerun = {} /\ told = FALSE
      /\ life = [n \in Nodes |-> "unborn"]
      /\ hooks = [observed |-> FALSE, delivered |-> FALSE, queued |-> FALSE, cancelled |-> FALSE]
  BY DEF Init
<1>2. Types
  BY <1>1 DEF Types
<1>3. Gone = FALSE /\ Seen = FALSE
  BY <1>1, ObservationAssumption DEF Gone, Seen, is_observed, observers_of, Nodes
<1>4. HooksInv
  <2>1. /\ hooks.observed = FALSE /\ hooks.delivered = FALSE
        /\ hooks.queued = FALSE /\ hooks.cancelled = FALSE
    BY <1>1
  <2>2. QED
    BY <1>1, <1>3, <2>1 DEF HooksInv
<1>5. QED
  BY <1>2, <1>4

LEMMA HooksInvStep ==
  ASSUME Types, HooksInv, HookStep
  PROVE  HooksInv'
<1>1. CASE Quiet
  BY <1>1 DEF Quiet, Silent, HooksInv
<1>2. CASE Noted
  <2>1. /\ hooks'.queued /\ hooks'.observed = Seen'
        /\ hooks'.delivered = hooks.delivered /\ hooks'.cancelled = hooks.cancelled
    BY <1>2 DEF Noted, Types
  <2>2. QED
    BY <1>2, <2>1 DEF Noted, Silent, HooksInv
<1>3. CASE Cancelled
  <2>1. /\ hooks'.queued = hooks.queued
        /\ hooks'.delivered = hooks.delivered /\ hooks'.cancelled = TRUE
    BY <1>3 DEF Cancelled, Types
  <2>2. Posted(pending)' = Posted(pending)
    BY <1>3 DEF Cancelled, Posted
  <2>3. Gone' = TRUE
    BY <1>3 DEF Cancelled, Gone
  <2>4. QED
    BY <1>3, <2>1, <2>2, <2>3 DEF Cancelled, HooksInv
<1>4. CASE Spared
  <2>1. /\ hooks'.queued = FALSE /\ hooks'.observed = hooks.observed
        /\ hooks'.delivered = hooks.delivered /\ hooks'.cancelled = hooks.cancelled
    BY <1>4 DEF Spared, Types
  <2>2. QED
    BY <1>4, <2>1 DEF Spared, Silent, HooksInv
<1>5. CASE Rung
  <2>1. /\ hooks'.queued = FALSE /\ hooks'.observed = hooks.observed
        /\ hooks'.delivered = hooks.observed /\ hooks'.cancelled = hooks.cancelled
    BY <1>5 DEF Rung, Types
  <2>2. QED
    BY <1>5, <2>1 DEF Rung, HooksInv
<1>6. QED
  BY <1>1, <1>2, <1>3, <1>4, <1>5 DEF HookStep

LEMMA HooksInvariant == Spec => [](Types /\ HooksInv)
<1>1. Types /\ HooksInv /\ [Next]_vars => (Types /\ HooksInv)'
  BY NextIsHookStep, HooksInvStep
<1>2. QED
  BY InitHooks, <1>1, PTL DEF Spec

(* NewsIsQueued is an invariant: whatever the observers of the source do    *)
(* while its job waits, and whoever is disposed, a hook that has the state  *)
(* of the source wrong is going to be called.                              *)
THEOREM NewsQueued == Spec => []NewsIsQueued
<1>1. Types /\ HooksInv => NewsIsQueued
  <2>1. ASSUME Types, HooksInv, life[Hooked] = "live", told # is_observed(Hooked)
        PROVE  Posted(pending)
    <3>1. ~Gone /\ told # Seen
      BY <2>1 DEF Gone, Seen
    <3>2. QED
      BY <2>1, <3>1 DEF HooksInv
  <2>2. QED
    BY <2>1 DEF NewsIsQueued, Posted
<1>2. QED
  BY <1>1, HooksInvariant, PTL

(* Each of the five kinds of step is one of the steps of an Announcer, or   *)
(* none. *)
LEMMA HookStepAnnounces ==
  ASSUME Types, HooksInv, HookStep
  PROVE  [Hooks!Next]_(Hooks!vars)
<1>1. CASE Quiet \/ Spared
  BY <1>1 DEF Quiet, Spared, Silent, Gone, Seen, Hooks!vars
<1>2. CASE Noted
  BY <1>2 DEF Noted, Silent, Gone, Seen, Hooks!Next, Hooks!Change
<1>3. CASE Cancelled
  BY <1>3 DEF Cancelled, Gone, Hooks!Next, Hooks!Disconnect
<1>4. CASE Rung
  <2>1. /\ ~Gone /\ told # Seen /\ told' = Seen /\ calls' = 1 - calls
        /\ Gone' = Gone /\ Seen' = Seen
    <3>1. ~Gone
      BY <1>4 DEF Rung, HooksInv
    <3>2. hooks.observed = Seen
      BY <3>1 DEF HooksInv
    <3>3. QED
      BY <1>4, <3>1, <3>2 DEF Rung, HooksInv
  <2>2. QED
    BY <2>1 DEF Gone, Seen, Hooks!Next, Hooks!Tell
<1>5. QED
  BY <1>1, <1>2, <1>3, <1>4 DEF HookStep

(* Observation implements the initial condition and the steps of Announcer: *)
(* the hooks are called with news only, with what is the case at the moment *)
(* of the call, and never once the source is gone.                          *)
THEOREM HooksImplementAnnouncer == Spec => Hooks!Init /\ [][Hooks!Next]_(Hooks!vars)
<1>1. Init => Hooks!Init
  BY ObservationAssumption DEF Init, Hooks!Init, Nodes
<1>2. Types /\ HooksInv /\ [Next]_vars => [Hooks!Next]_(Hooks!vars)
  BY NextIsHookStep, HookStepAnnounces
<1>3. QED
  BY <1>1, <1>2, HooksInvariant, PTL DEF Spec

-----------------------------------------------------------------------------
(* The counters.                                                           *)

LiveOf(k) == {n \in Nodes : life[n] = "live" /\ node_kind(n) = k}
Lives == [k \in Kinds |-> Cardinality(LiveOf(k))]
Observed == {x \in Sources : is_observed(x)}

Count(L, a, b, c) == [live |-> L, edges |-> a, observed |-> b, queued |-> c]

(* What is counted is finite, and only live effects have a latch: whatever  *)
(* is counted away when an observer is disposed was counted before.         *)
Countable ==
  /\ \A k \in Kinds : IsFiniteSet(LiveOf(k))
  /\ IsFiniteSet(edges) /\ IsFiniteSet(Observed)
  /\ latched \subseteq {e \in Effects : life[e] = "live"}

StatsInv == Countable /\ StatsAgree

LEMMA Walked ==
  StatsAgree
    <=> gauges = Count(Lives, Cardinality(edges), Cardinality(Observed), Cardinality(latched))
BY DEF StatsAgree, graph_stats, walked, Count, Lives, LiveOf, Observed

(* A counter that saturates counts away what was counted. *)
LEMMA Taken ==
  ASSUME NEW S, IsFiniteSet(S), NEW T \in SUBSET S
  PROVE  /\ IsFiniteSet(S \ T)
         /\ Cardinality(S \ T) = Minus(Cardinality(S), Cardinality(T))
<1>1. IsFiniteSet(T) /\ Cardinality(T) <= Cardinality(S)
  BY FS_Subset
<1>2. Cardinality(S) \in Nat /\ Cardinality(T) \in Nat
  BY <1>1, FS_CardinalityType
<1>3. IsFiniteSet(S \ T) /\ Cardinality(S \ T) = Cardinality(S) - Cardinality(S \cap T)
  BY FS_Difference
<1>4. S \cap T = T
  OBVIOUS
<1>5. QED
  BY <1>1, <1>2, <1>3, <1>4 DEF Minus

LEMMA Joined ==
  ASSUME NEW S, IsFiniteSet(S), NEW T, IsFiniteSet(T), S \cap T = {}
  PROVE  /\ IsFiniteSet(S \cup T)
         /\ Cardinality(S \cup T) = Cardinality(S) + Cardinality(T)
<1>1. /\ IsFiniteSet(S \cup T)
      /\ Cardinality(S \cup T) = Cardinality(S) + Cardinality(T) - Cardinality(S \cap T)
  BY FS_Union
<1>2. Cardinality(S \cap T) = 0
  BY FS_EmptySet
<1>3. Cardinality(S) \in Nat /\ Cardinality(T) \in Nat
  BY FS_CardinalityType
<1>4. QED
  BY <1>1, <1>2, <1>3

LEMMA KindOfNode == \A n \in Nodes : node_kind(n) \in Kinds
BY DEF Nodes, Observers, Kinds, node_kind

LEMMA NodeLives ==
  ASSUME Types, Countable, NEW n \in Nodes, life[n] # "live",
         life' = [life EXCEPT ![n] = "live"]
  PROVE  /\ Lives' = [Lives EXCEPT ![node_kind(n)] = @ + 1]
         /\ \A k \in Kinds : IsFiniteSet(LiveOf(k)')
<1> DEFINE c == node_kind(n)
<1>1. c \in Kinds
  BY KindOfNode
<1>2. \A m \in Nodes : life'[m] = IF m = n THEN "live" ELSE life[m]
  BY DEF Types
<1>3. ASSUME NEW k \in Kinds, k # c PROVE LiveOf(k)' = LiveOf(k)
  BY <1>2, <1>3 DEF LiveOf
<1>4. LiveOf(c)' = LiveOf(c) \cup {n} /\ n \notin LiveOf(c)
  BY <1>2 DEF LiveOf
<1>5. IsFiniteSet(LiveOf(c)')
      /\ Cardinality(LiveOf(c)') = Cardinality(LiveOf(c)) + 1
  BY <1>1, <1>4, FS_AddElement DEF Countable
<1> HIDE DEF c
<1>6. Lives = [k \in Kinds |-> Cardinality(LiveOf(k))]
      /\ Lives' = [k \in Kinds |-> Cardinality(LiveOf(k)')]
  BY DEF Lives
<1>7. \A k \in Kinds : Lives'[k] = IF k = c THEN Lives[c] + 1 ELSE Lives[k]
  BY <1>1, <1>3, <1>5, <1>6
<1>8. Lives' = [Lives EXCEPT ![c] = @ + 1]
  BY <1>1, <1>6, <1>7
<1>9. \A k \in Kinds : IsFiniteSet(LiveOf(k)')
  BY <1>3, <1>5 DEF Countable
<1>10. QED
  BY <1>8, <1>9 DEF c

LEMMA NodeDies ==
  ASSUME Types, Countable, NEW n \in Nodes, life[n] = "live",
         life' = [life EXCEPT ![n] = "gone"]
  PROVE  /\ Lives' = [Lives EXCEPT ![node_kind(n)] = Minus(@, 1)]
         /\ \A k \in Kinds : IsFiniteSet(LiveOf(k)')
<1> DEFINE c == node_kind(n)
<1>1. c \in Kinds
  BY KindOfNode
<1>2. \A m \in Nodes : life'[m] = IF m = n THEN "gone" ELSE life[m]
  BY DEF Types
<1>3. ASSUME NEW k \in Kinds, k # c PROVE LiveOf(k)' = LiveOf(k)
  BY <1>2, <1>3 DEF LiveOf
<1>4. LiveOf(c)' = LiveOf(c) \ {n} /\ {n} \in SUBSET LiveOf(c)
  BY <1>2 DEF LiveOf
<1>5. IsFiniteSet(LiveOf(c)')
      /\ Cardinality(LiveOf(c)') = Minus(Cardinality(LiveOf(c)), 1)
  <2>1. IsFiniteSet(LiveOf(c)) /\ Cardinality({n}) = 1
    BY <1>1, FS_Singleton DEF Countable
  <2>2. QED
    BY <1>4, <2>1, Taken
<1> HIDE DEF c
<1>6. Lives = [k \in Kinds |-> Cardinality(LiveOf(k))]
      /\ Lives' = [k \in Kinds |-> Cardinality(LiveOf(k)')]
  BY DEF Lives
<1>7. \A k \in Kinds : Lives'[k] = IF k = c THEN Minus(Lives[c], 1) ELSE Lives[k]
  BY <1>1, <1>3, <1>5, <1>6
<1>8. Lives' = [Lives EXCEPT ![c] = Minus(@, 1)]
  BY <1>1, <1>6, <1>7
<1>9. \A k \in Kinds : IsFiniteSet(LiveOf(k)')
  BY <1>3, <1>5 DEF Countable
<1>10. QED
  BY <1>8, <1>9 DEF c

(* An observer has an edge per dependency, a source one per observer. *)
LEMMA EdgesOfObserver ==
  ASSUME Types, IsFiniteSet(edges), NEW o \in Observers
  PROVE  Cardinality(dependencies_of(o)) = Cardinality({e \in edges : e[1] = o})
<1> DEFINE E == {e \in edges : e[1] = o}
           D == dependencies_of(o)
           f == [e \in E |-> e[2]]
<1>1. IsFiniteSet(E)
  BY FS_Subset
<1>2. \A e \in E : e = <<o, e[2]>> /\ e[2] \in D
  BY DEF Types, dependencies_of
<1>3. \A x \in D : <<o, x>> \in E
  BY DEF dependencies_of
<1> HIDE DEF D, E
<1>4. f \in [E -> D]
  BY <1>2
<1>5. \A a, b \in E : f[a] = f[b] => a = b
  BY <1>2
<1>6. \A x \in D : \E e \in E : f[e] = x
  <2>1. ASSUME NEW x \in D PROVE f[<<o, x>>] = x
    BY <1>3
  <2>2. QED
    BY <1>3, <2>1
<1>7. f \in Bijection(E, D)
  BY <1>4, <1>5, <1>6 DEF Bijection, Injection, Surjection, IsInjective
<1>8. ExistsBijection(E, D)
  BY <1>7 DEF ExistsBijection
<1>9. QED
  BY <1>1, <1>8, FS_Bijection DEF D, E

LEMMA EdgesOfSource ==
  ASSUME Types, IsFiniteSet(edges), NEW x \in Sources
  PROVE  Cardinality(observers_of(x)) = Cardinality({e \in edges : e[2] = x})
<1> DEFINE E == {e \in edges : e[2] = x}
           D == observers_of(x)
           f == [e \in E |-> e[1]]
<1>1. IsFiniteSet(E)
  BY FS_Subset
<1>2. \A e \in E : e = <<e[1], x>> /\ e[1] \in D
  BY DEF Types, observers_of
<1>3. \A o \in D : <<o, x>> \in E
  BY DEF observers_of
<1> HIDE DEF D, E
<1>4. f \in [E -> D]
  BY <1>2
<1>5. \A a, b \in E : f[a] = f[b] => a = b
  BY <1>2
<1>6. \A o \in D : \E e \in E : f[e] = o
  <2>1. ASSUME NEW o \in D PROVE f[<<o, x>>] = o
    BY <1>3
  <2>2. QED
    BY <1>3, <2>1
<1>7. f \in Bijection(E, D)
  BY <1>4, <1>5, <1>6 DEF Bijection, Injection, Surjection, IsInjective
<1>8. ExistsBijection(E, D)
  BY <1>7 DEF ExistsBijection
<1>9. QED
  BY <1>1, <1>8, FS_Bijection DEF D, E

(* What an observer that loses its edges takes off the counts. *)
LEMMA ClearCounts ==
  ASSUME Types, Countable, NEW o \in Observers,
         NEW jobs, NEW L, NEW q,
         ClearDependencies(o, jobs, Count(L, Cardinality(edges), Cardinality(Observed), q))
  PROVE  /\ IsFiniteSet(edges') /\ IsFiniteSet(Observed')
         /\ gauges' = Count(L, Cardinality(edges'), Cardinality(Observed'), q)
<1> DEFINE lost == {x \in Sources : observers_of(x) = {o}}
           E == {e \in edges : e[1] = o}
           g == Count(L, Cardinality(edges), Cardinality(Observed), q)
<1>1. edges' = {e \in edges : e[1] # o}
  BY DEF ClearDependencies
<1>2. gauges' = [edges_removed(g, Cardinality(dependencies_of(o)))
                   EXCEPT !.observed = Minus(@, Cardinality(lost))]
  BY DEF ClearDependencies
<1>3. E \in SUBSET edges /\ edges' = edges \ E
  BY <1>1
<1>4. IsFiniteSet(edges') /\ Cardinality(edges') = Minus(Cardinality(edges), Cardinality(E))
  BY <1>3, Taken DEF Countable
<1>5. Cardinality(dependencies_of(o)) = Cardinality(E)
  BY EdgesOfObserver DEF Countable
<1>6. lost \in SUBSET Observed /\ Observed' = Observed \ lost
  <2>1. \A x \in Sources : observers_of(x)' = observers_of(x) \ {o}
    <3>1. \A x \in Sources, p \in Observers : <<p, x>> \in edges' <=> <<p, x>> \in edges /\ p # o
      BY <1>1
    <3>2. QED
      BY <3>1 DEF observers_of
  <2>2. lost \in SUBSET Observed
    BY DEF Observed, is_observed
  <2>3. ASSUME NEW x \in Sources
        PROVE  is_observed(x)' <=> is_observed(x) /\ observers_of(x) # {o}
    BY <2>1 DEF is_observed
  <2>4. Observed' = Observed \ lost
    BY <2>3 DEF Observed
  <2>5. QED
    BY <2>2, <2>4
<1> HIDE DEF lost, E
<1>7. IsFiniteSet(Observed') /\ Cardinality(Observed') = Minus(Cardinality(Observed), Cardinality(lost))
  BY <1>6, Taken DEF Countable
<1> DEFINE a == Cardinality(edges)
           b == Cardinality(Observed)
           k == Cardinality(E)
           l == Cardinality(lost)
<1>8. gauges' = [edges_removed(Count(L, a, b, q), k) EXCEPT !.observed = Minus(@, l)]
  BY <1>2, <1>5 DEF lost
<1> HIDE DEF a, b, k, l
<1>9. gauges' = Count(L, Minus(a, k), Minus(b, l), q)
  <2>1. edges_removed(Count(L, a, b, q), k) = Count(L, Minus(a, k), b, q)
    BY DEF edges_removed, Count
  <2>2. [Count(L, Minus(a, k), b, q) EXCEPT !.observed = Minus(@, l)]
          = Count(L, Minus(a, k), Minus(b, l), q)
    BY DEF Count
  <2>3. QED
    BY <1>8, <2>1, <2>2
<1>10. QED
  BY <1>4, <1>7, <1>9 DEF a, b, k, l

(* The latches are counted like the rest. *)
LEMMA LatchedFinite ==
  ASSUME latched \subseteq Effects PROVE IsFiniteSet(latched)
BY ObservationAssumption, FS_Subset

LEMMA Unlatched ==
  ASSUME latched \subseteq Effects, NEW E, NEW L, NEW a, NEW b, latched' = latched \ E
  PROVE  effects_unqueued(Count(L, a, b, Cardinality(latched)), E \cap latched)
           = Count(L, a, b, Cardinality(latched'))
<1>1. latched' = latched \ (E \cap latched)
  OBVIOUS
<1>2. E \cap latched \in SUBSET latched
  OBVIOUS
<1>3. Cardinality(latched') = Minus(Cardinality(latched), Cardinality(E \cap latched))
  BY <1>1, <1>2, LatchedFinite, Taken
<1>4. QED
  BY <1>3 DEF effects_unqueued, Count

LEMMA Latched ==
  ASSUME latched \subseteq Effects, NEW E, E \subseteq Effects, E \cap latched = {},
         NEW L, NEW a, NEW b, latched' = latched \cup E
  PROVE  effects_queued(Count(L, a, b, Cardinality(latched)), E)
           = Count(L, a, b, Cardinality(latched'))
<1>1. IsFiniteSet(E)
  BY ObservationAssumption, FS_Subset
<1>2. Cardinality(latched') = Cardinality(latched) + Cardinality(E)
  BY <1>1, LatchedFinite, Joined
<1>3. QED
  BY <1>2 DEF effects_queued, Count

(* The counters agree again. *)
LEMMA Settled ==
  ASSUME \A k \in Kinds : IsFiniteSet(LiveOf(k)'),
         IsFiniteSet(edges'), IsFiniteSet(Observed'),
         latched' \subseteq {e \in Effects : life'[e] = "live"},
         gauges' = Count(Lives', Cardinality(edges'), Cardinality(Observed'), Cardinality(latched'))
  PROVE  StatsInv'
BY DEF StatsInv, Countable, StatsAgree, graph_stats, walked, Count, Lives, LiveOf, Observed

LEMMA SameEdges ==
  ASSUME UNCHANGED edges
  PROVE  Observed' = Observed /\ Cardinality(edges') = Cardinality(edges)
BY DEF Observed, is_observed, observers_of

LEMMA SameLife ==
  ASSUME UNCHANGED life
  PROVE  Lives' = Lives /\ \A k \in Kinds : LiveOf(k)' = LiveOf(k)
BY DEF Lives, LiveOf

LEMMA SameCounts ==
  ASSUME StatsInv, UNCHANGED <<life, edges, latched, gauges>>
  PROVE  StatsInv'
<1>1. gauges' = Count(Lives', Cardinality(edges'), Cardinality(Observed'), Cardinality(latched'))
  BY Walked, SameEdges, SameLife DEF StatsInv
<1>2. QED
  BY <1>1, SameEdges, SameLife, Settled DEF StatsInv, Countable

(* A node is created, an effect with its first run queued. *)
LEMMA CreateCounts ==
  ASSUME Types, StatsInv, NEW n \in Nodes, allocate_node(n),
         \/ gauges' = node_created(gauges, n) /\ latched' = latched
         \/ /\ n \in Effects /\ latched' = latched \cup {n}
            /\ gauges' = effects_queued(node_created(gauges, n), {n})
  PROVE  StatsInv'
<1> DEFINE a == Cardinality(edges)
           b == Cardinality(Observed)
           c == Cardinality(latched)
<1>1. /\ life[n] = "unborn" /\ life' = [life EXCEPT ![n] = "live"]
      /\ UNCHANGED edges
  BY DEF allocate_node
<1>2. /\ Lives' = [Lives EXCEPT ![node_kind(n)] = @ + 1]
      /\ \A k \in Kinds : IsFiniteSet(LiveOf(k)')
  BY <1>1, NodeLives DEF StatsInv
<1>3. gauges = Count(Lives, a, b, c)
  BY Walked DEF StatsInv
<1>4. node_created(gauges, n) = Count(Lives', a, b, c)
  BY <1>2, <1>3 DEF node_created, Count
<1>5. IsFiniteSet(edges') /\ IsFiniteSet(Observed') /\ Cardinality(edges') = a /\ Cardinality(Observed') = b
  BY <1>1, SameEdges DEF StatsInv, Countable
<1>6. /\ latched \subseteq {e \in Effects : life'[e] = "live"}
      /\ n \notin latched /\ latched \subseteq Effects /\ life'[n] = "live"
  BY <1>1 DEF Types, StatsInv, Countable
<1>7. CASE gauges' = node_created(gauges, n) /\ latched' = latched
  <2>1. gauges' = Count(Lives', Cardinality(edges'), Cardinality(Observed'), Cardinality(latched'))
    BY <1>4, <1>5, <1>7
  <2>2. QED
    BY <1>2, <1>5, <1>6, <1>7, <2>1, Settled
<1>8. CASE /\ n \in Effects /\ latched' = latched \cup {n}
           /\ gauges' = effects_queued(node_created(gauges, n), {n})
  <2>1. effects_queued(Count(Lives', a, b, c), {n}) = Count(Lives', a, b, Cardinality(latched'))
    <3>1. {n} \subseteq Effects /\ {n} \cap latched = {}
      BY <1>6, <1>8
    <3>2. QED
      BY <1>6, <1>8, <3>1, Latched
  <2>2. gauges' = Count(Lives', Cardinality(edges'), Cardinality(Observed'), Cardinality(latched'))
    BY <1>4, <1>5, <1>8, <2>1
  <2>3. latched' \subseteq {e \in Effects : life'[e] = "live"}
    BY <1>6, <1>8
  <2>4. QED
    BY <1>2, <1>5, <2>2, <2>3, Settled
<1>9. QED
  BY <1>7, <1>8

LEMMA ReadCounts ==
  ASSUME Types, StatsInv, NEW x \in Sources, Read(x)
  PROVE  StatsInv'
<1> DEFINE a == Cardinality(edges)
           b == Cardinality(Observed)
           e == <<Observer, x>>
<1>1. /\ Observer \in Observers /\ e \notin edges /\ edges' = edges \cup {e}
      /\ gauges' = [edge_added(gauges) EXCEPT !.observed = @ + (IF is_observed(x) THEN 0 ELSE 1)]
      /\ UNCHANGED <<life, latched>>
  BY DEF Read
<1>2. gauges = Count(Lives, a, b, Cardinality(latched))
  BY Walked DEF StatsInv
<1>3. IsFiniteSet(edges') /\ Cardinality(edges') = a + 1
  BY <1>1, FS_AddElement DEF StatsInv, Countable
<1>4. Observed' = Observed \cup {x} /\ (x \in Observed <=> is_observed(x))
  <2>1. \A y \in Sources : observers_of(y)' = observers_of(y) \cup (IF y = x THEN {Observer} ELSE {})
    BY <1>1 DEF observers_of
  <2>2. QED
    BY <2>1 DEF Observed, is_observed
<1>5. /\ IsFiniteSet(Observed')
      /\ Cardinality(Observed') = b + (IF is_observed(x) THEN 0 ELSE 1)
  <2>1. b \in Nat
    BY FS_CardinalityType DEF StatsInv, Countable
  <2>2. IsFiniteSet(Observed)
    BY DEF StatsInv, Countable
  <2>3. QED
    BY <1>4, <2>1, <2>2, FS_AddElement
<1>6. gauges' = Count(Lives, a + 1, b + (IF is_observed(x) THEN 0 ELSE 1), Cardinality(latched))
  BY <1>1, <1>2 DEF edge_added, Count
<1>7. gauges' = Count(Lives', Cardinality(edges'), Cardinality(Observed'), Cardinality(latched'))
  BY <1>1, <1>3, <1>5, <1>6, SameLife
<1>8. latched' \subseteq {f \in Effects : life'[f] = "live"} /\ \A k \in Kinds : IsFiniteSet(LiveOf(k)')
  BY <1>1, SameLife DEF StatsInv, Countable
<1>9. QED
  BY <1>3, <1>5, <1>7, <1>8, Settled

(* Live effects are queued, by a write or at the end of a run. *)
LEMMA ScheduleCounts ==
  ASSUME StatsInv, NEW E, E \subseteq {e \in Effects : life[e] = "live"}, Schedule(E),
         UNCHANGED <<life, edges>>
  PROVE  StatsInv'
<1> DEFINE a == Cardinality(edges)
           b == Cardinality(Observed)
           fresh == E \ latched
<1>1. latched' = latched \cup fresh /\ gauges' = effects_queued(gauges, fresh)
  BY DEF Schedule
<1>2. gauges = Count(Lives, a, b, Cardinality(latched))
  BY Walked DEF StatsInv
<1>3. latched \subseteq Effects /\ fresh \subseteq Effects /\ fresh \cap latched = {}
  BY DEF StatsInv, Countable
<1>4. gauges' = Count(Lives, a, b, Cardinality(latched'))
  BY <1>1, <1>2, <1>3, Latched
<1>5. gauges' = Count(Lives', Cardinality(edges'), Cardinality(Observed'), Cardinality(latched'))
  BY <1>4, SameEdges, SameLife
<1>6. latched' \subseteq {e \in Effects : life'[e] = "live"}
  BY <1>1 DEF StatsInv, Countable
<1>7. QED
  BY <1>5, <1>6, SameEdges, SameLife, Settled DEF StatsInv, Countable

LEMMA DisposeSourceCounts ==
  ASSUME Types, StatsInv, NEW x \in Sources, DisposeSource(x)
  PROVE  StatsInv'
<1> DEFINE a == Cardinality(edges)
           b == Cardinality(Observed)
           c == Cardinality(latched)
           E == {e \in edges : e[2] = x}
           l == IF is_observed(x) THEN 1 ELSE 0
<1>1. /\ life[x] = "live" /\ life' = [life EXCEPT ![x] = "gone"]
      /\ edges' = {e \in edges : e[2] # x} /\ UNCHANGED latched
      /\ gauges' = [edges_removed(node_disposed(gauges, x), Cardinality(observers_of(x)))
                      EXCEPT !.observed = Minus(@, l)]
  BY DEF DisposeSource, queue
<1>2. gauges = Count(Lives, a, b, c)
  BY Walked DEF StatsInv
<1>3. x \in Nodes
  BY DEF Nodes
<1>4. /\ Lives' = [Lives EXCEPT ![node_kind(x)] = Minus(@, 1)]
      /\ \A k \in Kinds : IsFiniteSet(LiveOf(k)')
  BY <1>1, <1>3, NodeDies DEF StatsInv
<1>5. /\ IsFiniteSet(edges') /\ Cardinality(edges') = Minus(a, Cardinality(E))
      /\ Cardinality(observers_of(x)) = Cardinality(E)
  <2>1. E \in SUBSET edges /\ edges' = edges \ E /\ IsFiniteSet(edges)
    BY <1>1 DEF StatsInv, Countable
  <2>2. QED
    BY <2>1, Taken, EdgesOfSource
<1>6. IsFiniteSet(Observed') /\ Cardinality(Observed') = Minus(b, l)
  <2>1. \A y \in Sources : observers_of(y)' = IF y = x THEN {} ELSE observers_of(y)
    BY <1>1 DEF observers_of
  <2>2. Observed' = Observed \ {x} /\ (x \in Observed <=> is_observed(x))
    BY <2>1 DEF Observed, is_observed
  <2>3. IsFiniteSet(Observed) /\ b \in Nat
    BY FS_CardinalityType DEF StatsInv, Countable
  <2>4. CASE is_observed(x)
    <3>1. {x} \in SUBSET Observed /\ Cardinality({x}) = 1
      BY <2>2, <2>4, FS_Singleton
    <3>2. QED
      BY <2>2, <2>3, <2>4, <3>1, Taken
  <2>5. CASE ~is_observed(x)
    <3>1. Observed' = Observed
      BY <2>2, <2>5
    <3>2. QED
      BY <2>3, <2>5, <3>1 DEF Minus
  <2>6. QED
    BY <2>4, <2>5
<1>7. gauges' = Count(Lives', Minus(a, Cardinality(E)), Minus(b, l), c)
  <2>1. node_disposed(gauges, x) = Count(Lives', a, b, c)
    BY <1>2, <1>4 DEF node_disposed, Count
  <2>2. edges_removed(Count(Lives', a, b, c), Cardinality(E)) = Count(Lives', Minus(a, Cardinality(E)), b, c)
    BY DEF edges_removed, Count
  <2>3. QED
    BY <1>1, <1>5, <2>1, <2>2 DEF Count
<1>8. latched' \subseteq {e \in Effects : life'[e] = "live"}
  <2>1. x \notin Effects
    BY ObservationAssumption
  <2>2. QED
    BY <1>1, <1>3, <2>1 DEF Types, StatsInv, Countable, Nodes, Observers
<1>9. gauges' = Count(Lives', Cardinality(edges'), Cardinality(Observed'), Cardinality(latched'))
  BY <1>1, <1>5, <1>6, <1>7
<1>10. QED
  BY <1>4, <1>5, <1>6, <1>8, <1>9, Settled

LEMMA DisposeObserverCounts ==
  ASSUME Types, StatsInv, NEW o \in Observers, DisposeObserver(o)
  PROVE  StatsInv'
<1> DEFINE a == Cardinality(edges)
           b == Cardinality(Observed)
           c == Cardinality(latched)
           g == effects_unqueued(node_disposed(gauges, o), {o} \cap latched)
<1>1. /\ life[o] = "live" /\ life' = [life EXCEPT ![o] = "gone"]
      /\ latched' = latched \ {o}
      /\ ClearDependencies(o, pending, g)
  BY DEF DisposeObserver
<1>2. gauges = Count(Lives, a, b, c)
  BY Walked DEF StatsInv
<1>3. o \in Nodes
  BY DEF Nodes
<1>4. /\ Lives' = [Lives EXCEPT ![node_kind(o)] = Minus(@, 1)]
      /\ \A k \in Kinds : IsFiniteSet(LiveOf(k)')
  BY <1>1, <1>3, NodeDies DEF StatsInv
<1>5. node_disposed(gauges, o) = Count(Lives', a, b, c)
  BY <1>2, <1>4 DEF node_disposed, Count
<1>6. g = Count(Lives', a, b, Cardinality(latched'))
  <2>1. latched \subseteq Effects
    BY DEF StatsInv, Countable
  <2>2. effects_unqueued(Count(Lives', a, b, c), {o} \cap latched)
          = Count(Lives', a, b, Cardinality(latched'))
    BY <1>1, <2>1, Unlatched
  <2>3. QED
    BY <1>5, <2>2
<1>7. /\ IsFiniteSet(edges') /\ IsFiniteSet(Observed')
      /\ gauges' = Count(Lives', Cardinality(edges'), Cardinality(Observed'), Cardinality(latched'))
  <2>1. ClearDependencies(o, pending, Count(Lives', a, b, Cardinality(latched')))
    BY <1>1, <1>6
  <2>2. PICK L, q : L = Lives' /\ q = Cardinality(latched')
    OBVIOUS
  <2>3. ClearDependencies(o, pending, Count(L, a, b, q))
    BY <2>1, <2>2
  <2>4. QED
    BY <2>2, <2>3, ClearCounts DEF StatsInv
<1>8. latched' \subseteq {e \in Effects : life'[e] = "live"}
  BY <1>1, <1>3 DEF Types, StatsInv, Countable, Nodes, Observers
<1>9. QED
  BY <1>4, <1>7, <1>8, Settled

(* A run starts: the observer loses its edges, and an effect its latch. *)
LEMMA StartCounts ==
  ASSUME Types, StatsInv, NEW n \in Observers, NEW jobs, NEW g,
         StartRun(n, jobs, g), latched' \subseteq latched,
         g = Count(Lives, Cardinality(edges), Cardinality(Observed), Cardinality(latched'))
  PROVE  StatsInv'
<1>1. ClearDependencies(n, jobs, g) /\ UNCHANGED life
  BY DEF StartRun
<1>2. PICK L, q : L = Lives /\ q = Cardinality(latched')
  OBVIOUS
<1>3. ClearDependencies(n, jobs, Count(L, Cardinality(edges), Cardinality(Observed), q))
  BY <1>1, <1>2
<1>4. /\ IsFiniteSet(edges') /\ IsFiniteSet(Observed')
      /\ gauges' = Count(L, Cardinality(edges'), Cardinality(Observed'), q)
  BY <1>3, ClearCounts DEF StatsInv
<1>5. gauges' = Count(Lives', Cardinality(edges'), Cardinality(Observed'), Cardinality(latched'))
  BY <1>1, <1>2, <1>4, SameLife
<1>6. /\ latched' \subseteq {e \in Effects : life'[e] = "live"}
      /\ \A k \in Kinds : IsFiniteSet(LiveOf(k)')
  BY <1>1, SameLife DEF StatsInv, Countable
<1>7. QED
  BY <1>4, <1>5, <1>6, Settled

LEMMA RunEffectCounts ==
  ASSUME Types, StatsInv, RunEffect
  PROVE  StatsInv'
<1> DEFINE e == Head(pending)
           g == effects_unqueued(gauges, {e} \cap latched)
<1>1. /\ e \in Effects /\ latched' = latched \ {e}
      /\ \/ gauges' = g /\ UNCHANGED <<life, edges>>
         \/ StartRun(e, Tail(pending), g)
  BY DEF RunEffect, nodes
<1>2. gauges = Count(Lives, Cardinality(edges), Cardinality(Observed), Cardinality(latched))
  BY Walked DEF StatsInv
<1>3. g = Count(Lives, Cardinality(edges), Cardinality(Observed), Cardinality(latched'))
  <2>1. latched \subseteq Effects
    BY DEF StatsInv, Countable
  <2>2. QED
    BY <1>1, <1>2, <2>1, Unlatched
<1>4. e \in Observers /\ latched' \subseteq latched
  BY <1>1 DEF Observers
<1>5. CASE gauges' = g /\ UNCHANGED <<life, edges>>
  <2>1. gauges' = Count(Lives', Cardinality(edges'), Cardinality(Observed'), Cardinality(latched'))
    BY <1>3, <1>5, SameEdges, SameLife
  <2>2. QED
    BY <1>4, <1>5, <2>1, SameEdges, SameLife, Settled DEF StatsInv, Countable
<1>6. CASE StartRun(e, Tail(pending), g)
  <2> HIDE DEF e, g
  <2>1. QED
    BY <1>3, <1>4, <1>6, StartCounts
<1>7. QED
  BY <1>1, <1>5, <1>6

LEMMA StatsStep ==
  ASSUME Types, StatsInv, [Next]_vars
  PROVE  StatsInv'
<1>1. CASE \E x \in Sources : CreateSource(x) \/ Read(x) \/ Write(x) \/ DisposeSource(x)
  <2>1. PICK x \in Sources : CreateSource(x) \/ Read(x) \/ Write(x) \/ DisposeSource(x)
    BY <1>1
  <2>2. CASE CreateSource(x)
    BY <2>2, CreateCounts DEF CreateSource, Nodes
  <2>3. CASE Write(x)
    <3> DEFINE E == {o \in observers_of(x) : life[o] = "live"} \cap Effects
    <3>1. Schedule(E) /\ UNCHANGED <<life, edges>>
      BY <2>3 DEF Write
    <3>2. E \subseteq {e \in Effects : life[e] = "live"}
      OBVIOUS
    <3>3. QED
      BY <3>1, <3>2, ScheduleCounts
  <2>4. QED
    BY <2>1, <2>2, <2>3, ReadCounts, DisposeSourceCounts
<1>2. CASE \E c \in Computed : CreateComputed(c) \/ Peek(c)
  <2>1. PICK c \in Computed : CreateComputed(c) \/ Peek(c)
    BY <1>2
  <2>2. c \in Observers /\ c \in Nodes
    BY DEF Observers, Nodes
  <2>3. CASE CreateComputed(c)
    BY <2>2, <2>3, CreateCounts DEF CreateComputed
  <2>4. CASE Peek(c)
    <3>1. StartRun(c, pending, gauges) /\ UNCHANGED latched
      BY <2>4 DEF Peek
    <3>2. gauges = Count(Lives, Cardinality(edges), Cardinality(Observed), Cardinality(latched'))
      BY <3>1, Walked DEF StatsInv
    <3>3. QED
      BY <2>2, <3>1, <3>2, StartCounts
  <2>5. QED
    BY <2>1, <2>3, <2>4
<1>3. CASE \E e \in Effects : CreateEffect(e)
  <2>1. PICK e \in Effects : CreateEffect(e)
    BY <1>3
  <2>2. e \in Nodes
    BY DEF Nodes, Observers
  <2>3. QED
    BY <2>1, <2>2, CreateCounts DEF CreateEffect
<1>4. CASE \E o \in Observers : DisposeObserver(o)
  BY <1>4, DisposeObserverCounts
<1>5. CASE \/ \E s \in Subscribers : Listen(s)
           \/ OpenDrain \/ OpenExternal \/ CloseFlush \/ HookReturn \/ Panic
  <2>1. UNCHANGED graphVars
    BY <1>5 DEF Listen, OpenDrain, OpenExternal, CloseFlush, HookReturn, Panic
  <2>2. QED
    BY <2>1, SameCounts DEF graphVars, nodes, queue
<1>6. CASE RunEffect
  BY <1>6, RunEffectCounts
<1>7. CASE RunHook \/ UnwindRun
  BY <1>7, SameCounts DEF RunHook, UnwindRun, nodes, queue
<1>8. CASE FinishRun
  <2> DEFINE owed == IF Top.node \in rerun /\ life[Top.node] = "live" THEN {Top.node} ELSE {}
  <2>1. Schedule(owed) /\ UNCHANGED <<life, edges>>
    BY <1>8 DEF FinishRun, nodes
  <2>2. owed \subseteq {e \in Effects : life[e] = "live"}
    BY DEF Types
  <2>3. QED
    BY <2>1, <2>2, ScheduleCounts
<1>9. CASE UNCHANGED vars
  BY <1>9, SameCounts DEF vars, nodes, queue
<1>10. QED
  BY <1>1, <1>2, <1>3, <1>4, <1>5, <1>6, <1>7, <1>8, <1>9 DEF Next, Continue

LEMMA InitStats == Init => StatsInv
<1> SUFFICES ASSUME Init PROVE StatsInv
  OBVIOUS
<1>1. \A k \in Kinds : LiveOf(k) = {}
  BY DEF Init, LiveOf
<1>2. edges = {} /\ Observed = {} /\ latched = {}
  BY DEF Init, Observed, is_observed, observers_of
<1>3. Countable
  BY <1>1, <1>2, FS_EmptySet DEF Countable
<1>4. Lives = [k \in Kinds |-> 0]
  BY <1>1, FS_EmptySet DEF Lives
<1>5. gauges = Count([k \in Kinds |-> 0], 0, 0, 0)
  BY DEF Init, Count
<1>6. QED
  BY <1>2, <1>3, <1>4, <1>5, Walked, FS_EmptySet DEF StatsInv

(* graph_stats never walks the graph and says what a walk would find: the   *)
(* gauges agree with the maps after every operation, whatever is disposed   *)
(* while it has edges, a latch or a run under way.                          *)
THEOREM StatsCorrect == Spec => []StatsAgree
<1>1. Types /\ HooksInv /\ StatsInv /\ [Next]_vars => StatsInv'
  BY StatsStep
<1>2. StatsInv => StatsAgree
  BY DEF StatsInv
<1>3. QED
  BY InitStats, <1>1, <1>2, HooksInvariant, PTL DEF Spec

-----------------------------------------------------------------------------
(* What subscribers hear: the inductive invariant.                         *)

StackFrames ==
  [kind : FlushKinds \cup {"run", "hook"}, epoch : Nat, node : Nodes \cup {None}, heard : BOOLEAN]
Slots == [epoch : Nat, work : Nat]
Things ==
  {FlushSpan(e) : e \in Nat} \cup {NodeSpan(n) : n \in Nodes} \cup {RunSpan(n) : n \in Nodes}

SpanTypes ==
  /\ subscribed \subseteq Subscribers /\ witnesses \subseteq subscribed
  /\ flush_epoch \in Nat /\ open_flush_epoch \in Nat
  /\ stack \in Seq(StackFrames)
  /\ slots \in Seq(Slots) /\ outside \in Nat
  /\ spans \in [Subscribers -> SUBSET Things]
  /\ \A s \in Subscribers \ subscribed : spans[s] = {}
  /\ unit \in [done : BOOLEAN, at : Nat] /\ reported \in Seq(Nat)

(* Epochs of the flushes under way, and of those that have a slot. *)
Opened == {stack[i].epoch : i \in Timed}
Totalled == {slots[k].epoch : k \in DOMAIN slots}

(* Flushes are stacked in the order of their epochs, the external one is    *)
(* the one the reactor remembers, and nobody runs twice.                    *)
StackInv ==
  /\ \A i \in Timed : stack[i].epoch <= flush_epoch
  /\ \A i, j \in Timed : i < j => stack[i].epoch < stack[j].epoch
  /\ \A i \in Timed : stack[i].kind = "external" => stack[i].epoch = open_flush_epoch
  /\ \A i, j \in Places({"run"}) : stack[i].node = stack[j].node => i = j
  /\ \A i \in Places({"run"}) : stack[i].node \in Observers

(* The slots are those of the innermost flushes: whoever subscribes in the  *)
(* middle gets totals only for what opens from then on.                     *)
SlotsInv ==
  /\ \A k, l \in DOMAIN slots : k < l => slots[k].epoch < slots[l].epoch
  /\ Totalled \subseteq Opened
  /\ \A e \in Opened, d \in Totalled : d <= e => e \in Totalled
  /\ subscribed = {} => slots = <<>> /\ outside = 0

(* A flush is heard of only if it has a slot, a run only if its frame says  *)
(* so: the end of each is sent to those who took it for under way.          *)
HeardInv ==
  /\ TakenForReal
  /\ \A s \in Subscribers : \A e \in Nat : FlushSpan(e) \in spans[s] => e \in Totalled
  /\ \A i \in Places({"run"}) : ~stack[i].heard =>
       /\ witnesses = {}
       /\ \A s \in Subscribers : RunSpan(stack[i].node) \notin spans[s]

(* With one subscriber, whoever is subscribed has heard every slot begin. *)
Alone == \A s, t \in Subscribers : s = t
AloneInv ==
  /\ orphans = {}
  /\ \A s \in subscribed : \A e \in Totalled : FlushSpan(e) \in spans[s]

(* The unit of work is nowhere, or in one place, where its flush will find  *)
(* it: reported by its flush, outside any and due to the next flush, or in  *)
(* the slot of its flush.                                                   *)
NoneButIn(S) == \A k \in DOMAIN slots : k \notin S => slots[k].work = 0
Unreported == reported = <<>> /\ outside = 0
IsNowhere == unit.at = 0 /\ Unreported /\ NoneButIn({})
IsReported ==
  /\ unit.at > 0 /\ outside = 0 /\ NoneButIn({})
  /\ Len(reported) = 1 /\ reported[1] = unit.at
IsOutside == unit.at = flush_epoch + 1 /\ reported = <<>> /\ outside = 1 /\ NoneButIn({})
IsInSlot ==
  /\ unit.at > 0 /\ Unreported
  /\ \E k \in DOMAIN slots : slots[k].work = 1 /\ slots[k].epoch = unit.at /\ NoneButIn({k})
CountInv ==
  /\ IsNowhere \/ IsReported \/ IsOutside \/ IsInSlot
  /\ ~unit.done => unit.at = 0
  /\ 0 \notin Totalled

-----------------------------------------------------------------------------
(* As far as spans go, every step is one of these.                         *)

Worked == UNCHANGED reported /\ (Work \/ NoWork)
Quietly == UNCHANGED <<subscribed, epochs, witnesses, orphans, reported>>

Works ==
  /\ Worked
  /\ UNCHANGED <<subscribed, epochs, stack, heard, life>>

NodeBegins(n) ==
  /\ Quietly /\ Worked
  /\ UNCHANGED stack
  /\ life' = [life EXCEPT ![n] = "live"]
  /\ Begins(NodeSpan(n))

NodeEnds(n) ==
  /\ Quietly /\ Worked
  /\ UNCHANGED stack
  /\ life' = [life EXCEPT ![n] = "gone"]
  /\ Ends(NodeSpan(n))

RunBegins(n) ==
  /\ Quietly /\ Worked
  /\ UNCHANGED life
  /\ ~Running(n)
  /\ stack' = Append(stack, Run(n))
  /\ Begins(RunSpan(n))

RunReturns ==
  /\ Quietly /\ Worked
  /\ UNCHANGED life
  /\ OnTop("run")
  /\ stack' = Front(stack)
  /\ EndSpan

HookBegins ==
  /\ Quietly /\ NoWork
  /\ UNCHANGED <<life, spans>>
  /\ stack' = Append(stack, HookCall)

HookReturns ==
  /\ Quietly /\ NoWork
  /\ UNCHANGED <<life, spans>>
  /\ OnTop("hook")
  /\ stack' = Front(stack)

FlushEnds ==
  /\ UNCHANGED life
  /\ ~Idle /\ Top.kind \in FlushKinds
  /\ PopFlush

SpanStep ==
  \/ Works
  \/ \E n \in Nodes : NodeBegins(n) \/ NodeEnds(n)
  \/ \E n \in Observers : RunBegins(n)
  \/ RunReturns
  \/ HookBegins \/ HookReturns
  \/ UNCHANGED life /\ \E s \in Subscribers : Subscribe(s) \/ Unsubscribe(s)
  \/ UNCHANGED life /\ (PushDrain \/ PushExternal)
  \/ FlushEnds

LEMMA NextIsSpanStep ==
  ASSUME [Next]_vars
  PROVE  SpanStep
<1>1. CASE \E x \in Sources : CreateSource(x) \/ Read(x) \/ Write(x) \/ DisposeSource(x)
  <2>1. PICK x \in Sources : CreateSource(x) \/ Read(x) \/ Write(x) \/ DisposeSource(x)
    BY <1>1
  <2>2. x \in Nodes
    BY DEF Nodes
  <2>3. CASE CreateSource(x)
    <3>1. NodeBegins(x)
      BY <2>3 DEF CreateSource, allocate_node, NodeBegins, Quietly, Worked, NoWork
    <3>2. QED
      BY <2>2, <3>1 DEF SpanStep
  <2>4. CASE Read(x)
    BY <2>4 DEF Read, SpanStep, Works, Worked
  <2>5. CASE Write(x)
    BY <2>5 DEF Write, SpanStep, Works, Worked
  <2>6. CASE DisposeSource(x)
    <3>1. NodeEnds(x)
      BY <2>6 DEF DisposeSource, NodeEnds, Quietly, Worked
    <3>2. QED
      BY <2>2, <3>1 DEF SpanStep
  <2>7. QED
    BY <2>1, <2>3, <2>4, <2>5, <2>6
<1>2. CASE \E c \in Computed : CreateComputed(c) \/ Peek(c)
  <2>1. PICK c \in Computed : CreateComputed(c) \/ Peek(c)
    BY <1>2
  <2>2. c \in Observers /\ c \in Nodes
    BY DEF Observers, Nodes
  <2>3. CASE CreateComputed(c)
    <3>1. NodeBegins(c)
      BY <2>3 DEF CreateComputed, allocate_node, NodeBegins, Quietly, Worked, NoWork
    <3>2. QED
      BY <2>2, <3>1 DEF SpanStep
  <2>4. CASE Peek(c)
    <3>1. RunBegins(c)
      BY <2>4 DEF Peek, StartRun, RunBegins, Quietly, Worked
    <3>2. QED
      BY <2>2, <3>1 DEF SpanStep
  <2>5. QED
    BY <2>1, <2>3, <2>4
<1>3. CASE \E e \in Effects : CreateEffect(e)
  <2>1. PICK e \in Effects : CreateEffect(e)
    BY <1>3
  <2>2. e \in Nodes
    BY DEF Nodes, Observers
  <2>3. NodeBegins(e)
    BY <2>1 DEF CreateEffect, allocate_node, NodeBegins, Quietly, Worked
  <2>4. QED
    BY <2>2, <2>3 DEF SpanStep
<1>4. CASE \E o \in Observers : DisposeObserver(o)
  <2>1. PICK o \in Observers : DisposeObserver(o)
    BY <1>4
  <2>2. NodeEnds(o)
    BY <2>1 DEF DisposeObserver, NodeEnds, Quietly, Worked
  <2>3. QED
    BY <2>2 DEF SpanStep, Nodes
<1>5. CASE \E s \in Subscribers : Listen(s)
  BY <1>5 DEF Listen, graphVars, nodes, SpanStep
<1>6. CASE OpenDrain
  BY <1>6 DEF OpenDrain, graphVars, nodes, SpanStep
<1>7. CASE OpenExternal
  BY <1>7 DEF OpenExternal, graphVars, nodes, SpanStep
<1>8. CASE CloseFlush
  <2>1. ~Idle /\ Top.kind \in FlushKinds
    BY <1>8 DEF CloseFlush, OnTop, FlushKinds
  <2>2. FlushEnds
    BY <1>8, <2>1 DEF CloseFlush, FlushEnds, graphVars, nodes
  <2>3. QED
    BY <2>2 DEF SpanStep
<1>9. CASE RunEffect
  <2> DEFINE e == Head(pending)
  <2>1. CASE life[e] # "live" \/ Running(e) \/ e \notin stale
    BY <1>9, <2>1 DEF RunEffect, nodes, SpanStep, Works, Worked, NoWork
  <2>2. CASE ~(life[e] # "live" \/ Running(e) \/ e \notin stale)
    <3>1. e \in Observers
      BY <1>9 DEF RunEffect, Observers
    <3>2. RunBegins(e)
      BY <1>9, <2>2 DEF RunEffect, StartRun, RunBegins, Quietly, Worked
    <3>3. QED
      BY <3>1, <3>2 DEF SpanStep
  <2>3. QED
    BY <2>1, <2>2
<1>10. CASE RunHook
  <2>1. CASE UNCHANGED stack
    BY <1>10, <2>1 DEF RunHook, history, nodes, totals, SpanStep, Works, Worked, NoWork
  <2>2. CASE stack' = Append(stack, HookCall)
    BY <1>10, <2>2 DEF RunHook, history, nodes, totals, heard, SpanStep, HookBegins, Quietly, NoWork
  <2>3. QED
    BY <1>10, <2>1, <2>2 DEF RunHook
<1>11. CASE HookReturn
  BY <1>11 DEF HookReturn, history, graphVars, nodes, totals, heard, SpanStep, HookReturns, Quietly, NoWork
<1>12. CASE FinishRun
  BY <1>12 DEF FinishRun, nodes, SpanStep, RunReturns, Quietly, Worked, NoWork
<1>13. CASE UnwindRun
  BY <1>13 DEF UnwindRun, totals, history, SpanStep, RunReturns, Quietly, Worked, NoWork
<1>14. CASE Panic \/ UNCHANGED vars
  BY <1>14 DEF Panic, vars, spanVars, graphVars, nodes, totals, history, SpanStep, Works, Worked, NoWork
<1>15. QED
  BY <1>1, <1>2, <1>3, <1>4, <1>5, <1>6, <1>7, <1>8, <1>9, <1>10, <1>11, <1>12, <1>13, <1>14
  DEF Next, Continue

-----------------------------------------------------------------------------
(* Stacks and sets of positions.                                           *)

(* A set of positions that is not empty has a largest one. *)
LEMMA MaxOfPositions ==
  ASSUME NEW n \in Nat, NEW S \in SUBSET (1 .. n), S # {}
  PROVE Max(S) \in S /\ \A y \in S : y <= Max(S)
<1> DEFINE Above(x) == {y \in S : y > x}
<1> DEFINE D == {Above(x) : x \in S}
<1>1. IsFiniteSet(S)
  BY FS_Interval, FS_Subset, 1 \in Int, n \in Int
<1>2. D \subseteq FiniteSubsetsOf(S) /\ D # {}
  <2>1. \A x \in S : Above(x) \in SUBSET S
    OBVIOUS
  <2>2. \A x \in S : IsFiniteSet(Above(x))
    BY <1>1, <2>1, FS_Subset
  <2>3. \A d \in D : d \in FiniteSubsetsOf(S)
    BY <2>1, <2>2 DEF FiniteSubsetsOf
  <2>4. QED
    BY <2>3
<1>3. PICK d \in D : \A e \in D : ~ (<<e, d>> \in StrictSubsetOrdering(S))
  BY <1>2, FS_StrictSubsetOrderingWellFounded, WFMin
<1>4. PICK x \in S : d = Above(x)
  OBVIOUS
<1>5. \A y \in S : y <= x
  <2> SUFFICES ASSUME NEW y \in S, y > x PROVE FALSE
    OBVIOUS
  <2>1. Above(y) \in D /\ d \subseteq S /\ Above(y) \subseteq S
    BY <1>4
  <2>2. Above(y) \subseteq d /\ Above(y) # d
    <3>1. y \in d /\ y \notin Above(y)
      BY <1>4
    <3>2. \A z \in Above(y) : z \in d
      BY <1>4
    <3>3. QED
      BY <3>1, <3>2
  <2>3. <<Above(y), d>> \in StrictSubsetOrdering(S)
    BY <2>1, <2>2 DEF StrictSubsetOrdering
  <2>4. QED
    BY <1>3, <2>1, <2>3
<1>6. QED
  BY <1>5 DEF Max

(* What a list is after an entry is appended. *)
LEMMA Appended ==
  ASSUME NEW S, NEW s \in Seq(S), NEW x \in S
  PROVE  /\ Append(s, x) \in Seq(S) /\ Append(s, x) # <<>>
         /\ Len(Append(s, x)) = Len(s) + 1
         /\ DOMAIN Append(s, x) = 1 .. Len(s) + 1
         /\ DOMAIN s = 1 .. Len(s)
         /\ \A i \in 1 .. Len(s) : Append(s, x)[i] = s[i]
         /\ Append(s, x)[Len(s) + 1] = x
OBVIOUS

(* What is left of a list without its last entry. *)
LEMMA Shortened ==
  ASSUME NEW S, NEW s \in Seq(S), s # <<>>
  PROVE  /\ Front(s) \in Seq(S) /\ Len(Front(s)) = Len(s) - 1 /\ Len(s) \in Nat \ {0}
         /\ DOMAIN Front(s) = 1 .. Len(s) - 1 /\ DOMAIN s = 1 .. Len(s)
         /\ \A i \in 1 .. Len(s) - 1 : Front(s)[i] = s[i]
         /\ Last(s) \in S /\ Last(s) = s[Len(s)]
<1>1. Len(s) \in Nat \ {0}
  BY EmptySeq
<1>2. Len(s) - 1 \in 0 .. Len(s) /\ Len(s) \in 1 .. Len(s)
  BY <1>1
<1>3. /\ Front(s) \in Seq(S) /\ Len(Front(s)) = Len(s) - 1
      /\ \A i \in 1 .. Len(s) - 1 : Front(s)[i] = s[i]
  <2>1. ASSUME NEW n \in 0 .. Len(s)
        PROVE  /\ SubSeq(s, 1, n) \in Seq(S) /\ Len(SubSeq(s, 1, n)) = n
               /\ \A i \in 1 .. n : SubSeq(s, 1, n)[i] = s[i]
    OBVIOUS
  <2>2. QED
    BY <1>2, <2>1 DEF Front
<1>4. DOMAIN Front(s) = 1 .. Len(s) - 1 /\ DOMAIN s = 1 .. Len(s)
  BY <1>3, LenProperties
<1>5. Last(s) \in S /\ Last(s) = s[Len(s)]
  BY <1>2, ElementOfSeq DEF Last
<1>6. QED
  BY <1>1, <1>3, <1>4, <1>5

LEMMA Pushing ==
  ASSUME SpanTypes, NEW f \in StackFrames, stack' = Append(stack, f), NEW K
  PROVE  /\ stack' \in Seq(StackFrames)
         /\ Len(stack) \in Nat /\ Places(K) \subseteq 1 .. Len(stack)
         /\ \A i \in Places(K) : stack'[i] = stack[i]
         /\ stack'[Len(stack) + 1] = f
         /\ Places(K)' = Places(K) \cup (IF f.kind \in K THEN {Len(stack) + 1} ELSE {})
<1>1. stack \in Seq(StackFrames) /\ Len(stack) \in Nat
  BY DEF SpanTypes
<1>2. /\ stack' \in Seq(StackFrames)
      /\ DOMAIN stack' = 1 .. Len(stack) + 1 /\ DOMAIN stack = 1 .. Len(stack)
      /\ \A i \in 1 .. Len(stack) : stack'[i] = stack[i]
      /\ stack'[Len(stack) + 1] = f
  BY <1>1, Appended
<1>3. Places(K) \subseteq 1 .. Len(stack)
  BY <1>2 DEF Places
<1>4. Places(K)' = Places(K) \cup (IF f.kind \in K THEN {Len(stack) + 1} ELSE {})
  <2>1. Places(K)' = {i \in 1 .. Len(stack) + 1 : stack'[i].kind \in K}
    BY <1>2 DEF Places
  <2>2. Places(K) = {i \in 1 .. Len(stack) : stack[i].kind \in K}
    BY <1>2 DEF Places
  <2>3. QED
    BY <1>1, <1>2, <2>1, <2>2
<1>5. QED
  BY <1>1, <1>2, <1>3, <1>4

LEMMA PushingOther ==
  ASSUME SpanTypes, NEW f \in StackFrames, stack' = Append(stack, f), NEW K, f.kind \notin K
  PROVE  Places(K)' = Places(K) /\ \A i \in Places(K) : stack'[i] = stack[i]
<1>1. /\ \A i \in Places(K) : stack'[i] = stack[i]
      /\ Places(K)' = Places(K) \cup (IF f.kind \in K THEN {Len(stack) + 1} ELSE {})
  BY Pushing
<1>2. QED
  BY <1>1

LEMMA Popping ==
  ASSUME SpanTypes, ~Idle, stack' = Front(stack), NEW K
  PROVE  /\ stack' \in Seq(StackFrames)
         /\ Len(stack) \in Nat \ {0} /\ Top = stack[Len(stack)] /\ Top \in StackFrames
         /\ Places(K)' = Places(K) \ {Len(stack)}
         /\ Len(stack) \in Places(K) <=> Top.kind \in K
         /\ \A i \in Places(K) : i \in 1 .. Len(stack)
         /\ \A i \in Places(K)' : stack'[i] = stack[i] /\ i < Len(stack)
<1>1. stack \in Seq(StackFrames) /\ stack # <<>>
  BY DEF SpanTypes, Idle
<1>2. /\ stack' \in Seq(StackFrames) /\ Len(stack) \in Nat \ {0}
      /\ DOMAIN stack' = 1 .. Len(stack) - 1 /\ DOMAIN stack = 1 .. Len(stack)
      /\ \A i \in 1 .. Len(stack) - 1 : stack'[i] = stack[i]
      /\ Top \in StackFrames /\ Top = stack[Len(stack)]
  BY <1>1, Shortened DEF Top
<1>3. Places(K)' = {i \in 1 .. Len(stack) - 1 : stack'[i].kind \in K}
  BY <1>2 DEF Places
<1>4. Places(K) = {i \in 1 .. Len(stack) : stack[i].kind \in K}
  BY <1>2 DEF Places
<1>5. /\ Places(K)' = Places(K) \ {Len(stack)}
      /\ Len(stack) \in Places(K) <=> Top.kind \in K
      /\ \A i \in Places(K)' : stack'[i] = stack[i] /\ i < Len(stack)
  BY <1>2, <1>3, <1>4
<1>6. QED
  BY <1>2, <1>4, <1>5

LEMMA PoppingOther ==
  ASSUME SpanTypes, ~Idle, stack' = Front(stack), NEW K, Top.kind \notin K
  PROVE  Places(K)' = Places(K) /\ \A i \in Places(K) : stack'[i] = stack[i]
<1>1. /\ Places(K)' = Places(K) \ {Len(stack)} /\ Len(stack) \notin Places(K)
      /\ \A i \in Places(K)' : stack'[i] = stack[i]
  BY Popping
<1>2. QED
  BY <1>1

(* The innermost flush with totals is the one on top of them all. *)
LEMMA InnermostFlush ==
  ASSUME SpanTypes, StackInv, SlotsInv, slots # <<>>
  PROVE  /\ Max(Timed) \in Timed /\ Len(slots) \in DOMAIN slots
         /\ stack[Max(Timed)].epoch = slots[Len(slots)].epoch
         /\ slots[Len(slots)].epoch \in Nat
<1>1. Len(slots) \in Nat \ {0} /\ DOMAIN slots = 1 .. Len(slots) /\ slots \in Seq(Slots)
  BY EmptySeq DEF SpanTypes
<1>2. Len(slots) \in DOMAIN slots /\ slots[Len(slots)] \in Slots
  BY <1>1
<1> DEFINE d == slots[Len(slots)].epoch
<1>3. d \in Totalled /\ d \in Nat
  BY <1>2 DEF Totalled, Slots
<1>4. PICK j \in Timed : d = stack[j].epoch
  BY <1>3 DEF SlotsInv, Opened
<1>5. stack \in Seq(StackFrames) /\ Len(stack) \in Nat /\ DOMAIN stack = 1 .. Len(stack)
  BY DEF SpanTypes
<1>6. Timed \in SUBSET (1 .. Len(stack))
  BY <1>5 DEF Timed, Places
<1>7. PICK m \in Timed : m = Max(Timed) /\ \A y \in Timed : y <= m
  BY <1>4, <1>5, <1>6, MaxOfPositions
<1> DEFINE e == stack[m].epoch
<1>8. m \in 1 .. Len(stack) /\ j \in 1 .. Len(stack) /\ e \in Nat
  <2>1. m \in 1 .. Len(stack) /\ j \in 1 .. Len(stack)
    BY <1>6
  <2>2. stack[m] \in StackFrames
    BY <1>5, <2>1
  <2>3. QED
    BY <2>1, <2>2 DEF StackFrames
<1>9. d <= e
  <2>1. CASE j = m
    BY <1>4, <1>8, <2>1
  <2>2. CASE j < m
    BY <1>3, <1>4, <1>8, <2>2 DEF StackInv
  <2>3. QED
    BY <1>7, <1>8, <2>1, <2>2
<1>10. e \in Totalled
  BY <1>3, <1>9 DEF SlotsInv, Opened
<1>11. PICK k \in DOMAIN slots : e = slots[k].epoch
  BY <1>10 DEF Totalled
<1>12. e <= d
  <2>1. CASE k = Len(slots)
    BY <1>3, <1>11, <2>1
  <2>2. CASE k < Len(slots)
    BY <1>2, <1>3, <1>8, <1>11, <2>2 DEF SlotsInv
  <2>3. QED
    BY <1>1, <2>1, <2>2
<1>13. d = e
  BY <1>3, <1>8, <1>9, <1>12
<1>14. QED
  BY <1>2, <1>3, <1>7, <1>13

(* Work adds to a slot or to what is outside, and moves nothing. *)
LEMMA WorkKeeps ==
  ASSUME SpanTypes, StackInv, SlotsInv, Worked
  PROVE  /\ slots' \in Seq(Slots) /\ outside' \in Nat
         /\ DOMAIN slots' = DOMAIN slots /\ (slots' = <<>> <=> slots = <<>>)
         /\ \A k \in DOMAIN slots : slots'[k].epoch = slots[k].epoch
         /\ subscribed = {} => slots' = slots /\ outside' = outside
         /\ unit' \in [done : BOOLEAN, at : Nat] /\ reported' \in Seq(Nat)
         /\ Totalled' = Totalled
<1>1. CASE NoWork
  BY <1>1 DEF NoWork, totals, Worked, SpanTypes, Totalled
<1>2. CASE Work
  <2>1. PICK w \in {0, 1} :
          /\ Record(w)
          /\ unit' = IF w = 0 THEN unit
                     ELSE UnitAt(IF subscribed = {} THEN 0
                                 ELSE IF slots # <<>> THEN stack[Max(Timed)].epoch
                                 ELSE flush_epoch + 1)
    BY <1>2 DEF Work, Amounts
  <2>2. unit' \in [done : BOOLEAN, at : Nat]
    <3>1. slots # <<>> => stack[Max(Timed)].epoch \in Nat
      BY InnermostFlush
    <3>2. unit \in [done : BOOLEAN, at : Nat] /\ flush_epoch + 1 \in Nat
      BY DEF SpanTypes
    <3>3. QED
      BY <2>1, <3>1, <3>2 DEF UnitAt
  <2>3. /\ slots' \in Seq(Slots) /\ outside' \in Nat
        /\ DOMAIN slots' = DOMAIN slots /\ (slots' = <<>> <=> slots = <<>>)
        /\ \A k \in DOMAIN slots : slots'[k].epoch = slots[k].epoch
        /\ subscribed = {} => slots' = slots /\ outside' = outside
    <3>1. CASE subscribed = {}
      BY <2>1, <3>1 DEF Record, totals, SpanTypes
    <3>2. CASE subscribed # {} /\ slots = <<>>
      <4>1. outside' = outside + w /\ UNCHANGED slots
        BY <2>1, <3>2 DEF Record
      <4>2. outside + w \in Nat
        BY DEF SpanTypes
      <4>3. QED
        BY <3>2, <4>1, <4>2 DEF SpanTypes
    <3>3. CASE subscribed # {} /\ slots # <<>>
      <4>1. slots' = [slots EXCEPT ![Len(slots)].work = @ + w] /\ UNCHANGED outside
        BY <2>1, <3>3 DEF Record
      <4>2. slots \in Seq(Slots) /\ Len(slots) \in Nat \ {0} /\ DOMAIN slots = 1 .. Len(slots)
        BY <3>3, EmptySeq DEF SpanTypes
      <4>3. Len(slots) \in 1 .. Len(slots)
        BY <4>2
      <4>4. [slots[Len(slots)] EXCEPT !.work = @ + w] \in Slots
            /\ [slots[Len(slots)] EXCEPT !.work = @ + w].epoch = slots[Len(slots)].epoch
        <5>1. slots[Len(slots)] \in Slots
          BY <4>2, <4>3
        <5>2. QED
          BY <5>1 DEF Slots
      <4>5. PICK x \in Slots : /\ x = [slots[Len(slots)] EXCEPT !.work = @ + w]
                               /\ x.epoch = slots[Len(slots)].epoch
        BY <4>4
      <4>6. slots' = [slots EXCEPT ![Len(slots)] = x]
        BY <4>1, <4>5
      <4>7. /\ slots' \in Seq(Slots) /\ Len(slots') = Len(slots)
            /\ \A i \in 1 .. Len(slots) : slots'[i] = IF i = Len(slots) THEN x ELSE slots[i]
        BY <4>2, <4>3, <4>6, ExceptSeq
      <4>8. DOMAIN slots' = DOMAIN slots /\ slots' # <<>>
        BY <4>2, <4>6, <4>7
      <4>9. \A k \in DOMAIN slots : slots'[k].epoch = slots[k].epoch
        BY <4>2, <4>5, <4>7
      <4>10. QED
        BY <3>3, <4>1, <4>7, <4>8, <4>9 DEF SpanTypes
    <3>4. QED
      BY <3>1, <3>2, <3>3
  <2>4. Totalled' = Totalled
    BY <2>3 DEF Totalled
  <2>5. reported' \in Seq(Nat)
    BY DEF Worked, SpanTypes
  <2>6. QED
    BY <2>2, <2>3, <2>4, <2>5
<1>3. QED
  BY <1>1, <1>2 DEF Worked

-----------------------------------------------------------------------------
(* The operations of FlushSpans.                                           *)

LEMMA ThingsAre ==
  /\ \A e \in Nat : FlushSpan(e) \in Things
  /\ \A n \in Nodes : NodeSpan(n) \in Things /\ RunSpan(n) \in Things
  /\ \A e, n : FlushSpan(e) # NodeSpan(n) /\ FlushSpan(e) # RunSpan(n)
  /\ \A m, n : NodeSpan(m) # RunSpan(n)
  /\ \A e, f : FlushSpan(e) = FlushSpan(f) => e = f
  /\ \A m, n : NodeSpan(m) = NodeSpan(n) => m = n
  /\ \A m, n : RunSpan(m) = RunSpan(n) => m = n
BY DEF Things, FlushSpan, NodeSpan, RunSpan

LEMMA BeginsIs ==
  ASSUME SpanTypes, NEW x \in Things, Begins(x)
  PROVE  /\ spans' \in [Subscribers -> SUBSET Things]
         /\ \A s \in Subscribers : s \in subscribed => spans'[s] = spans[s] \cup {x}
         /\ \A s \in Subscribers : s \notin subscribed => spans'[s] = {}
<1>1. \A s \in Subscribers : spans'[s] = IF s \in subscribed THEN spans[s] \cup {x} ELSE spans[s]
  BY DEF Begins
<1>2. \A s \in Subscribers : spans[s] \in SUBSET Things
  BY DEF SpanTypes
<1>3. spans' \in [Subscribers -> SUBSET Things]
  BY <1>2 DEF Begins
<1>4. \A s \in Subscribers : s \notin subscribed => spans[s] = {}
  BY DEF SpanTypes
<1>5. QED
  BY <1>1, <1>3, <1>4

LEMMA EndsIs ==
  ASSUME SpanTypes, NEW x, Ends(x)
  PROVE  /\ spans' \in [Subscribers -> SUBSET Things]
         /\ \A s \in Subscribers : spans'[s] = spans[s] \ {x}
<1>1. \A s \in Subscribers : spans'[s] = IF s \in subscribed THEN spans[s] \ {x} ELSE spans[s]
  BY DEF Ends
<1>2. \A s \in Subscribers : spans[s] \in SUBSET Things
  BY DEF SpanTypes
<1>3. spans' \in [Subscribers -> SUBSET Things]
  BY <1>2 DEF Ends
<1>4. \A s \in Subscribers : s \notin subscribed => spans[s] = {}
  BY DEF SpanTypes
<1>5. QED
  BY <1>1, <1>3, <1>4

LEMMA FramesAre ==
  /\ \A n \in Observers : Run(n) \in StackFrames
  /\ HookCall \in StackFrames
  /\ \A e \in Nat, k \in FlushKinds : Flush(k, e) \in StackFrames
BY ObservationAssumption DEF Run, HookCall, Flush, Frame, StackFrames, FlushKinds, Nodes, Observers

(* A flush that opens with subscribers gets a slot, with the work outside,  *)
(* and everybody hears it begin.                                           *)
LEMMA StartedIs ==
  ASSUME SpanTypes, NEW e \in Nat, Started(e)
  PROVE  /\ subscribed = {} => UNCHANGED <<slots, outside, spans>>
         /\ subscribed # {} =>
              /\ slots' = Append(slots, [epoch |-> e, work |-> outside]) /\ outside' = 0
              /\ [epoch |-> e, work |-> outside] \in Slots
              /\ DOMAIN slots = 1 .. Len(slots) /\ Len(slots) \in Nat
              /\ DOMAIN slots' = 1 .. Len(slots) + 1
              /\ \A k \in 1 .. Len(slots) : slots'[k] = slots[k]
              /\ slots'[Len(slots) + 1] = [epoch |-> e, work |-> outside]
              /\ Totalled' = Totalled \cup {e}
         /\ slots' \in Seq(Slots) /\ outside' \in Nat
         /\ spans' \in [Subscribers -> SUBSET Things]
         /\ \A s \in Subscribers : s \in subscribed => spans'[s] = spans[s] \cup {FlushSpan(e)}
         /\ \A s \in Subscribers : s \notin subscribed => spans'[s] = {}
<1>1. CASE subscribed = {}
  BY <1>1 DEF Started, SpanTypes, totals
<1>2. CASE subscribed # {}
  <2> DEFINE x == [epoch |-> e, work |-> outside]
  <2>1. slots' = Append(slots, x) /\ outside' = 0 /\ Begins(FlushSpan(e))
    BY <1>2 DEF Started, OpenSlot
  <2>2. x \in Slots /\ x.epoch = e /\ slots \in Seq(Slots)
    BY DEF Slots, SpanTypes
  <2> HIDE DEF x
  <2>3. /\ slots' \in Seq(Slots)
        /\ Len(slots) \in Nat /\ DOMAIN slots = 1 .. Len(slots)
        /\ DOMAIN slots' = 1 .. Len(slots) + 1
        /\ \A k \in 1 .. Len(slots) : slots'[k] = slots[k]
        /\ slots'[Len(slots) + 1] = x
    BY <2>1, <2>2, Appended, LenProperties
  <2>4. Totalled' = Totalled \cup {e}
    BY <2>2, <2>3 DEF Totalled
  <2>5. FlushSpan(e) \in Things
    BY ThingsAre
  <2>6. QED
    BY <1>2, <2>1, <2>2, <2>3, <2>4, <2>5, BeginsIs DEF x
<1>3. QED
  BY <1>1, <1>2

(* The flush that ends is the one on top, which closes its slot. *)
LEMMA FlushEndsAt ==
  ASSUME SpanTypes, StackInv, FlushEnds
  PROVE  \/ /\ Top.kind = "joined"
            /\ UNCHANGED <<slots, spans, orphans, reported>>
         \/ /\ Top.kind \in {"drain", "external"}
            /\ Finished(Top.epoch)
<1>1. ~Idle /\ Top.kind \in FlushKinds /\ PopFlush /\ stack' = Front(stack)
  BY DEF FlushEnds, PopFlush
<1>2. CASE Top.kind = "joined"
  BY <1>1, <1>2 DEF PopFlush
<1>3. CASE Top.kind = "drain"
  BY <1>1, <1>3 DEF PopFlush
<1>4. CASE Top.kind = "external"
  <2>1. Finished(open_flush_epoch)
    BY <1>1, <1>4 DEF PopFlush
  <2>2. Len(stack) \in Timed /\ Top = stack[Len(stack)]
    BY <1>1, <1>4, Popping DEF Timed
  <2>3. Top.epoch = open_flush_epoch
    BY <1>4, <2>2 DEF StackInv
  <2>4. QED
    BY <1>4, <2>1, <2>3
<1>5. QED
  BY <1>1, <1>2, <1>3, <1>4 DEF FlushKinds

LEMMA FinishedIs ==
  ASSUME SpanTypes, NEW e \in Nat, Finished(e)
  PROVE  \/ /\ subscribed = {} \/ slots = <<>>
            /\ UNCHANGED <<slots, spans, orphans, reported>>
         \/ /\ subscribed # {} /\ slots # <<>>
            /\ slots' = Front(slots) /\ slots' \in Seq(Slots)
            /\ Len(slots) \in Nat \ {0} /\ DOMAIN slots = 1 .. Len(slots)
            /\ DOMAIN slots' = 1 .. Len(slots) - 1
            /\ \A k \in 1 .. Len(slots) - 1 : slots'[k] = slots[k]
            /\ Last(slots) = slots[Len(slots)] /\ Last(slots) \in Slots
            /\ reported' = reported \o [i \in 1 .. Last(slots).work |-> e]
            /\ reported' \in Seq(Nat)
            /\ spans' \in [Subscribers -> SUBSET Things]
            /\ \A s \in Subscribers : spans'[s] = spans[s] \ {FlushSpan(e)}
            /\ orphans' = orphans \cup {s \in subscribed : FlushSpan(e) \notin spans[s]}
<1>1. CASE subscribed = {} \/ slots = <<>>
  BY <1>1 DEF Finished
<1>2. CASE subscribed # {} /\ slots # <<>>
  <2>1. /\ slots' = Front(slots)
        /\ reported' = reported \o [i \in 1 .. Last(slots).work |-> e]
        /\ Ends(FlushSpan(e))
        /\ orphans' = orphans \cup {s \in subscribed : FlushSpan(e) \notin spans[s]}
    BY <1>2 DEF Finished
  <2>2. slots \in Seq(Slots) /\ slots # <<>>
    BY <1>2 DEF SpanTypes
  <2>3. /\ Front(slots) \in Seq(Slots)
        /\ Len(slots) \in Nat \ {0} /\ DOMAIN slots = 1 .. Len(slots)
        /\ DOMAIN Front(slots) = 1 .. Len(slots) - 1
        /\ \A k \in 1 .. Len(slots) - 1 : Front(slots)[k] = slots[k]
        /\ Last(slots) = slots[Len(slots)] /\ Last(slots) \in Slots
    BY <2>2, Shortened
  <2>4. reported' \in Seq(Nat)
    <3>1. PICK n \in Nat : n = Last(slots).work
      BY <2>3 DEF Slots
    <3> DEFINE r == [i \in 1 .. n |-> e]
    <3>2. r \in [1 .. n -> Nat]
      OBVIOUS
    <3> HIDE DEF r
    <3>3. r \in Seq(Nat)
      BY <3>2, FunctionIsSeq
    <3>4. reported' = reported \o r
      BY <2>1, <3>1 DEF r
    <3>5. QED
      BY <3>3, <3>4 DEF SpanTypes
  <2>5. /\ spans' \in [Subscribers -> SUBSET Things]
        /\ \A s \in Subscribers : spans'[s] = spans[s] \ {FlushSpan(e)}
    BY <2>1, EndsIs
  <2>6. QED
    BY <1>2, <2>1, <2>3, <2>4, <2>5
<1>3. QED
  BY <1>1, <1>2

(* No flush is under way when an external one does not join. *)
LEMMA NoFlush ==
  ASSUME SpanTypes, flush_depth = 0
  PROVE  Places(FlushKinds) = {} /\ Timed = {}
<1>1. stack \in Seq(StackFrames) /\ Len(stack) \in Nat /\ DOMAIN stack = 1 .. Len(stack)
  BY DEF SpanTypes
<1>2. Places(FlushKinds) \in SUBSET (1 .. Len(stack))
  BY <1>1 DEF Places
<1>3. IsFiniteSet(Places(FlushKinds))
  BY <1>1, <1>2, FS_Interval, FS_Subset, 1 \in Int, Len(stack) \in Int
<1>4. Places(FlushKinds) = {}
  BY <1>3, FS_EmptySet DEF flush_depth
<1>5. QED
  BY <1>4 DEF Timed, Places, FlushKinds

-----------------------------------------------------------------------------
(* The stack of flushes and runs.                                          *)

TimedKinds == {"drain", "external"}

LEMMA TimedAre ==
  /\ Timed = Places(TimedKinds)
  /\ SpanTypes => \A i \in Timed : stack[i].epoch \in Nat /\ i \in Nat
<1>1. Timed = Places(TimedKinds)
  BY DEF Timed, TimedKinds
<1>2. ASSUME SpanTypes, NEW i \in Timed PROVE stack[i].epoch \in Nat /\ i \in Nat
  <2>1. i \in 1 .. Len(stack) /\ Len(stack) \in Nat /\ stack \in Seq(StackFrames)
    BY <1>2 DEF SpanTypes, Timed, Places
  <2>2. stack[i] \in StackFrames
    BY <2>1, ElementOfSeq
  <2>3. QED
    BY <2>1, <2>2 DEF StackFrames
<1>3. QED
  BY <1>1, <1>2

LEMMA PushStack ==
  ASSUME SpanTypes, StackInv, NEW f \in StackFrames, stack' = Append(stack, f),
         f.kind = "run" => f.node \in Observers /\ ~Running(f.node),
         \/ f.kind \notin TimedKinds /\ UNCHANGED epochs
         \/ /\ f.kind \in TimedKinds
            /\ f.epoch = flush_epoch + 1 /\ flush_epoch' = flush_epoch + 1
            /\ \/ f.kind = "drain" /\ open_flush_epoch' = open_flush_epoch
               \/ f.kind = "external" /\ open_flush_epoch' = f.epoch /\ Timed = {}
  PROVE  /\ StackInv'
         /\ stack' \in Seq(StackFrames)
         /\ Opened' = Opened \cup (IF f.kind \in TimedKinds THEN {f.epoch} ELSE {})
<1> DEFINE n == Len(stack) + 1
<1>1. /\ stack' \in Seq(StackFrames)
      /\ Len(stack) \in Nat /\ stack'[n] = f
      /\ Timed \subseteq 1 .. Len(stack)
      /\ \A i \in Timed : stack'[i] = stack[i]
      /\ Timed' = Timed \cup (IF f.kind \in TimedKinds THEN {n} ELSE {})
  <2>1. Timed' = Places(TimedKinds)'
    BY DEF Timed, TimedKinds
  <2>2. QED
    BY <2>1, Pushing, TimedAre
<1>2. /\ Places({"run"}) \subseteq 1 .. Len(stack)
      /\ \A i \in Places({"run"}) : stack'[i] = stack[i]
      /\ Places({"run"})' = Places({"run"}) \cup (IF f.kind = "run" THEN {n} ELSE {})
  BY Pushing
<1>3. \A i \in Timed : stack[i].epoch \in Nat /\ stack[i].epoch <= flush_epoch /\ i < n /\ i \in Nat
  BY <1>1, TimedAre DEF StackInv
<1>4. flush_epoch \in Nat
  BY DEF SpanTypes
<1> HIDE DEF n
<1>5. /\ \A i \in Timed' : stack'[i].epoch <= flush_epoch'
      /\ \A i, j \in Timed' : i < j => stack'[i].epoch < stack'[j].epoch
  <2>1. CASE f.kind \notin TimedKinds
    <3>1. Timed' = Timed /\ flush_epoch' = flush_epoch
      BY <1>1, <2>1 DEF epochs
    <3>2. QED
      BY <1>1, <3>1 DEF StackInv
  <2>2. CASE f.kind \in TimedKinds
    <3>1. /\ Timed' = Timed \cup {n} /\ flush_epoch' = flush_epoch + 1
          /\ stack'[n].epoch = flush_epoch + 1
      BY <1>1, <2>2
    <3>2. \A i \in Timed : stack'[i].epoch < flush_epoch + 1 /\ stack'[i].epoch <= flush_epoch + 1
      BY <1>1, <1>3, <1>4
    <3>3. \A i \in Timed' : stack'[i].epoch <= flush_epoch'
      <4>1. PICK e \in Nat : e = flush_epoch + 1
        BY <1>4
      <4>2. e <= e
        OBVIOUS
      <4>3. QED
        BY <3>1, <3>2, <4>1, <4>2
    <3>4. ASSUME NEW i \in Timed', NEW j \in Timed', i < j
          PROVE  stack'[i].epoch < stack'[j].epoch
      <4>1. CASE i \in Timed /\ j \in Timed
        BY <1>1, <3>4, <4>1 DEF StackInv
      <4>2. CASE i \in Timed /\ j = n
        BY <3>1, <3>2, <4>2
      <4>3. CASE i = n
        <5>1. j \in Timed \/ j = n
          BY <3>1
        <5>2. n \in Nat
          BY <1>1 DEF n
        <5>3. QED
          BY <1>3, <3>4, <4>3, <5>1, <5>2
      <4>4. QED
        BY <3>1, <4>1, <4>2, <4>3
    <3>5. QED
      BY <3>3, <3>4
  <2>3. QED
    BY <2>1, <2>2
<1>6. \A i \in Timed' : stack'[i].kind = "external" => stack'[i].epoch = open_flush_epoch'
  <2>1. ASSUME NEW i \in Timed', stack'[i].kind = "external"
        PROVE  stack'[i].epoch = open_flush_epoch'
    <3>1. CASE f.kind = "external" /\ open_flush_epoch' = f.epoch /\ Timed = {}
      <4>1. i = n
        BY <1>1, <2>1, <3>1
      <4>2. QED
        BY <1>1, <3>1, <4>1
    <3>2. CASE f.kind # "external" /\ open_flush_epoch' = open_flush_epoch
      <4>1. i # n
        BY <1>1, <2>1, <3>2
      <4>2. i \in Timed
        BY <1>1, <2>1, <4>1
      <4>3. QED
        BY <1>1, <2>1, <3>2, <4>2 DEF StackInv
    <3>3. QED
      BY <3>1, <3>2 DEF epochs, TimedKinds
  <2>2. QED
    BY <2>1
<1>7. /\ \A i, j \in Places({"run"})' : stack'[i].node = stack'[j].node => i = j
      /\ \A i \in Places({"run"})' : stack'[i].node \in Observers
  <2>1. CASE f.kind # "run"
    BY <1>2, <2>1 DEF StackInv
  <2>2. CASE f.kind = "run"
    <3>1. \A i \in Places({"run"}) : stack[i].node # f.node
      BY <2>2 DEF Running, Places
    <3>2. Places({"run"})' = Places({"run"}) \cup {n} /\ stack'[n].node = f.node /\ f.node \in Observers
      BY <1>1, <1>2, <2>2
    <3>3. QED
      BY <1>2, <3>1, <3>2 DEF StackInv
  <2>3. QED
    BY <2>1, <2>2
<1>8. Opened' = Opened \cup (IF f.kind \in TimedKinds THEN {f.epoch} ELSE {})
  BY <1>1 DEF Opened
<1>9. QED
  BY <1>1, <1>5, <1>6, <1>7, <1>8 DEF StackInv

LEMMA PopStack ==
  ASSUME SpanTypes, StackInv, ~Idle, stack' = Front(stack), UNCHANGED epochs
  PROVE  /\ StackInv'
         /\ stack' \in Seq(StackFrames)
         /\ Top.kind \notin TimedKinds => Opened' = Opened
         /\ Top.kind \in TimedKinds =>
              /\ Opened' = Opened \ {Top.epoch} /\ Top.epoch \in Opened
              /\ \A e \in Opened : e <= Top.epoch
<1> DEFINE n == Len(stack)
<1>1. /\ stack' \in Seq(StackFrames)
      /\ n \in Nat \ {0} /\ Top = stack[n]
      /\ Timed' = Timed \ {n} /\ (n \in Timed <=> Top.kind \in TimedKinds)
      /\ \A i \in Timed' : stack'[i] = stack[i]
      /\ \A i \in Timed : i \in 1 .. n
  <2>1. Timed' = Places(TimedKinds)'
    BY DEF Timed, TimedKinds
  <2>2. QED
    BY <2>1, Popping, TimedAre
<1>2. /\ Places({"run"})' = Places({"run"}) \ {n}
      /\ \A i \in Places({"run"})' : stack'[i] = stack[i]
  BY Popping
<1> HIDE DEF n
<1>3. StackInv'
  BY <1>1, <1>2 DEF StackInv, epochs
<1>4. ASSUME Top.kind \notin TimedKinds PROVE Opened' = Opened
  BY <1>1, <1>4 DEF Opened
<1>5. ASSUME Top.kind \in TimedKinds
      PROVE  /\ Opened' = Opened \ {Top.epoch} /\ Top.epoch \in Opened
             /\ \A e \in Opened : e <= Top.epoch
  <2>1. n \in Timed /\ Top.epoch = stack[n].epoch /\ Top.epoch \in Nat
    BY <1>1, <1>5, TimedAre
  <2>2. ASSUME NEW i \in Timed, i # n PROVE stack[i].epoch < Top.epoch /\ stack[i].epoch \in Nat
    <3>1. i < n
      BY <1>1, <2>2
    <3>2. QED
      BY <2>1, <3>1, TimedAre DEF StackInv
  <2>3. \A i \in Timed : stack[i].epoch <= Top.epoch /\ (i # n => stack[i].epoch # Top.epoch)
    BY <2>1, <2>2
  <2>4. Opened' = {stack[i].epoch : i \in Timed \ {n}}
    BY <1>1 DEF Opened
  <2>5. QED
    BY <2>1, <2>3, <2>4 DEF Opened
<1>6. QED
  BY <1>1, <1>3, <1>4, <1>5

-----------------------------------------------------------------------------
(* Types, stack and slots are kept by every step.                          *)

Shape == SpanTypes /\ StackInv /\ SlotsInv

LEMMA SlotsStay ==
  ASSUME Shape, Opened' = Opened, Totalled' = Totalled,
         DOMAIN slots' = DOMAIN slots, \A k \in DOMAIN slots : slots'[k].epoch = slots[k].epoch,
         subscribed' = subscribed,
         subscribed = {} => slots' = slots /\ outside' = outside
  PROVE  SlotsInv'
BY DEF Shape, SlotsInv

LEMMA SameStack ==
  ASSUME StackInv, UNCHANGED <<stack, epochs>>
  PROVE  StackInv' /\ Opened' = Opened
BY DEF StackInv, Opened, Timed, Places, epochs

LEMMA WorksShape ==
  ASSUME Shape, Works PROVE Shape'
<1>1. Worked /\ UNCHANGED <<subscribed, epochs, stack, heard>>
  BY DEF Works
<1>2. /\ slots' \in Seq(Slots) /\ outside' \in Nat
      /\ DOMAIN slots' = DOMAIN slots
      /\ \A k \in DOMAIN slots : slots'[k].epoch = slots[k].epoch
      /\ subscribed = {} => slots' = slots /\ outside' = outside
      /\ unit' \in [done : BOOLEAN, at : Nat] /\ reported' \in Seq(Nat)
      /\ Totalled' = Totalled
  BY <1>1, WorkKeeps DEF Shape
<1>3. StackInv' /\ Opened' = Opened
  BY <1>1, SameStack DEF Shape
<1>4. SlotsInv'
  BY <1>1, <1>2, <1>3, SlotsStay
<1>5. SpanTypes'
  BY <1>1, <1>2 DEF Shape, SpanTypes, epochs, heard
<1>6. QED
  BY <1>3, <1>4, <1>5 DEF Shape

LEMMA NodeShape ==
  ASSUME Shape, NEW n \in Nodes, NodeBegins(n) \/ NodeEnds(n)
  PROVE  Shape'
<1>1. /\ Worked /\ UNCHANGED <<subscribed, epochs, stack, witnesses>>
      /\ Begins(NodeSpan(n)) \/ Ends(NodeSpan(n))
  BY DEF NodeBegins, NodeEnds, Quietly
<1>2. /\ slots' \in Seq(Slots) /\ outside' \in Nat
      /\ DOMAIN slots' = DOMAIN slots
      /\ \A k \in DOMAIN slots : slots'[k].epoch = slots[k].epoch
      /\ subscribed = {} => slots' = slots /\ outside' = outside
      /\ unit' \in [done : BOOLEAN, at : Nat] /\ reported' \in Seq(Nat)
      /\ Totalled' = Totalled
  BY <1>1, WorkKeeps DEF Shape
<1>3. StackInv' /\ Opened' = Opened
  BY <1>1, SameStack DEF Shape
<1>4. SlotsInv'
  BY <1>1, <1>2, <1>3, SlotsStay
<1>5. /\ spans' \in [Subscribers -> SUBSET Things]
      /\ \A s \in Subscribers \ subscribed : spans'[s] = {}
  <2>1. CASE Begins(NodeSpan(n))
    BY <2>1, ThingsAre, BeginsIs DEF Shape
  <2>2. CASE Ends(NodeSpan(n))
    <3>1. \A s \in Subscribers \ subscribed : spans[s] = {}
      BY DEF Shape, SpanTypes
    <3>2. QED
      BY <2>2, <3>1, EndsIs DEF Shape
  <2>3. QED
    BY <1>1, <2>1, <2>2
<1>6. SpanTypes'
  BY <1>1, <1>2, <1>5 DEF Shape, SpanTypes, epochs
<1>7. QED
  BY <1>3, <1>4, <1>6 DEF Shape

LEMMA RunBeginsShape ==
  ASSUME Shape, NEW n \in Observers, RunBegins(n)
  PROVE  Shape'
<1>1. /\ Worked /\ UNCHANGED <<subscribed, epochs, witnesses>>
      /\ ~Running(n) /\ stack' = Append(stack, Run(n)) /\ Begins(RunSpan(n))
  BY DEF RunBegins, Quietly
<1>2. /\ slots' \in Seq(Slots) /\ outside' \in Nat
      /\ DOMAIN slots' = DOMAIN slots
      /\ \A k \in DOMAIN slots : slots'[k].epoch = slots[k].epoch
      /\ subscribed = {} => slots' = slots /\ outside' = outside
      /\ unit' \in [done : BOOLEAN, at : Nat] /\ reported' \in Seq(Nat)
      /\ Totalled' = Totalled
  BY <1>1, WorkKeeps DEF Shape
<1>3. Run(n) \in StackFrames /\ Run(n).kind = "run" /\ Run(n).node = n
  BY FramesAre DEF Run, Frame
<1>4. StackInv' /\ stack' \in Seq(StackFrames) /\ Opened' = Opened
  BY <1>1, <1>3, PushStack DEF Shape, TimedKinds
<1>5. SlotsInv'
  BY <1>1, <1>2, <1>4, SlotsStay
<1>6. /\ spans' \in [Subscribers -> SUBSET Things]
      /\ \A s \in Subscribers \ subscribed : spans'[s] = {}
  BY <1>1, ThingsAre, BeginsIs DEF Shape, Nodes
<1>7. SpanTypes'
  BY <1>1, <1>2, <1>4, <1>6 DEF Shape, SpanTypes, epochs
<1>8. QED
  BY <1>4, <1>5, <1>7 DEF Shape

LEMMA EndSpanIs ==
  ASSUME SpanTypes, EndSpan
  PROVE  /\ spans' \in [Subscribers -> SUBSET Things]
         /\ \A s \in Subscribers \ subscribed : spans'[s] = {}
         /\ Top.heard => \A s \in Subscribers : spans'[s] = spans[s] \ {RunSpan(Top.node)}
         /\ ~Top.heard => spans' = spans
<1>1. CASE Top.heard
  <2>1. Ends(RunSpan(Top.node))
    BY <1>1 DEF EndSpan
  <2>2. PICK x : x = RunSpan(Top.node)
    OBVIOUS
  <2>3. Ends(x)
    BY <2>1, <2>2
  <2>4. /\ spans' \in [Subscribers -> SUBSET Things]
        /\ \A s \in Subscribers : spans'[s] = spans[s] \ {x}
    BY <2>3, EndsIs
  <2>5. \A s \in Subscribers \ subscribed : spans[s] = {}
    BY DEF SpanTypes
  <2>6. QED
    BY <1>1, <2>2, <2>4, <2>5
<1>2. CASE ~Top.heard
  BY <1>2 DEF EndSpan, SpanTypes, heard
<1>3. QED
  BY <1>1, <1>2

LEMMA RunReturnsShape ==
  ASSUME Shape, RunReturns PROVE Shape'
<1>1. /\ Worked /\ UNCHANGED <<subscribed, epochs, witnesses>>
      /\ ~Idle /\ Top.kind = "run" /\ stack' = Front(stack) /\ EndSpan
  BY DEF RunReturns, Quietly, OnTop
<1>2. /\ slots' \in Seq(Slots) /\ outside' \in Nat
      /\ DOMAIN slots' = DOMAIN slots
      /\ \A k \in DOMAIN slots : slots'[k].epoch = slots[k].epoch
      /\ subscribed = {} => slots' = slots /\ outside' = outside
      /\ unit' \in [done : BOOLEAN, at : Nat] /\ reported' \in Seq(Nat)
      /\ Totalled' = Totalled
  BY <1>1, WorkKeeps DEF Shape
<1>3. StackInv' /\ stack' \in Seq(StackFrames) /\ Opened' = Opened
  BY <1>1, PopStack DEF Shape, TimedKinds
<1>4. SlotsInv'
  BY <1>1, <1>2, <1>3, SlotsStay
<1>5. /\ spans' \in [Subscribers -> SUBSET Things]
      /\ \A s \in Subscribers \ subscribed : spans'[s] = {}
  BY <1>1, EndSpanIs DEF Shape
<1>6. SpanTypes'
  BY <1>1, <1>2, <1>3, <1>5 DEF Shape, SpanTypes, epochs
<1>7. QED
  BY <1>3, <1>4, <1>6 DEF Shape

LEMMA HookShape ==
  ASSUME Shape, HookBegins \/ HookReturns PROVE Shape'
<1>1. /\ UNCHANGED <<subscribed, epochs, witnesses, reported, slots, outside, unit, spans>>
      /\ \/ stack' = Append(stack, HookCall)
         \/ ~Idle /\ Top.kind = "hook" /\ stack' = Front(stack)
  BY DEF HookBegins, HookReturns, Quietly, NoWork, totals, OnTop
<1>2. StackInv' /\ stack' \in Seq(StackFrames) /\ Opened' = Opened
  <2>1. CASE stack' = Append(stack, HookCall)
    <3>1. HookCall \in StackFrames /\ HookCall.kind = "hook"
      BY FramesAre DEF HookCall, Frame
    <3>2. QED
      BY <1>1, <2>1, <3>1, PushStack DEF Shape, TimedKinds
  <2>2. CASE ~Idle /\ Top.kind = "hook" /\ stack' = Front(stack)
    BY <1>1, <2>2, PopStack DEF Shape, TimedKinds
  <2>3. QED
    BY <1>1, <2>1, <2>2
<1>3. Totalled' = Totalled
  BY <1>1 DEF Totalled
<1>4. SlotsInv'
  BY <1>1, <1>2, <1>3, SlotsStay
<1>5. SpanTypes'
  BY <1>1, <1>2 DEF Shape, SpanTypes, epochs
<1>6. QED
  BY <1>2, <1>4, <1>5 DEF Shape

LEMMA SubscribeShape ==
  ASSUME Shape, NEW s \in Subscribers, Subscribe(s) PROVE Shape'
<1>1. /\ subscribed' = subscribed \cup {s}
      /\ UNCHANGED <<epochs, stack, totals, heard, history>>
  BY DEF Subscribe
<1>2. StackInv' /\ Opened' = Opened
  BY <1>1, SameStack DEF Shape
<1>3. SlotsInv'
  BY <1>1, <1>2 DEF Shape, SlotsInv, Totalled, totals
<1>4. SpanTypes'
  BY <1>1 DEF Shape, SpanTypes, epochs, totals, heard, history
<1>5. QED
  BY <1>2, <1>3, <1>4 DEF Shape

LEMMA UnsubscribeShape ==
  ASSUME Shape, NEW s \in Subscribers, Unsubscribe(s) PROVE Shape'
<1>1. /\ subscribed' = subscribed \ {s} /\ witnesses' = witnesses \ {s}
      /\ spans' = [spans EXCEPT ![s] = {}]
      /\ UNCHANGED <<epochs, stack, reported>>
      /\ subscribed # {s} => NoWork
      /\ subscribed = {s} => Reset
  BY DEF Unsubscribe
<1>2. StackInv' /\ Opened' = Opened
  BY <1>1, SameStack DEF Shape
<1>3. /\ spans' \in [Subscribers -> SUBSET Things]
      /\ \A t \in Subscribers \ subscribed' : spans'[t] = {}
  BY <1>1 DEF Shape, SpanTypes
<1>4. CASE subscribed # {s}
  <2>1. UNCHANGED <<slots, outside, unit>> /\ (subscribed' = {} => subscribed = {})
    BY <1>1, <1>4 DEF NoWork, totals
  <2>2. SlotsInv'
    BY <1>2, <2>1 DEF Shape, SlotsInv, Totalled
  <2>3. SpanTypes'
    BY <1>1, <1>3, <2>1 DEF Shape, SpanTypes, epochs
  <2>4. QED
    BY <1>2, <2>2, <2>3 DEF Shape
<1>5. CASE subscribed = {s}
  <2>1. slots' = <<>> /\ outside' = 0 /\ (unit' = UnitAt(0) \/ unit' = unit)
    BY <1>1, <1>5 DEF Reset
  <2>2. Totalled' = {}
    BY <2>1 DEF Totalled
  <2>3. SlotsInv'
    BY <2>1, <2>2 DEF SlotsInv
  <2>4. unit' \in [done : BOOLEAN, at : Nat]
    <3>1. UnitAt(0) \in [done : BOOLEAN, at : Nat]
      BY DEF UnitAt
    <3>2. QED
      BY <2>1, <3>1 DEF Shape, SpanTypes
  <2>5. SpanTypes'
    BY <1>1, <1>3, <2>1, <2>4 DEF Shape, SpanTypes, epochs
  <2>6. QED
    BY <1>2, <2>3, <2>5 DEF Shape
<1>6. QED
  BY <1>4, <1>5

(* A flush with totals opens: its slot is the innermost. *)
LEMMA OpenShape ==
  ASSUME Shape, NEW e \in Nat, e = flush_epoch + 1, Started(e),
         StackInv', stack' \in Seq(StackFrames), Opened' = Opened \cup {e},
         flush_epoch' = e, open_flush_epoch' \in Nat,
         UNCHANGED <<subscribed, witnesses, history>>
  PROVE  Shape'
<1>1. /\ subscribed = {} => UNCHANGED <<slots, outside>>
      /\ subscribed # {} =>
           /\ DOMAIN slots = 1 .. Len(slots) /\ Len(slots) \in Nat
           /\ DOMAIN slots' = 1 .. Len(slots) + 1
           /\ \A k \in 1 .. Len(slots) : slots'[k] = slots[k]
           /\ slots'[Len(slots) + 1].epoch = e
           /\ Totalled' = Totalled \cup {e}
      /\ slots' \in Seq(Slots) /\ outside' \in Nat
      /\ spans' \in [Subscribers -> SUBSET Things]
      /\ \A s \in Subscribers : s \notin subscribed => spans'[s] = {}
  <2>1. \A w : [epoch |-> e, work |-> w].epoch = e
    OBVIOUS
  <2>2. QED
    BY <2>1, StartedIs DEF Shape
<1>2. \A d \in Opened : d \in Nat /\ d <= flush_epoch
  BY TimedAre DEF Shape, StackInv, Opened
<1>3. flush_epoch \in Nat /\ Totalled \subseteq Opened
  BY DEF Shape, SpanTypes, SlotsInv
<1>4. \A d \in Opened : d < e
  BY <1>2, <1>3
<1>5. SlotsInv'
  <2>1. CASE subscribed = {}
    <3>1. slots = <<>> /\ outside = 0 /\ slots' = <<>> /\ outside' = 0
      BY <1>1, <2>1 DEF Shape, SlotsInv
    <3>2. Totalled' = {}
      BY <3>1 DEF Totalled
    <3>3. QED
      BY <3>1, <3>2 DEF SlotsInv
  <2>2. CASE subscribed # {}
    <3>1. ASSUME NEW k \in DOMAIN slots', NEW l \in DOMAIN slots', k < l
          PROVE  slots'[k].epoch < slots'[l].epoch
      <4>1. k \in 1 .. Len(slots)
        BY <1>1, <2>2, <3>1
      <4>2. CASE l \in 1 .. Len(slots)
        BY <1>1, <2>2, <3>1, <4>1, <4>2 DEF Shape, SlotsInv
      <4>3. CASE l = Len(slots) + 1
        <5>1. slots'[k].epoch \in Totalled /\ slots'[l].epoch = e
          BY <1>1, <2>2, <4>1, <4>3 DEF Totalled
        <5>2. QED
          BY <1>3, <1>4, <5>1
      <4>4. QED
        BY <1>1, <2>2, <4>2, <4>3
    <3>2. Totalled' \subseteq Opened'
      BY <1>1, <1>3, <2>2
    <3>3. ASSUME NEW f \in Opened', NEW d \in Totalled', d <= f PROVE f \in Totalled'
      <4>1. CASE f = e
        BY <1>1, <2>2, <4>1
      <4>2. CASE f # e
        <5>1. f \in Opened /\ f < e /\ f \in Nat
          BY <1>2, <1>4, <4>2
        <5>2. d # e
          BY <3>3, <5>1
        <5>3. d \in Totalled
          BY <1>1, <2>2, <5>2
        <5>4. QED
          BY <1>1, <2>2, <3>3, <5>1, <5>3 DEF Shape, SlotsInv
      <4>3. QED
        BY <4>1, <4>2
    <3>4. QED
      BY <2>2, <3>1, <3>2, <3>3 DEF SlotsInv
  <2>3. QED
    BY <2>1, <2>2
<1>6. SpanTypes'
  BY <1>1 DEF Shape, SpanTypes, history
<1>7. QED
  BY <1>5, <1>6 DEF Shape

LEMMA DrainShape ==
  ASSUME Shape, PushDrain
  PROVE  Shape'
<1>1. PICK e \in Nat : e = flush_epoch + 1 /\ flush_epoch' = e
  BY DEF PushDrain, Shape, SpanTypes
<1>2. /\ Started(e) /\ stack' = Append(stack, Flush("drain", e))
      /\ UNCHANGED <<subscribed, open_flush_epoch, witnesses, history>>
  BY <1>1 DEF PushDrain
<1>3. /\ Flush("drain", e) \in StackFrames /\ Flush("drain", e).kind = "drain"
      /\ Flush("drain", e).epoch = e
  BY FramesAre DEF Flush, Frame, FlushKinds
<1>4. StackInv' /\ stack' \in Seq(StackFrames) /\ Opened' = Opened \cup {e}
  BY <1>1, <1>2, <1>3, PushStack DEF Shape, TimedKinds
<1>5. open_flush_epoch' \in Nat
  BY <1>2 DEF Shape, SpanTypes
<1>6. QED
  BY <1>1, <1>2, <1>4, <1>5, OpenShape

LEMMA ExternalShape ==
  ASSUME Shape, PushExternal
  PROVE  Shape'
<1>1. CASE flush_depth = 0
  <2>1. PICK e \in Nat : e = flush_epoch + 1 /\ flush_epoch' = e
    BY <1>1 DEF PushExternal, Shape, SpanTypes
  <2>2. /\ Started(e) /\ stack' = Append(stack, Flush("external", e))
        /\ open_flush_epoch' = e
        /\ UNCHANGED <<subscribed, witnesses, history>>
    BY <1>1, <2>1 DEF PushExternal
  <2>3. /\ Flush("external", e) \in StackFrames /\ Flush("external", e).kind = "external"
        /\ Flush("external", e).epoch = e
    BY FramesAre DEF Flush, Frame, FlushKinds
  <2>4. Timed = {}
    BY <1>1, NoFlush DEF Shape
  <2>5. StackInv' /\ stack' \in Seq(StackFrames) /\ Opened' = Opened \cup {e}
    BY <2>1, <2>2, <2>3, <2>4, PushStack DEF Shape, TimedKinds
  <2>6. QED
    BY <2>1, <2>2, <2>5, OpenShape
<1>2. CASE flush_depth # 0
  <2>1. /\ stack' = Append(stack, Flush("joined", 0))
        /\ UNCHANGED <<epochs, slots, outside, spans, subscribed, witnesses, unit, reported>>
    BY <1>2 DEF PushExternal, totals, history
  <2>2. Flush("joined", 0) \in StackFrames /\ Flush("joined", 0).kind = "joined"
    BY FramesAre DEF Flush, Frame, FlushKinds
  <2>3. StackInv' /\ stack' \in Seq(StackFrames) /\ Opened' = Opened
    BY <2>1, <2>2, PushStack DEF Shape, TimedKinds
  <2>4. Totalled' = Totalled
    BY <2>1 DEF Totalled
  <2>5. SlotsInv'
    BY <2>1, <2>3, <2>4, SlotsStay
  <2>6. SpanTypes'
    BY <2>1, <2>3 DEF Shape, SpanTypes, epochs
  <2>7. QED
    BY <2>3, <2>5, <2>6 DEF Shape
<1>3. QED
  BY <1>1, <1>2

(* The flush that is finished is the one with the last slot. *)
LEMMA LastSlot ==
  ASSUME Shape, slots # <<>>, ~Idle, Top.kind \in TimedKinds
  PROVE  /\ slots[Len(slots)].epoch = Top.epoch
         /\ Len(slots) \in Nat \ {0} /\ DOMAIN slots = 1 .. Len(slots)
         /\ \A k \in DOMAIN slots : k # Len(slots) => slots[k].epoch # Top.epoch
<1>1. /\ Max(Timed) \in Timed /\ stack[Max(Timed)].epoch = slots[Len(slots)].epoch
      /\ slots[Len(slots)].epoch \in Nat
  BY InnermostFlush DEF Shape
<1>2. stack \in Seq(StackFrames) /\ stack # <<>>
  BY DEF Shape, SpanTypes, Idle
<1>3. Len(stack) \in Nat \ {0} /\ DOMAIN stack = 1 .. Len(stack) /\ Top = stack[Len(stack)]
  BY <1>2, Shortened DEF Top
<1>4. Len(stack) \in Timed
  BY <1>3 DEF Timed, Places, TimedKinds
<1>5. Timed \in SUBSET (1 .. Len(stack)) /\ Len(stack) \in Nat
  BY <1>3 DEF Timed, Places
<1>6. \A y \in Timed : y <= Max(Timed)
  BY <1>4, <1>5, MaxOfPositions
<1>7. Max(Timed) = Len(stack)
  <2>1. PICK m \in 1 .. Len(stack) : m = Max(Timed)
    BY <1>1, <1>5
  <2>2. Len(stack) <= m
    BY <1>4, <1>6, <2>1
  <2>3. QED
    BY <1>3, <2>1, <2>2
<1>8. Len(slots) \in Nat \ {0} /\ DOMAIN slots = 1 .. Len(slots) /\ slots \in Seq(Slots)
  BY EmptySeq DEF Shape, SpanTypes
<1>9. ASSUME NEW k \in DOMAIN slots, k # Len(slots)
      PROVE  slots[k].epoch # slots[Len(slots)].epoch
  <2>1. k < Len(slots) /\ Len(slots) \in DOMAIN slots
    BY <1>8, <1>9
  <2>2. slots[k].epoch < slots[Len(slots)].epoch
    BY <2>1 DEF Shape, SlotsInv
  <2>3. slots[k] \in Slots
    BY <1>8, <1>9, ElementOfSeq
  <2>4. QED
    BY <1>1, <2>2, <2>3 DEF Slots
<1>10. QED
  BY <1>1, <1>3, <1>7, <1>8, <1>9

LEMMA ClosedSlot ==
  ASSUME Shape, slots # <<>>, ~Idle, Top.kind \in TimedKinds,
         DOMAIN slots' = 1 .. Len(slots) - 1,
         \A k \in 1 .. Len(slots) - 1 : slots'[k] = slots[k]
  PROVE  Totalled' = Totalled \ {Top.epoch}
<1> DEFINE e == Top.epoch
<1>1. /\ slots[Len(slots)].epoch = e
      /\ Len(slots) \in Nat \ {0} /\ DOMAIN slots = 1 .. Len(slots)
      /\ \A k \in DOMAIN slots : k # Len(slots) => slots[k].epoch # e
  BY LastSlot
<1> HIDE DEF e
<1>2. Totalled' = {slots[k].epoch : k \in 1 .. Len(slots) - 1}
  BY DEF Totalled
<1>3. Totalled = {slots[k].epoch : k \in 1 .. Len(slots)}
  BY <1>1 DEF Totalled
<1>4. \A k \in 1 .. Len(slots) : k = Len(slots) \/ k \in 1 .. Len(slots) - 1
  <2>1. PICK m \in Nat : m = Len(slots)
    BY <1>1
  <2>2. \A k \in 1 .. m : k = m \/ k \in 1 .. m - 1
    OBVIOUS
  <2>3. QED
    BY <2>1, <2>2
<1>5. \A k \in 1 .. Len(slots) - 1 : k \in 1 .. Len(slots) /\ k # Len(slots)
  <2>1. PICK m \in Nat : m = Len(slots)
    BY <1>1
  <2>2. \A k \in 1 .. m - 1 : k \in 1 .. m /\ k # m
    OBVIOUS
  <2>3. QED
    BY <2>1, <2>2
<1>6. Len(slots) \in 1 .. Len(slots)
  BY <1>1
<1>7. Totalled' = Totalled \ {e}
  BY <1>1, <1>2, <1>3, <1>4, <1>5, <1>6
<1>8. QED
  BY <1>7 DEF e

LEMMA CloseShape ==
  ASSUME Shape, FlushEnds
  PROVE  Shape'
<1>1. /\ ~Idle /\ Top.kind \in FlushKinds /\ stack' = Front(stack)
      /\ UNCHANGED <<subscribed, epochs, outside, witnesses, unit>>
  BY DEF FlushEnds, PopFlush
<1>2. /\ StackInv' /\ stack' \in Seq(StackFrames)
      /\ Top.kind \notin TimedKinds => Opened' = Opened
      /\ Top.kind \in TimedKinds =>
           /\ Opened' = Opened \ {Top.epoch} /\ Top.epoch \in Opened
           /\ \A e \in Opened : e <= Top.epoch
  BY <1>1, PopStack DEF Shape
<1>3. CASE Top.kind = "joined" /\ UNCHANGED <<slots, spans, orphans, reported>>
  <2>1. Opened' = Opened /\ Totalled' = Totalled
    BY <1>2, <1>3 DEF TimedKinds, Totalled
  <2>2. SlotsInv'
    BY <1>1, <1>3, <2>1, SlotsStay
  <2>3. SpanTypes'
    BY <1>1, <1>2, <1>3 DEF Shape, SpanTypes, epochs
  <2>4. QED
    BY <1>2, <2>2, <2>3 DEF Shape
<1>4. CASE Top.kind \in TimedKinds /\ Finished(Top.epoch)
  <2>1. PICK e \in Nat : e = Top.epoch
    <3>1. Top \in StackFrames
      BY <1>1, Popping DEF Shape
    <3>2. QED
      BY <3>1 DEF StackFrames
  <2>2. Finished(e)
    BY <1>4, <2>1
  <2>3. CASE (subscribed = {} \/ slots = <<>>) /\ UNCHANGED <<slots, spans, orphans, reported>>
    <3>1. slots = <<>> /\ slots' = <<>>
      BY <2>3 DEF Shape, SlotsInv
    <3>2. Totalled' = {}
      BY <3>1 DEF Totalled
    <3>3. SlotsInv'
      BY <1>1, <3>1, <3>2 DEF Shape, SlotsInv
    <3>4. SpanTypes'
      BY <1>1, <1>2, <2>3 DEF Shape, SpanTypes, epochs
    <3>5. QED
      BY <1>2, <3>3, <3>4 DEF Shape
  <2>4. CASE /\ subscribed # {} /\ slots # <<>>
             /\ slots' \in Seq(Slots)
             /\ Len(slots) \in Nat \ {0} /\ DOMAIN slots = 1 .. Len(slots)
             /\ DOMAIN slots' = 1 .. Len(slots) - 1
             /\ \A k \in 1 .. Len(slots) - 1 : slots'[k] = slots[k]
             /\ reported' \in Seq(Nat)
             /\ spans' \in [Subscribers -> SUBSET Things]
             /\ \A s \in Subscribers : spans'[s] = spans[s] \ {FlushSpan(e)}
    <3>2. Totalled' = Totalled \ {e}
      BY <1>1, <1>4, <2>1, <2>4, ClosedSlot
    <3>3. SlotsInv'
      <4>1. \A k, l \in DOMAIN slots' : k < l => slots'[k].epoch < slots'[l].epoch
        <5>1. \A k \in 1 .. Len(slots) - 1 : k \in 1 .. Len(slots)
          BY <2>4
        <5>2. QED
          BY <2>4, <5>1 DEF Shape, SlotsInv
      <4>2. Opened' = Opened \ {e}
        BY <1>2, <1>4, <2>1
      <4>3. /\ Totalled' \subseteq Opened'
            /\ \A f \in Opened', d \in Totalled' : d <= f => f \in Totalled'
        BY <3>2, <4>2 DEF Shape, SlotsInv
      <4>4. subscribed' # {}
        BY <1>1, <2>4
      <4>5. QED
        BY <4>1, <4>3, <4>4 DEF SlotsInv
    <3>4. \A s \in Subscribers \ subscribed' : spans'[s] = {}
      BY <1>1, <2>4 DEF Shape, SpanTypes
    <3>5. SpanTypes'
      BY <1>1, <1>2, <2>4, <3>4 DEF Shape, SpanTypes, epochs
    <3>6. QED
      BY <1>2, <3>3, <3>5 DEF Shape
  <2>5. QED
    BY <2>2, <2>3, <2>4, FinishedIs DEF Shape
<1>5. QED
  BY <1>3, <1>4, FlushEndsAt DEF Shape, TimedKinds

LEMMA ShapeStep ==
  ASSUME Shape, SpanStep
  PROVE  Shape'
BY WorksShape, NodeShape, RunBeginsShape, RunReturnsShape, HookShape, SubscribeShape,
   UnsubscribeShape, DrainShape, ExternalShape, CloseShape DEF SpanStep

LEMMA InitShape == Init => Shape
<1> SUFFICES ASSUME Init PROVE Shape
  OBVIOUS
<1>1. /\ subscribed \in SUBSET Subscribers /\ flush_epoch = 0 /\ open_flush_epoch = 0
      /\ stack = <<>> /\ slots = <<>> /\ outside = 0
      /\ spans = [s \in Subscribers |-> {}] /\ witnesses = subscribed
      /\ unit = NoUnit /\ reported = <<>>
  BY DEF Init, SpansInit
<1>2. Timed = {} /\ Places({"run"}) = {} /\ Totalled = {}
  BY <1>1 DEF Timed, Places, Totalled
<1>3. unit \in [done : BOOLEAN, at : Nat]
  BY <1>1 DEF NoUnit
<1>4. SpanTypes
  BY <1>1, <1>3 DEF SpanTypes
<1>5. QED
  BY <1>1, <1>2, <1>4 DEF Shape, StackInv, SlotsInv

-----------------------------------------------------------------------------
(* What is taken for alive, running and flushing is so.                    *)

RunNodes == {stack[i].node : i \in Places({"run"})}
Facts(E, L, R) ==
  {FlushSpan(e) : e \in E}
    \cup {NodeSpan(n) : n \in {m \in Nodes : L[m] = "live"}}
    \cup {RunSpan(n) : n \in {m \in Observers : m \in R}}

LEMMA RealIs ==
  Real = Facts(Opened, life, RunNodes) /\ Real' = Facts(Opened', life', RunNodes')
<1>1. \A n : Running(n) <=> n \in RunNodes
  BY DEF Running, RunNodes, Places
<1>2. {FlushSpan(stack[i].epoch) : i \in Timed} = {FlushSpan(e) : e \in Opened}
  BY DEF Opened
<1>3. Real = Facts(Opened, life, RunNodes)
  BY <1>1, <1>2 DEF Real, Facts
<1>4. \A n : Running(n)' <=> n \in RunNodes'
  BY DEF Running, RunNodes, Places
<1>5. {FlushSpan(stack'[i].epoch) : i \in Timed'} = {FlushSpan(e) : e \in Opened'}
  BY DEF Opened
<1>6. Real' = Facts(Opened', life', RunNodes')
  BY <1>4, <1>5 DEF Real, Facts
<1>7. QED
  BY <1>3, <1>6

LEMMA FactsAre ==
  ASSUME NEW E, NEW L, NEW R
  PROVE  /\ \A e : FlushSpan(e) \in Facts(E, L, R) <=> e \in E
         /\ \A n : NodeSpan(n) \in Facts(E, L, R) <=> n \in Nodes /\ L[n] = "live"
         /\ \A n : RunSpan(n) \in Facts(E, L, R) <=> n \in Observers /\ n \in R
<1>1. \A e, n : FlushSpan(e) # NodeSpan(n) /\ FlushSpan(e) # RunSpan(n)
  BY DEF FlushSpan, NodeSpan, RunSpan
<1>2. \A m, n : NodeSpan(m) # RunSpan(n)
  BY DEF NodeSpan, RunSpan
<1>3. /\ \A e, f : FlushSpan(e) = FlushSpan(f) => e = f
      /\ \A m, n : NodeSpan(m) = NodeSpan(n) => m = n
      /\ \A m, n : RunSpan(m) = RunSpan(n) => m = n
  BY DEF FlushSpan, NodeSpan, RunSpan
<1>4. QED
  BY <1>1, <1>2, <1>3, Zenon DEF Facts

(* How the facts change. *)
Gains(A, x, B) == B = A \cup {x}
Loses(A, x, B) == B = A \ {x}

LEMMA FlushFact ==
  ASSUME NEW E, NEW L, NEW R, NEW e, NEW S
  PROVE  /\ Gains(E, e, S) => Gains(Facts(E, L, R), FlushSpan(e), Facts(S, L, R))
         /\ Loses(E, e, S) => Loses(Facts(E, L, R), FlushSpan(e), Facts(S, L, R))
<1>1. \A f : FlushSpan(f) = FlushSpan(e) => f = e
  BY DEF FlushSpan
<1>2. \A n : FlushSpan(e) # NodeSpan(n) /\ FlushSpan(e) # RunSpan(n)
  BY DEF FlushSpan, NodeSpan, RunSpan
<1>3. {FlushSpan(f) : f \in E \cup {e}} = {FlushSpan(f) : f \in E} \cup {FlushSpan(e)}
  OBVIOUS
<1>4. {FlushSpan(f) : f \in E \ {e}} = {FlushSpan(f) : f \in E} \ {FlushSpan(e)}
  BY <1>1
<1> DEFINE A == {NodeSpan(n) : n \in {m \in Nodes : L[m] = "live"}}
           B == {RunSpan(n) : n \in {m \in Observers : m \in R}}
<1>5. FlushSpan(e) \notin A /\ FlushSpan(e) \notin B
  BY <1>2
<1>6. \A F : Facts(F, L, R) = {FlushSpan(f) : f \in F} \cup A \cup B
  BY DEF Facts
<1> HIDE DEF A, B
<1>7. Facts(E \cup {e}, L, R) = Facts(E, L, R) \cup {FlushSpan(e)}
  BY <1>3, <1>6
<1>8. Facts(E \ {e}, L, R) = Facts(E, L, R) \ {FlushSpan(e)}
  BY <1>4, <1>5, <1>6
<1>9. QED
  BY <1>7, <1>8 DEF Gains, Loses

LEMMA RunFact ==
  ASSUME NEW E, NEW L, NEW R, NEW n \in Observers, NEW S
  PROVE  /\ Gains(R, n, S) => Gains(Facts(E, L, R), RunSpan(n), Facts(E, L, S))
         /\ Loses(R, n, S) => Loses(Facts(E, L, R), RunSpan(n), Facts(E, L, S))
<1>1. \A m : RunSpan(m) = RunSpan(n) => m = n
  BY DEF RunSpan
<1>2. \A m, e : RunSpan(n) # NodeSpan(m) /\ RunSpan(n) # FlushSpan(e)
  BY DEF FlushSpan, NodeSpan, RunSpan
<1> DEFINE B(T) == {RunSpan(m) : m \in {p \in Observers : p \in T}}
<1>3. B(R \cup {n}) = B(R) \cup {RunSpan(n)}
  OBVIOUS
<1>4. B(R \ {n}) = B(R) \ {RunSpan(n)}
  BY <1>1
<1> DEFINE A == {NodeSpan(m) : m \in {p \in Nodes : L[p] = "live"}}
           C == {FlushSpan(e) : e \in E}
<1>5. RunSpan(n) \notin A /\ RunSpan(n) \notin C
  BY <1>2
<1>6. \A T : Facts(E, L, T) = C \cup A \cup B(T)
  BY DEF Facts
<1> HIDE DEF A, B, C
<1>7. Facts(E, L, R \cup {n}) = Facts(E, L, R) \cup {RunSpan(n)}
  BY <1>3, <1>6
<1>8. Facts(E, L, R \ {n}) = Facts(E, L, R) \ {RunSpan(n)}
  BY <1>4, <1>5, <1>6
<1>9. QED
  BY <1>7, <1>8 DEF Gains, Loses

LEMMA NodeFact ==
  ASSUME NEW E, NEW L, NEW M, NEW R, NEW n \in Nodes, \A m \in Nodes : m # n => M[m] = L[m]
  PROVE  /\ M[n] = "live" => Facts(E, M, R) = Facts(E, L, R) \cup {NodeSpan(n)}
         /\ M[n] = "gone" => Facts(E, M, R) = Facts(E, L, R) \ {NodeSpan(n)}
<1>1. \A m : NodeSpan(m) = NodeSpan(n) => m = n
  BY DEF NodeSpan
<1>2. \A m, e : NodeSpan(n) # RunSpan(m) /\ NodeSpan(n) # FlushSpan(e)
  BY DEF FlushSpan, NodeSpan, RunSpan
<1> DEFINE Live(K) == {m \in Nodes : K[m] = "live"}
           A(S) == {NodeSpan(m) : m \in S}
<1>3. /\ M[n] = "live" => Live(M) = Live(L) \cup {n}
      /\ M[n] = "gone" => Live(M) = Live(L) \ {n}
  OBVIOUS
<1>4. \A S : A(S \cup {n}) = A(S) \cup {NodeSpan(n)} /\ A(S \ {n}) = A(S) \ {NodeSpan(n)}
  BY <1>1
<1> DEFINE B == {RunSpan(m) : m \in {p \in Observers : p \in R}}
           C == {FlushSpan(e) : e \in E}
<1>5. NodeSpan(n) \notin B /\ NodeSpan(n) \notin C
  BY <1>2
<1>6. \A K : Facts(E, K, R) = C \cup A(Live(K)) \cup B
  BY DEF Facts
<1> HIDE DEF A, B, C, Live
<1>7. PICK S : S = Live(L)
  OBVIOUS
<1>8. Facts(E, L, R) = C \cup A(S) \cup B
  BY <1>6, <1>7
<1>9. ASSUME M[n] = "live" PROVE Facts(E, M, R) = Facts(E, L, R) \cup {NodeSpan(n)}
  <2>1. Facts(E, M, R) = C \cup A(S \cup {n}) \cup B
    BY <1>3, <1>6, <1>7, <1>9
  <2>2. A(S \cup {n}) = A(S) \cup {NodeSpan(n)}
    BY <1>4
  <2>3. QED
    BY <1>8, <2>1, <2>2
<1>10. ASSUME M[n] = "gone" PROVE Facts(E, M, R) = Facts(E, L, R) \ {NodeSpan(n)}
  <2>1. Facts(E, M, R) = C \cup A(S \ {n}) \cup B
    BY <1>3, <1>6, <1>7, <1>10
  <2>2. A(S \ {n}) = A(S) \ {NodeSpan(n)}
    BY <1>4
  <2>3. QED
    BY <1>5, <1>8, <2>1, <2>2
<1>11. QED
  BY <1>9, <1>10

(* What subscribers heard changes with the facts. *)
LEMMA HearsBegin ==
  ASSUME SpanTypes, TakenForReal, NEW x, Real' = Real \cup {x},
         subscribed' = subscribed, witnesses' = witnesses,
         \A s \in Subscribers : s \in subscribed => spans'[s] = spans[s] \cup {x},
         \A s \in Subscribers : s \notin subscribed => spans'[s] = {}
  PROVE  TakenForReal'
<1>1. witnesses \subseteq subscribed /\ subscribed \subseteq Subscribers
  BY DEF SpanTypes
<1>2. \A s \in Subscribers : spans'[s] \subseteq Real'
  BY DEF TakenForReal
<1>3. ASSUME NEW s \in witnesses' PROVE spans'[s] = Real'
  <2>1. s \in witnesses /\ s \in subscribed /\ s \in Subscribers
    BY <1>1
  <2>2. spans'[s] = spans[s] \cup {x} /\ spans[s] = Real
    BY <2>1 DEF TakenForReal
  <2>3. QED
    BY <2>2
<1>4. QED
  BY <1>2, <1>3 DEF TakenForReal

LEMMA HearsEnd ==
  ASSUME SpanTypes, TakenForReal, NEW x, Real' = Real \ {x}, witnesses' = witnesses,
         \/ \A s \in Subscribers : spans'[s] = spans[s] \ {x}
         \/ witnesses = {} /\ \A s \in Subscribers : spans'[s] = spans[s] /\ x \notin spans[s]
  PROVE  TakenForReal'
<1>1. witnesses \subseteq Subscribers
  BY DEF SpanTypes
<1>2. \A s \in Subscribers : spans'[s] \subseteq Real'
  BY DEF TakenForReal
<1>3. ASSUME NEW s \in witnesses' PROVE spans'[s] = Real'
  <2>1. s \in witnesses /\ s \in Subscribers /\ spans'[s] = spans[s] \ {x}
    BY <1>1
  <2>2. spans[s] = Real
    BY <2>1 DEF TakenForReal
  <2>3. QED
    BY <2>1, <2>2
<1>4. QED
  BY <1>2, <1>3 DEF TakenForReal

LEMMA HearsNothing ==
  ASSUME TakenForReal, Real' = Real, witnesses' = witnesses, spans' = spans
  PROVE  TakenForReal'
BY DEF TakenForReal

(* The frames of runs that nobody heard begin. *)
Unheard ==
  \A i \in Places({"run"}) : ~stack[i].heard =>
     /\ witnesses = {}
     /\ \A s \in Subscribers : RunSpan(stack[i].node) \notin spans[s]
FlushesHeard == \A s \in Subscribers : \A e \in Nat : FlushSpan(e) \in spans[s] => e \in Totalled

LEMMA HeardParts == HeardInv <=> TakenForReal /\ FlushesHeard /\ Unheard
BY DEF HeardInv, FlushesHeard, Unheard

LEMMA SameRuns ==
  ASSUME stack' = stack
  PROVE  RunNodes' = RunNodes /\ Opened' = Opened
BY DEF RunNodes, Places, Opened, Timed

(* Nothing new about runs is heard, and their frames stay. *)
LEMMA UnheardStays ==
  ASSUME Unheard, witnesses' \subseteq witnesses,
         \A i \in Places({"run"})' : i \in Places({"run"}) /\ stack'[i] = stack[i],
         \A s \in Subscribers : \A n : RunSpan(n) \in spans'[s] => RunSpan(n) \in spans[s]
  PROVE  Unheard'
BY DEF Unheard

LEMMA WorksHeard ==
  ASSUME Shape, HeardInv, Works
  PROVE  HeardInv'
<1>1. Worked /\ UNCHANGED <<stack, spans, witnesses, life>>
  BY DEF Works, heard
<1>2. Totalled' = Totalled
  BY <1>1, WorkKeeps DEF Shape
<1>3. Real' = Real
  BY <1>1, SameRuns, RealIs
<1>4. TakenForReal'
  BY <1>1, <1>3, HearsNothing, HeardParts
<1>5. FlushesHeard' /\ Unheard'
  BY <1>1, <1>2, HeardParts DEF FlushesHeard, Unheard, Places
<1>6. QED
  BY <1>4, <1>5 DEF HeardInv, FlushesHeard, Unheard

LEMMA NodeHeard ==
  ASSUME Types, Shape, HeardInv, NEW n \in Nodes, NodeBegins(n) \/ NodeEnds(n)
  PROVE  HeardInv'
<1>1. Worked /\ UNCHANGED <<subscribed, stack, witnesses>>
  BY DEF NodeBegins, NodeEnds, Quietly
<1>2. Totalled' = Totalled
  BY <1>1, WorkKeeps DEF Shape
<1>3. NodeSpan(n) \in Things /\ \A e, m : NodeSpan(n) # FlushSpan(e) /\ NodeSpan(n) # RunSpan(m)
  BY ThingsAre DEF FlushSpan, NodeSpan, RunSpan
<1>4. Real = Facts(Opened, life, RunNodes) /\ Real' = Facts(Opened, life', RunNodes)
  BY <1>1, SameRuns, RealIs
<1>5. life \in [Nodes -> {"unborn", "live", "gone"}]
  BY DEF Types
<1>6. /\ life'[n] = "live" => Real' = Real \cup {NodeSpan(n)}
      /\ life'[n] = "gone" => Real' = Real \ {NodeSpan(n)}
  <2>1. PICK lives : lives = life'
    OBVIOUS
  <2>2. \A m \in Nodes : m # n => lives[m] = life[m]
    BY <1>5, <2>1 DEF NodeBegins, NodeEnds
  <2>3. PICK opened, runs : opened = Opened /\ runs = RunNodes
    OBVIOUS
  <2>4. /\ lives[n] = "live" => Facts(opened, lives, runs) = Facts(opened, life, runs) \cup {NodeSpan(n)}
        /\ lives[n] = "gone" => Facts(opened, lives, runs) = Facts(opened, life, runs) \ {NodeSpan(n)}
    BY <2>2, NodeFact
  <2>5. QED
    BY <1>4, <2>1, <2>3, <2>4
<1>7. TakenForReal' /\ \A s \in Subscribers : spans'[s] \subseteq spans[s] \cup {NodeSpan(n)}
  <2>1. CASE NodeBegins(n)
    <3>1. Begins(NodeSpan(n)) /\ life' = [life EXCEPT ![n] = "live"]
      BY <2>1 DEF NodeBegins
    <3>2. Real' = Real \cup {NodeSpan(n)}
      BY <1>5, <1>6, <3>1
    <3>3. /\ \A s \in Subscribers : s \in subscribed => spans'[s] = spans[s] \cup {NodeSpan(n)}
          /\ \A s \in Subscribers : s \notin subscribed => spans'[s] = {}
      BY <1>3, <3>1, BeginsIs DEF Shape
    <3>4. QED
      BY <1>1, <3>2, <3>3, HearsBegin DEF Shape, HeardInv
  <2>2. CASE NodeEnds(n)
    <3>1. Ends(NodeSpan(n)) /\ life' = [life EXCEPT ![n] = "gone"]
      BY <2>2 DEF NodeEnds
    <3>2. Real' = Real \ {NodeSpan(n)}
      BY <1>5, <1>6, <3>1
    <3>3. \A s \in Subscribers : spans'[s] = spans[s] \ {NodeSpan(n)}
      BY <3>1, EndsIs DEF Shape
    <3>4. QED
      BY <1>1, <3>2, <3>3, HearsEnd DEF Shape, HeardInv
  <2>3. QED
    BY <2>1, <2>2
<1>8. FlushesHeard'
  BY <1>2, <1>3, <1>7, HeardParts DEF FlushesHeard
<1>9. Unheard'
  <2>1. \A i \in Places({"run"})' : i \in Places({"run"}) /\ stack'[i] = stack[i]
    BY <1>1 DEF Places
  <2>2. \A s \in Subscribers : \A m : RunSpan(m) \in spans'[s] => RunSpan(m) \in spans[s]
    BY <1>3, <1>7
  <2>3. QED
    BY <1>1, <2>1, <2>2, UnheardStays, HeardParts
<1>10. QED
  BY <1>7, <1>8, <1>9 DEF HeardInv, FlushesHeard, Unheard

LEMMA RunBeginsHeard ==
  ASSUME Shape, HeardInv, NEW n \in Observers, RunBegins(n)
  PROVE  HeardInv'
<1>1. /\ Worked /\ UNCHANGED <<subscribed, epochs, witnesses, life>>
      /\ ~Running(n) /\ stack' = Append(stack, Run(n)) /\ Begins(RunSpan(n))
  BY DEF RunBegins, Quietly
<1>2. Totalled' = Totalled
  BY <1>1, WorkKeeps DEF Shape
<1>3. /\ Run(n) \in StackFrames /\ Run(n).kind = "run" /\ Run(n).node = n
      /\ Run(n).heard = (subscribed # {})
  BY FramesAre DEF Run, Frame
<1>4. Opened' = Opened
  BY <1>1, <1>3, PushStack DEF Shape, TimedKinds
<1> DEFINE l == Len(stack) + 1
<1>5. /\ Places({"run"})' = Places({"run"}) \cup {l}
      /\ \A i \in Places({"run"}) : stack'[i] = stack[i] /\ stack[i].node # n
      /\ stack'[l].node = n /\ stack'[l].heard = (subscribed # {})
  <2>1. \A i \in Places({"run"}) : stack[i].node # n
    BY <1>1 DEF Running, Places
  <2>2. QED
    BY <1>1, <1>3, <2>1, Pushing DEF Shape
<1> HIDE DEF l
<1>6. RunNodes' = RunNodes \cup {n}
  BY <1>5 DEF RunNodes
<1>7. Real' = Real \cup {RunSpan(n)}
  <2>1. Real = Facts(Opened, life, RunNodes) /\ Real' = Facts(Opened, life, RunNodes \cup {n})
    BY <1>1, <1>4, <1>6, RealIs
  <2>2. PICK E, L, R, S : E = Opened /\ L = life /\ R = RunNodes /\ S = RunNodes \cup {n}
    OBVIOUS
  <2>3. Gains(R, n, S)
    BY <2>2 DEF Gains
  <2>4. Gains(Facts(E, L, R), RunSpan(n), Facts(E, L, S))
    BY <2>3, RunFact
  <2>5. QED
    BY <2>1, <2>2, <2>4 DEF Gains
<1>8. /\ \A s \in Subscribers : s \in subscribed => spans'[s] = spans[s] \cup {RunSpan(n)}
      /\ \A s \in Subscribers : s \notin subscribed => spans'[s] = {}
  BY <1>1, ThingsAre, BeginsIs DEF Shape, Nodes
<1>9. TakenForReal'
  BY <1>1, <1>7, <1>8, HearsBegin DEF Shape, HeardInv
<1>10. FlushesHeard'
  <2>1. \A e : FlushSpan(e) # RunSpan(n)
    BY DEF FlushSpan, RunSpan
  <2>2. QED
    BY <1>2, <1>8, <2>1, HeardParts DEF FlushesHeard
<1>11. Unheard'
  <2>1. ASSUME NEW i \in Places({"run"})', ~stack'[i].heard
        PROVE  /\ witnesses' = {}
               /\ \A s \in Subscribers : RunSpan(stack'[i].node) \notin spans'[s]
    <3>1. CASE i = l
      <4>1. subscribed = {}
        BY <1>5, <2>1, <3>1
      <4>2. witnesses' = {}
        BY <1>1, <4>1 DEF Shape, SpanTypes
      <4>3. QED
        BY <1>8, <4>1, <4>2
    <3>2. CASE i \in Places({"run"})
      <4>1. stack'[i] = stack[i] /\ stack[i].node # n /\ ~stack[i].heard
        BY <1>5, <2>1, <3>2
      <4>2. RunSpan(stack[i].node) # RunSpan(n)
        BY <4>1 DEF RunSpan
      <4>3. witnesses = {} /\ \A s \in Subscribers : RunSpan(stack[i].node) \notin spans[s]
        BY <3>2, <4>1 DEF HeardInv
      <4>4. QED
        BY <1>1, <1>8, <4>1, <4>2, <4>3
    <3>3. QED
      BY <1>5, <2>1, <3>1, <3>2
  <2>2. QED
    BY <2>1 DEF Unheard
<1>12. QED
  BY <1>9, <1>10, <1>11 DEF HeardInv, FlushesHeard, Unheard

LEMMA RunReturnsHeard ==
  ASSUME Shape, HeardInv, RunReturns
  PROVE  HeardInv'
<1>1. /\ Worked /\ UNCHANGED <<subscribed, epochs, witnesses, life>>
      /\ ~Idle /\ Top.kind = "run" /\ stack' = Front(stack) /\ EndSpan
  BY DEF RunReturns, Quietly, OnTop
<1>2. Totalled' = Totalled
  BY <1>1, WorkKeeps DEF Shape
<1>3. Opened' = Opened
  BY <1>1, PopStack DEF Shape, TimedKinds
<1> DEFINE l == Len(stack)
<1>4. /\ Places({"run"})' = Places({"run"}) \ {l} /\ l \in Places({"run"})
      /\ Top = stack[l]
      /\ \A i \in Places({"run"})' : stack'[i] = stack[i]
  BY <1>1, Popping DEF Shape
<1> HIDE DEF l
<1>5. PICK n \in Observers : n = Top.node
  BY <1>4 DEF Shape, StackInv
<1>6. RunNodes' = RunNodes \ {n}
  <2>1. \A i \in Places({"run"})' : stack[i].node # n
    BY <1>4, <1>5 DEF Shape, StackInv
  <2>2. RunNodes' = {stack[i].node : i \in Places({"run"})'}
    BY <1>4 DEF RunNodes
  <2>3. RunNodes = {stack[i].node : i \in Places({"run"})' \cup {l}}
    BY <1>4 DEF RunNodes
  <2>4. QED
    BY <1>4, <1>5, <2>1, <2>2, <2>3
<1>7. Real' = Real \ {RunSpan(n)}
  <2>1. Real = Facts(Opened, life, RunNodes) /\ Real' = Facts(Opened, life, RunNodes \ {n})
    BY <1>1, <1>3, <1>6, RealIs
  <2>2. PICK E, L, R, S : E = Opened /\ L = life /\ R = RunNodes /\ S = RunNodes \ {n}
    OBVIOUS
  <2>3. Loses(R, n, S)
    BY <2>2 DEF Loses
  <2>4. Loses(Facts(E, L, R), RunSpan(n), Facts(E, L, S))
    BY <2>3, RunFact
  <2>5. QED
    BY <2>1, <2>2, <2>4 DEF Loses
<1>8. \/ \A s \in Subscribers : spans'[s] = spans[s] \ {RunSpan(n)}
      \/ /\ witnesses = {}
         /\ \A s \in Subscribers : spans'[s] = spans[s] /\ RunSpan(n) \notin spans[s]
  <2>1. CASE Top.heard
    BY <1>1, <1>5, <2>1, EndSpanIs DEF Shape
  <2>2. CASE ~Top.heard
    <3>1. spans' = spans
      BY <1>1, <2>2, EndSpanIs DEF Shape
    <3>2. witnesses = {} /\ \A s \in Subscribers : RunSpan(n) \notin spans[s]
      BY <1>4, <1>5, <2>2 DEF HeardInv
    <3>3. QED
      BY <3>1, <3>2
  <2>3. QED
    BY <2>1, <2>2
<1>9. TakenForReal'
  BY <1>1, <1>7, <1>8, HearsEnd DEF Shape, HeardInv
<1>10. \A s \in Subscribers : spans'[s] \subseteq spans[s]
  BY <1>8
<1>11. FlushesHeard'
  BY <1>2, <1>10, HeardParts DEF FlushesHeard
<1>12. Unheard'
  <2>1. \A i \in Places({"run"})' : i \in Places({"run"}) /\ stack'[i] = stack[i]
    BY <1>4
  <2>2. \A s \in Subscribers : \A m : RunSpan(m) \in spans'[s] => RunSpan(m) \in spans[s]
    BY <1>10
  <2>3. QED
    BY <1>1, <2>1, <2>2, UnheardStays, HeardParts
<1>13. QED
  BY <1>9, <1>11, <1>12 DEF HeardInv, FlushesHeard, Unheard

(* A frame that is neither a run nor a flush with an epoch changes no fact. *)
LEMMA PlainHeard ==
  ASSUME Shape, HeardInv, UNCHANGED <<witnesses, life, spans, slots>>,
         \/ \E f \in StackFrames : stack' = Append(stack, f) /\ f.kind \in {"hook", "joined"}
         \/ ~Idle /\ stack' = Front(stack) /\ Top.kind \in {"hook", "joined"}
  PROVE  HeardInv'
<1>1. Opened' = Opened /\ Places({"run"})' = Places({"run"}) /\ \A i \in Places({"run"}) : stack'[i] = stack[i]
  <2>1. CASE \E f \in StackFrames : stack' = Append(stack, f) /\ f.kind \in {"hook", "joined"}
    <3>1. PICK f \in StackFrames : stack' = Append(stack, f) /\ f.kind \in {"hook", "joined"}
      BY <2>1
    <3>2. /\ Places(TimedKinds)' = Places(TimedKinds) /\ Places({"run"})' = Places({"run"})
          /\ \A i \in Places(TimedKinds) : stack'[i] = stack[i]
          /\ \A i \in Places({"run"}) : stack'[i] = stack[i]
      <4>1. /\ Places(TimedKinds)' = Places(TimedKinds)
            /\ \A i \in Places(TimedKinds) : stack'[i] = stack[i]
        <5>1. f.kind \notin TimedKinds
          BY <3>1 DEF TimedKinds
        <5>2. QED
          BY <3>1, <5>1, PushingOther DEF Shape
      <4>2. /\ Places({"run"})' = Places({"run"})
            /\ \A i \in Places({"run"}) : stack'[i] = stack[i]
        BY <3>1, Pushing DEF Shape
      <4>3. QED
        BY <4>1, <4>2
    <3>3. QED
      BY <3>2 DEF Opened, Timed, TimedKinds
  <2>2. CASE ~Idle /\ stack' = Front(stack) /\ Top.kind \in {"hook", "joined"}
    <3>1. /\ Places(TimedKinds)' = Places(TimedKinds) /\ Places({"run"})' = Places({"run"})
          /\ \A i \in Places(TimedKinds) : stack'[i] = stack[i]
          /\ \A i \in Places({"run"}) : stack'[i] = stack[i]
      <4>1. /\ Places(TimedKinds)' = Places(TimedKinds)
            /\ \A i \in Places(TimedKinds) : stack'[i] = stack[i]
        <5>1. Top.kind \notin TimedKinds
          BY <2>2 DEF TimedKinds
        <5>2. QED
          BY <2>2, <5>1, PoppingOther DEF Shape
      <4>2. /\ Places({"run"})' = Places({"run"})
            /\ \A i \in Places({"run"}) : stack'[i] = stack[i]
        <5>1. PICK K : K = {"run"}
          OBVIOUS
        <5>2. Top.kind \notin K
          BY <2>2, <5>1
        <5>3. Places(K)' = Places(K) /\ \A i \in Places(K) : stack'[i] = stack[i]
          BY <2>2, <5>2, PoppingOther DEF Shape
        <5>4. QED
          BY <5>1, <5>3
      <4>3. QED
        BY <4>1, <4>2
    <3>2. QED
      BY <3>1 DEF Opened, Timed, TimedKinds
  <2>3. QED
    BY <2>1, <2>2
<1>2. RunNodes' = RunNodes
  BY <1>1 DEF RunNodes
<1>3. Real' = Real
  BY <1>1, <1>2, RealIs
<1>4. TakenForReal'
  BY <1>3, HearsNothing, HeardParts
<1>5. FlushesHeard' /\ Unheard'
  BY <1>1, HeardParts DEF FlushesHeard, Unheard, Totalled
<1>6. QED
  BY <1>4, <1>5 DEF HeardInv, FlushesHeard, Unheard

LEMMA ListenHeard ==
  ASSUME Shape, HeardInv, UNCHANGED life, NEW s \in Subscribers, Subscribe(s) \/ Unsubscribe(s)
  PROVE  HeardInv'
<1>1. UNCHANGED stack
  BY DEF Subscribe, Unsubscribe
<1>2. Real' = Real
  BY <1>1, SameRuns, RealIs
<1>3. CASE Subscribe(s)
  <2>1. UNCHANGED <<slots, spans, witnesses>>
    BY <1>3 DEF Subscribe, totals, heard
  <2>2. TakenForReal'
    BY <1>2, <2>1, HearsNothing, HeardParts
  <2>3. FlushesHeard' /\ Unheard'
    BY <1>1, <2>1, HeardParts DEF FlushesHeard, Unheard, Totalled, Places
  <2>4. QED
    BY <2>2, <2>3 DEF HeardInv, FlushesHeard, Unheard
<1>4. CASE Unsubscribe(s)
  <2>1. /\ s \in subscribed /\ witnesses' = witnesses \ {s} /\ spans' = [spans EXCEPT ![s] = {}]
        /\ slots' = slots \/ subscribed = {s}
    BY <1>4 DEF Unsubscribe, NoWork, totals
  <2>2. \A t \in Subscribers : spans'[t] = IF t = s THEN {} ELSE spans[t]
    BY <2>1 DEF Shape, SpanTypes
  <2>3. TakenForReal'
    <3>1. witnesses \subseteq Subscribers
      BY DEF Shape, SpanTypes
    <3>2. QED
      BY <1>2, <2>1, <2>2, <3>1 DEF HeardInv, TakenForReal
  <2>4. FlushesHeard'
    <3>1. CASE slots' = slots
      BY <2>2, <3>1, HeardParts DEF FlushesHeard, Totalled
    <3>2. CASE subscribed = {s}
      <4>1. \A t \in Subscribers : spans'[t] = {}
        BY <2>2, <3>2 DEF Shape, SpanTypes
      <4>2. QED
        BY <4>1 DEF FlushesHeard
    <3>3. QED
      BY <2>1, <3>1, <3>2
  <2>5. Unheard'
    <3>1. /\ \A i \in Places({"run"})' : i \in Places({"run"}) /\ stack'[i] = stack[i]
          /\ \A t \in Subscribers : \A m : RunSpan(m) \in spans'[t] => RunSpan(m) \in spans[t]
      BY <1>1, <2>2 DEF Places
    <3>2. witnesses' \subseteq witnesses
      BY <2>1
    <3>3. QED
      BY <3>1, <3>2, UnheardStays, HeardParts
  <2>6. QED
    BY <2>3, <2>4, <2>5 DEF HeardInv, FlushesHeard, Unheard
<1>5. QED
  BY <1>3, <1>4

LEMMA OpenHeard ==
  ASSUME Shape, HeardInv, NEW e \in Nat, e = flush_epoch + 1, Started(e),
         NEW f \in StackFrames, f.kind \in TimedKinds, f.epoch = e, stack' = Append(stack, f),
         UNCHANGED <<subscribed, witnesses, life>>
  PROVE  HeardInv'
<1>1. /\ Places(TimedKinds)' = Places(TimedKinds) \cup {Len(stack) + 1}
      /\ Places({"run"})' = Places({"run"})
      /\ \A i \in Places(TimedKinds) : stack'[i] = stack[i]
      /\ \A i \in Places({"run"}) : stack'[i] = stack[i]
      /\ stack'[Len(stack) + 1] = f
  <2>1. /\ Places(TimedKinds)' = Places(TimedKinds) \cup {Len(stack) + 1}
        /\ \A i \in Places(TimedKinds) : stack'[i] = stack[i]
        /\ stack'[Len(stack) + 1] = f
    BY Pushing DEF Shape
  <2>2. f.kind \notin {"run"}
    BY DEF TimedKinds
  <2>3. /\ Places({"run"})' = Places({"run"})
        /\ \A i \in Places({"run"}) : stack'[i] = stack[i]
    <3>1. PICK K : K = {"run"} /\ f.kind \notin K
      BY <2>2
    <3>2. Places(K)' = Places(K) /\ \A i \in Places(K) : stack'[i] = stack[i]
      BY <3>1, PushingOther DEF Shape
    <3>3. QED
      BY <3>1, <3>2
  <2>4. QED
    BY <2>1, <2>3
<1>2. Opened' = Opened \cup {e}
  <2>1. PICK l : l = Len(stack) + 1
    OBVIOUS
  <2>2. /\ Places(TimedKinds)' = Places(TimedKinds) \cup {l}
        /\ \A i \in Places(TimedKinds) : stack'[i] = stack[i]
        /\ stack'[l].epoch = e
    BY <1>1, <2>1
  <2>3. Opened = {stack[i].epoch : i \in Places(TimedKinds)}
    BY DEF Opened, Timed, TimedKinds
  <2>4. Opened' = {stack'[i].epoch : i \in Places(TimedKinds)'}
    BY DEF Opened, Timed, TimedKinds
  <2>5. QED
    BY <2>2, <2>3, <2>4
<1>3. RunNodes' = RunNodes
  BY <1>1 DEF RunNodes
<1>4. Real' = Real \cup {FlushSpan(e)}
  <2>1. Real = Facts(Opened, life, RunNodes) /\ Real' = Facts(Opened \cup {e}, life, RunNodes)
    BY <1>2, <1>3, RealIs
  <2>2. PICK E, L, R, S : E = Opened /\ L = life /\ R = RunNodes /\ S = Opened \cup {e}
    OBVIOUS
  <2>3. Gains(E, e, S)
    BY <2>2 DEF Gains
  <2>4. Gains(Facts(E, L, R), FlushSpan(e), Facts(S, L, R))
    BY <2>3, FlushFact
  <2>5. QED
    BY <2>1, <2>2, <2>4 DEF Gains
<1>5. /\ \A s \in Subscribers : s \in subscribed => spans'[s] = spans[s] \cup {FlushSpan(e)}
      /\ \A s \in Subscribers : s \notin subscribed => spans'[s] = {}
      /\ subscribed # {} => Totalled' = Totalled \cup {e}
  BY StartedIs DEF Shape
<1>6. TakenForReal'
  BY <1>4, <1>5, HearsBegin DEF Shape, HeardInv
<1>7. FlushesHeard'
  <2>1. ASSUME NEW s \in Subscribers, NEW d \in Nat, FlushSpan(d) \in spans'[s]
        PROVE  d \in Totalled'
    <3>1. s \in subscribed /\ Totalled' = Totalled \cup {e}
      BY <1>5, <2>1
    <3>2. CASE d = e
      BY <3>1, <3>2
    <3>3. CASE d # e
      <4>1. FlushSpan(d) # FlushSpan(e)
        BY <3>3 DEF FlushSpan
      <4>2. FlushSpan(d) \in spans[s]
        BY <1>5, <2>1, <3>1, <4>1
      <4>3. QED
        BY <3>1, <4>2 DEF HeardInv
    <3>4. QED
      BY <3>2, <3>3
  <2>2. QED
    BY <2>1 DEF FlushesHeard
<1>8. Unheard'
  <2>1. \A i \in Places({"run"})' : i \in Places({"run"}) /\ stack'[i] = stack[i]
    BY <1>1
  <2>2. \A s \in Subscribers : \A m : RunSpan(m) \in spans'[s] => RunSpan(m) \in spans[s]
    <3>1. \A m : RunSpan(m) # FlushSpan(e)
      BY DEF RunSpan, FlushSpan
    <3>2. QED
      BY <1>5, <3>1
  <2>3. QED
    BY <2>1, <2>2, UnheardStays, HeardParts
<1>9. QED
  BY <1>6, <1>7, <1>8 DEF HeardInv, FlushesHeard, Unheard

LEMMA CloseHeard ==
  ASSUME Shape, HeardInv, FlushEnds
  PROVE  HeardInv'
<1>1. /\ ~Idle /\ Top.kind \in FlushKinds /\ stack' = Front(stack)
      /\ UNCHANGED <<subscribed, epochs, witnesses, life>>
  BY DEF FlushEnds, PopFlush
<1>2. CASE Top.kind = "joined" /\ UNCHANGED <<slots, spans, orphans, reported>>
  BY <1>1, <1>2, PlainHeard
<1>3. CASE Top.kind \in TimedKinds /\ Finished(Top.epoch)
  <2>1. PICK e \in Nat : e = Top.epoch
    <3>1. Top \in StackFrames
      BY <1>1, Popping DEF Shape
    <3>2. QED
      BY <3>1 DEF StackFrames
  <2>2. Opened' = Opened \ {e} /\ e \in Opened
    BY <1>1, <1>3, <2>1, PopStack DEF Shape
  <2>3. /\ Places({"run"})' = Places({"run"})
        /\ \A i \in Places({"run"}) : stack'[i] = stack[i]
    <3>1. Len(stack) \notin Places({"run"})
      BY <1>1, <1>3, Popping DEF Shape, TimedKinds
    <3>2. QED
      BY <1>1, <3>1, Popping DEF Shape
  <2>4. RunNodes' = RunNodes
    BY <2>3 DEF RunNodes
  <2>5. Real' = Real \ {FlushSpan(e)}
    <3>1. Real = Facts(Opened, life, RunNodes) /\ Real' = Facts(Opened \ {e}, life, RunNodes)
      BY <1>1, <2>2, <2>4, RealIs
    <3>2. PICK E, L, R, S : E = Opened /\ L = life /\ R = RunNodes /\ S = Opened \ {e}
      OBVIOUS
    <3>3. Loses(E, e, S)
      BY <3>2 DEF Loses
    <3>4. Loses(Facts(E, L, R), FlushSpan(e), Facts(S, L, R))
      BY <3>3, FlushFact
    <3>5. QED
      BY <3>1, <3>2, <3>4 DEF Loses
  <2>6. /\ \/ \A s \in Subscribers : spans'[s] = spans[s] \ {FlushSpan(e)}
           \/ /\ witnesses = {}
              /\ \A s \in Subscribers : spans'[s] = spans[s] /\ FlushSpan(e) \notin spans[s]
        /\ Totalled \ {e} \subseteq Totalled'
    <3>1. Finished(e)
      BY <1>3, <2>1
    <3>2. CASE (subscribed = {} \/ slots = <<>>) /\ UNCHANGED <<slots, spans, orphans, reported>>
      <4>1. Totalled = {} /\ Totalled' = Totalled
        BY <3>2 DEF Shape, SlotsInv, Totalled
      <4>2. \A s \in Subscribers : FlushSpan(e) \notin spans[s]
        BY <4>1 DEF HeardInv
      <4>3. FlushSpan(e) \in Real
        BY <2>2, RealIs, FactsAre
      <4>4. witnesses = {}
        BY <4>2, <4>3 DEF HeardInv, TakenForReal, Shape, SpanTypes
      <4>5. QED
        BY <3>2, <4>1, <4>2, <4>4
    <3>3. CASE /\ slots # <<>>
               /\ DOMAIN slots' = 1 .. Len(slots) - 1
               /\ \A k \in 1 .. Len(slots) - 1 : slots'[k] = slots[k]
               /\ \A s \in Subscribers : spans'[s] = spans[s] \ {FlushSpan(e)}
      <4>1. Totalled' = Totalled \ {e}
        BY <1>1, <1>3, <2>1, <3>3, ClosedSlot
      <4>2. QED
        BY <3>3, <4>1
    <3>4. QED
      BY <3>1, <3>2, <3>3, FinishedIs DEF Shape
  <2>7. TakenForReal'
    BY <1>1, <2>5, <2>6, HearsEnd DEF Shape, HeardInv
  <2>8. \A s \in Subscribers : spans'[s] \subseteq spans[s] /\ FlushSpan(e) \notin spans'[s]
    BY <2>6
  <2>9. FlushesHeard'
    BY <2>6, <2>8, HeardParts DEF FlushesHeard
  <2>10. Unheard'
    <3>1. \A i \in Places({"run"})' : i \in Places({"run"}) /\ stack'[i] = stack[i]
      BY <2>3
    <3>2. \A s \in Subscribers : \A m : RunSpan(m) \in spans'[s] => RunSpan(m) \in spans[s]
      BY <2>8
    <3>3. QED
      BY <1>1, <3>1, <3>2, UnheardStays, HeardParts
  <2>11. QED
    BY <2>7, <2>9, <2>10 DEF HeardInv, FlushesHeard, Unheard
<1>4. QED
  BY <1>2, <1>3, FlushEndsAt DEF Shape, TimedKinds

LEMMA HeardStep ==
  ASSUME Types, Shape, HeardInv, SpanStep
  PROVE  HeardInv'
<1>1. CASE HookBegins \/ HookReturns
  <2>1. UNCHANGED <<witnesses, life, spans, slots>>
    BY <1>1 DEF HookBegins, HookReturns, Quietly, NoWork, totals
  <2>2. \/ stack' = Append(stack, HookCall) /\ HookCall \in StackFrames /\ HookCall.kind = "hook"
        \/ ~Idle /\ stack' = Front(stack) /\ Top.kind = "hook"
    BY <1>1, FramesAre DEF HookBegins, HookReturns, OnTop, HookCall, Frame
  <2>3. QED
    BY <2>1, <2>2, PlainHeard
<1>2. CASE UNCHANGED life /\ PushDrain
  <2>1. PICK e \in Nat : e = flush_epoch + 1 /\ flush_epoch' = e
    BY <1>2 DEF PushDrain, Shape, SpanTypes
  <2>2. Started(e) /\ stack' = Append(stack, Flush("drain", e)) /\ UNCHANGED <<subscribed, witnesses>>
    BY <1>2, <2>1 DEF PushDrain
  <2>3. /\ Flush("drain", e) \in StackFrames /\ Flush("drain", e).kind \in TimedKinds
        /\ Flush("drain", e).epoch = e
    BY FramesAre DEF Flush, Frame, FlushKinds, TimedKinds
  <2>4. QED
    BY <1>2, <2>1, <2>2, <2>3, OpenHeard
<1>3. CASE UNCHANGED life /\ PushExternal
  <2>1. CASE flush_depth = 0
    <3>1. PICK e \in Nat : e = flush_epoch + 1 /\ flush_epoch' = e
      BY <1>3, <2>1 DEF PushExternal, Shape, SpanTypes
    <3>2. Started(e) /\ stack' = Append(stack, Flush("external", e)) /\ UNCHANGED <<subscribed, witnesses>>
      BY <1>3, <2>1, <3>1 DEF PushExternal
    <3>3. /\ Flush("external", e) \in StackFrames /\ Flush("external", e).kind \in TimedKinds
          /\ Flush("external", e).epoch = e
      BY FramesAre DEF Flush, Frame, FlushKinds, TimedKinds
    <3>4. QED
      BY <1>3, <3>1, <3>2, <3>3, OpenHeard
  <2>2. CASE flush_depth # 0
    <3>1. stack' = Append(stack, Flush("joined", 0)) /\ UNCHANGED <<slots, spans, witnesses>>
      BY <1>3, <2>2 DEF PushExternal, totals
    <3>2. Flush("joined", 0) \in StackFrames /\ Flush("joined", 0).kind = "joined"
      BY FramesAre DEF Flush, Frame, FlushKinds
    <3>3. QED
      BY <1>3, <3>1, <3>2, PlainHeard
  <2>3. QED
    BY <2>1, <2>2
<1>4. QED
  BY <1>1, <1>2, <1>3, WorksHeard, NodeHeard, RunBeginsHeard, RunReturnsHeard, ListenHeard,
     CloseHeard DEF SpanStep

LEMMA InitHeard == Init => HeardInv
<1> SUFFICES ASSUME Init PROVE HeardInv
  OBVIOUS
<1>1. /\ subscribed \in SUBSET Subscribers /\ stack = <<>> /\ slots = <<>>
      /\ spans = [s \in Subscribers |-> {}] /\ witnesses = subscribed
      /\ life = [n \in Nodes |-> "unborn"]
  BY DEF Init, SpansInit
<1>2. Opened = {} /\ RunNodes = {} /\ Places({"run"}) = {}
  BY <1>1 DEF Opened, RunNodes, Timed, Places
<1>3. Real = Facts({}, life, {})
  BY <1>2, RealIs
<1>4. {m \in Nodes : life[m] = "live"} = {}
  BY <1>1
<1>5. Real = {}
  BY <1>3, <1>4 DEF Facts
<1>6. QED
  BY <1>1, <1>2, <1>5 DEF HeardInv, TakenForReal

LEMMA SpansInvariant == Spec => [](Shape /\ HeardInv)
<1>1. Types /\ (Shape /\ HeardInv) /\ [Next]_vars => (Shape /\ HeardInv)'
  BY NextIsSpanStep, ShapeStep, HeardStep
<1>2. Spec => []Types
  BY HooksInvariant, PTL
<1>3. QED
  BY <1>1, <1>2, InitShape, InitHeard, PTL DEF Spec

(* A subscriber takes for alive, running and flushing only what is, and     *)
(* everything that is if it has listened from the beginning: however many   *)
(* others come and go, wherever a panic unwinds, and although the guards    *)
(* that end a run or a flush were made for whoever listened then.           *)
THEOREM TakenForRealCorrect == Spec => []TakenForReal
<1>1. HeardInv => TakenForReal
  BY DEF HeardInv
<1>2. QED
  BY <1>1, SpansInvariant, PTL

-----------------------------------------------------------------------------
(* One subscriber.                                                         *)

LEMMA AloneStays ==
  ASSUME AloneInv, orphans' = {}, subscribed' \subseteq subscribed, subscribed \subseteq Subscribers,
         Totalled' \subseteq Totalled,
         \A s \in Subscribers : \A e \in Totalled' : FlushSpan(e) \in spans[s] => FlushSpan(e) \in spans'[s]
  PROVE  AloneInv'
<1>1. ASSUME NEW s \in subscribed', NEW e \in Totalled'
      PROVE  FlushSpan(e) \in spans'[s]
  BY <1>1 DEF AloneInv
<1>2. \A s \in subscribed' : \A e \in Totalled' : FlushSpan(e) \in spans'[s]
  BY <1>1
<1>3. QED
  BY <1>2 DEF AloneInv

LEMMA OpenAlone ==
  ASSUME Shape, AloneInv, NEW e \in Nat, Started(e), UNCHANGED <<subscribed, orphans>>
  PROVE  AloneInv'
<1>1. subscribed \subseteq Subscribers /\ orphans' = {} /\ orphans = {}
  BY DEF Shape, SpanTypes, AloneInv
<1>2. CASE subscribed = {}
  <2>1. subscribed' = {}
    BY <1>2
  <2>2. QED
    BY <1>1, <2>1 DEF AloneInv
<1>3. CASE subscribed # {}
  <2>1. /\ Totalled' = Totalled \cup {e}
        /\ \A s \in Subscribers : s \in subscribed => spans'[s] = spans[s] \cup {FlushSpan(e)}
    BY <1>3, StartedIs DEF Shape
  <2>2. ASSUME NEW s \in subscribed, NEW d \in Totalled' PROVE FlushSpan(d) \in spans'[s]
    <3>1. spans'[s] = spans[s] \cup {FlushSpan(e)}
      BY <1>1, <2>1
    <3>2. CASE d = e
      BY <3>1, <3>2
    <3>3. CASE d \in Totalled
      BY <3>1, <3>3 DEF AloneInv
    <3>4. QED
      BY <2>1, <3>2, <3>3
  <2>3. \A s \in subscribed' : \A d \in Totalled' : FlushSpan(d) \in spans'[s]
    BY <2>2
  <2>4. QED
    BY <1>1, <2>3 DEF AloneInv
<1>4. QED
  BY <1>2, <1>3

LEMMA CloseAlone ==
  ASSUME Shape, AloneInv, FlushEnds
  PROVE  AloneInv'
<1>1. /\ ~Idle /\ stack' = Front(stack) /\ UNCHANGED subscribed
      /\ subscribed \subseteq Subscribers /\ orphans = {}
  BY DEF FlushEnds, PopFlush, Shape, SpanTypes, AloneInv
<1>2. ASSUME UNCHANGED <<slots, spans, orphans, reported>> PROVE AloneInv'
  <2>1. Totalled' = Totalled
    BY <1>2 DEF Totalled
  <2>2. QED
    BY <1>1, <1>2, <2>1, AloneStays
<1>3. CASE Top.kind \in TimedKinds /\ Finished(Top.epoch)
  <2>1. PICK e \in Nat : e = Top.epoch
    <3>1. Top \in StackFrames
      BY <1>1, Popping DEF Shape
    <3>2. QED
      BY <3>1 DEF StackFrames
  <2>2. Finished(e)
    BY <1>3, <2>1
  <2>3. CASE /\ slots # <<>>
             /\ DOMAIN slots' = 1 .. Len(slots) - 1
             /\ \A k \in 1 .. Len(slots) - 1 : slots'[k] = slots[k]
             /\ \A s \in Subscribers : spans'[s] = spans[s] \ {FlushSpan(e)}
             /\ orphans' = orphans \cup {s \in subscribed : FlushSpan(e) \notin spans[s]}
    <3>1. Totalled' = Totalled \ {e}
      BY <1>1, <1>3, <2>1, <2>3, ClosedSlot
    <3>2. e \in Totalled
      <4>1. Len(slots) \in DOMAIN slots /\ slots[Len(slots)].epoch = e
        <5>1. Len(slots) \in Nat \ {0} /\ DOMAIN slots = 1 .. Len(slots) /\ slots[Len(slots)].epoch = e
          BY <1>1, <1>3, <2>1, <2>3, LastSlot
        <5>2. QED
          BY <5>1
      <4>2. QED
        BY <4>1 DEF Totalled
    <3>3. orphans' = {}
      BY <1>1, <2>3, <3>2 DEF AloneInv
    <3>4. \A s \in Subscribers : \A d \in Totalled' : FlushSpan(d) \in spans[s] => FlushSpan(d) \in spans'[s]
      <4>1. \A d : FlushSpan(d) = FlushSpan(e) => d = e
        BY DEF FlushSpan
      <4>2. QED
        BY <2>3, <3>1, <4>1
    <3>5. QED
      BY <1>1, <3>1, <3>3, <3>4, AloneStays
  <2>4. QED
    BY <1>2, <2>2, <2>3, FinishedIs DEF Shape
<1>4. QED
  BY <1>2, <1>3, FlushEndsAt DEF Shape, TimedKinds

LEMMA AloneStep ==
  ASSUME Alone, Shape, AloneInv, SpanStep
  PROVE  AloneInv'
<1>1. subscribed \subseteq Subscribers /\ orphans = {}
  BY DEF Shape, SpanTypes, AloneInv
<1>2. CASE Works
  <2>1. Worked /\ UNCHANGED <<subscribed, spans, orphans>>
    BY <1>2 DEF Works, heard
  <2>2. Totalled' = Totalled
    BY <2>1, WorkKeeps DEF Shape
  <2>3. QED
    BY <1>1, <2>1, <2>2, AloneStays
<1>3. ASSUME NEW n \in Nodes, NodeBegins(n) \/ NodeEnds(n) PROVE AloneInv'
  <2>1. Worked /\ UNCHANGED <<subscribed, orphans>>
    BY <1>3 DEF NodeBegins, NodeEnds, Quietly
  <2>2. Totalled' = Totalled
    BY <2>1, WorkKeeps DEF Shape
  <2>3. \A s \in Subscribers : \A e : FlushSpan(e) \in spans[s] => FlushSpan(e) \in spans'[s]
    <3>1. NodeSpan(n) \in Things /\ \A e : FlushSpan(e) # NodeSpan(n)
      BY ThingsAre
    <3>2. Begins(NodeSpan(n)) \/ Ends(NodeSpan(n))
      BY <1>3 DEF NodeBegins, NodeEnds
    <3>3. CASE Begins(NodeSpan(n))
      <4>1. /\ \A s \in Subscribers : s \in subscribed => spans'[s] = spans[s] \cup {NodeSpan(n)}
            /\ \A s \in Subscribers : s \notin subscribed => spans[s] = {}
        BY <3>1, <3>3, BeginsIs DEF Shape, SpanTypes
      <4>2. QED
        BY <4>1
    <3>4. CASE Ends(NodeSpan(n))
      <4>1. \A s \in Subscribers : spans'[s] = spans[s] \ {NodeSpan(n)}
        BY <3>4, EndsIs DEF Shape
      <4>2. QED
        BY <3>1, <4>1
    <3>5. QED
      BY <3>2, <3>3, <3>4
  <2>4. QED
    BY <1>1, <2>1, <2>2, <2>3, AloneStays
<1>4. ASSUME NEW n \in Observers, RunBegins(n) PROVE AloneInv'
  <2>1. Worked /\ UNCHANGED <<subscribed, orphans>> /\ Begins(RunSpan(n))
    BY <1>4 DEF RunBegins, Quietly
  <2>2. Totalled' = Totalled
    BY <2>1, WorkKeeps DEF Shape
  <2>3. RunSpan(n) \in Things
    BY ThingsAre DEF Nodes
  <2>4. /\ \A s \in Subscribers : s \in subscribed => spans'[s] = spans[s] \cup {RunSpan(n)}
        /\ \A s \in Subscribers : s \notin subscribed => spans[s] = {}
    BY <2>1, <2>3, BeginsIs DEF Shape, SpanTypes
  <2>5. \A s \in Subscribers : \A e : FlushSpan(e) \in spans[s] => FlushSpan(e) \in spans'[s]
    BY <2>4
  <2>6. QED
    BY <1>1, <2>1, <2>2, <2>5, AloneStays
<1>5. CASE RunReturns
  <2>1. Worked /\ UNCHANGED <<subscribed, orphans>> /\ EndSpan
    BY <1>5 DEF RunReturns, Quietly
  <2>2. Totalled' = Totalled
    BY <2>1, WorkKeeps DEF Shape
  <2>3. /\ Top.heard => \A s \in Subscribers : spans'[s] = spans[s] \ {RunSpan(Top.node)}
        /\ ~Top.heard => spans' = spans
    BY <2>1, EndSpanIs DEF Shape
  <2>4. \A e : FlushSpan(e) # RunSpan(Top.node)
    BY ThingsAre
  <2>5. \A s \in Subscribers : \A e : FlushSpan(e) \in spans[s] => FlushSpan(e) \in spans'[s]
    BY <2>3, <2>4
  <2>6. QED
    BY <1>1, <2>1, <2>2, <2>5, AloneStays
<1>6. CASE HookBegins \/ HookReturns
  <2>1. UNCHANGED <<subscribed, orphans, spans, slots>>
    BY <1>6 DEF HookBegins, HookReturns, Quietly, NoWork, totals
  <2>2. Totalled' = Totalled
    BY <2>1 DEF Totalled
  <2>3. QED
    BY <1>1, <2>1, <2>2, AloneStays
<1>7. ASSUME NEW s \in Subscribers, Subscribe(s) PROVE AloneInv'
  <2>1. s \notin subscribed /\ UNCHANGED <<slots, orphans>>
    BY <1>7 DEF Subscribe, totals, heard
  <2>2. subscribed = {}
    BY <1>1, <2>1 DEF Alone
  <2>3. slots' = <<>>
    BY <2>1, <2>2 DEF Shape, SlotsInv
  <2>4. Totalled' = {}
    BY <2>3 DEF Totalled
  <2>5. QED
    BY <1>1, <2>1, <2>4 DEF AloneInv
<1>8. ASSUME NEW s \in Subscribers, Unsubscribe(s) PROVE AloneInv'
  <2>1. s \in subscribed /\ subscribed' = subscribed \ {s} /\ UNCHANGED orphans
    BY <1>8 DEF Unsubscribe
  <2>2. subscribed' = {}
    BY <1>1, <2>1 DEF Alone
  <2>3. QED
    BY <1>1, <2>1, <2>2 DEF AloneInv
<1>9. CASE PushDrain
  <2>1. PICK e \in Nat : e = flush_epoch + 1 /\ flush_epoch' = e
    BY <1>9 DEF PushDrain, Shape, SpanTypes
  <2>2. Started(e) /\ UNCHANGED <<subscribed, orphans>>
    BY <1>9, <2>1 DEF PushDrain
  <2>3. QED
    BY <2>2, OpenAlone
<1>10. CASE PushExternal
  <2>1. CASE flush_depth = 0
    <3>1. PICK e \in Nat : e = flush_epoch + 1 /\ flush_epoch' = e
      BY <1>10, <2>1 DEF PushExternal, Shape, SpanTypes
    <3>2. Started(e) /\ UNCHANGED <<subscribed, orphans>>
      BY <1>10, <2>1, <3>1 DEF PushExternal
    <3>3. QED
      BY <3>2, OpenAlone
  <2>2. CASE flush_depth # 0
    <3>1. UNCHANGED <<subscribed, orphans, spans, slots>>
      BY <1>10, <2>2 DEF PushExternal, totals
    <3>2. Totalled' = Totalled
      BY <3>1 DEF Totalled
    <3>3. QED
      BY <1>1, <3>1, <3>2, AloneStays
  <2>3. QED
    BY <2>1, <2>2
<1>11. QED
  BY <1>2, <1>3, <1>4, <1>5, <1>6, <1>7, <1>8, <1>9, <1>10, CloseAlone DEF SpanStep

LEMMA InitAlone == Init => AloneInv
<1> SUFFICES ASSUME Init PROVE AloneInv
  OBVIOUS
<1>1. slots = <<>> /\ orphans = {}
  BY DEF Init, SpansInit
<1>2. Totalled = {}
  BY <1>1 DEF Totalled
<1>3. QED
  BY <1>1, <1>2 DEF AloneInv

(* HeardInPairs is an invariant for a subscriber, whatever becomes of       *)
(* others: it hears no flush end that it did not hear begin.  With a second *)
(* one, whoever subscribes while the first has slots open hears those end.  *)
THEOREM HeardInPairsCorrect ==
  ASSUME \A s, t \in Subscribers : s = t
  PROVE  Spec => []HeardInPairs
<1>1. Alone
  BY DEF Alone
<1>2. Shape /\ AloneInv /\ [Next]_vars => AloneInv'
  BY <1>1, NextIsSpanStep, AloneStep
<1>3. HeardInv /\ AloneInv => HeardInPairs
  BY DEF HeardInv, AloneInv, HeardInPairs
<1>4. QED
  BY <1>2, <1>3, InitAlone, SpansInvariant, PTL DEF Spec

-----------------------------------------------------------------------------
(* One unit of work.                                                       *)

LEMMA WorkMoves ==
  ASSUME Shape, Worked
  PROVE  /\ reported' = reported
         /\ DOMAIN slots' = DOMAIN slots
         /\ \A k \in DOMAIN slots : slots'[k].epoch = slots[k].epoch
         /\ \/ /\ UNCHANGED <<unit, outside>>
               /\ \A k \in DOMAIN slots : slots'[k].work = slots[k].work
            \/ /\ unit = NoUnit /\ subscribed = {}
               /\ unit' = UnitAt(0) /\ UNCHANGED <<slots, outside>>
            \/ /\ unit = NoUnit
               /\ unit' = UnitAt(flush_epoch + 1) /\ UNCHANGED slots /\ outside' = outside + 1
            \/ /\ unit = NoUnit /\ UNCHANGED outside
               /\ Len(slots) \in DOMAIN slots /\ unit' = UnitAt(slots[Len(slots)].epoch)
               /\ slots'[Len(slots)].work = slots[Len(slots)].work + 1
               /\ \A k \in DOMAIN slots : k # Len(slots) => slots'[k].work = slots[k].work
<1>1. /\ DOMAIN slots' = DOMAIN slots /\ reported' = reported
      /\ \A k \in DOMAIN slots : slots'[k].epoch = slots[k].epoch
  BY WorkKeeps DEF Shape, Worked
<1>2. CASE NoWork
  BY <1>1, <1>2 DEF NoWork, totals
<1>3. CASE Work
  <2>1. PICK w \in Amounts :
          /\ Record(w)
          /\ unit' = IF w = 0 THEN unit
                     ELSE UnitAt(IF subscribed = {} THEN 0
                                 ELSE IF slots # <<>> THEN stack[Max(Timed)].epoch
                                 ELSE flush_epoch + 1)
    BY <1>3 DEF Work
  <2>2. w \in {0, 1} /\ (w = 1 => unit = NoUnit) /\ outside \in Nat
    BY DEF Amounts, Shape, SpanTypes
  <2>3. CASE subscribed = {}
    <3>1. UNCHANGED <<slots, outside>>
      BY <2>1, <2>3 DEF Record, totals
    <3>2. unit' = IF w = 0 THEN unit ELSE UnitAt(0)
      BY <2>1, <2>3
    <3>3. QED
      BY <1>1, <2>2, <2>3, <3>1, <3>2
  <2>4. CASE subscribed # {} /\ slots = <<>>
    <3>1. UNCHANGED slots /\ outside' = outside + w
      BY <2>1, <2>4 DEF Record
    <3>2. unit' = IF w = 0 THEN unit ELSE UnitAt(flush_epoch + 1)
      BY <2>1, <2>4
    <3>3. QED
      BY <1>1, <2>2, <3>1, <3>2
  <2>5. CASE subscribed # {} /\ slots # <<>>
    <3>1. UNCHANGED outside /\ slots' = [slots EXCEPT ![Len(slots)].work = @ + w]
      BY <2>1, <2>5 DEF Record
    <3>2. Len(slots) \in DOMAIN slots /\ stack[Max(Timed)].epoch = slots[Len(slots)].epoch
      BY <2>5, InnermostFlush DEF Shape
    <3>3. unit' = IF w = 0 THEN unit ELSE UnitAt(slots[Len(slots)].epoch)
      BY <2>1, <2>5, <3>2
    <3>4. slots \in Seq(Slots)
      BY DEF Shape, SpanTypes
    <3>5. slots[Len(slots)] \in Slots
      BY <3>2, <3>4, ElementOfSeq
    <3>6. PICK x : x = [slots[Len(slots)] EXCEPT !.work = @ + w]
      OBVIOUS
    <3>7. x.work = slots[Len(slots)].work + w /\ slots[Len(slots)].work \in Nat
      BY <3>5, <3>6 DEF Slots
    <3>8. slots' = [slots EXCEPT ![Len(slots)] = x]
      BY <3>1, <3>6
    <3>9. \A k \in DOMAIN slots : slots'[k] = IF k = Len(slots) THEN x ELSE slots[k]
      BY <3>2, <3>8
    <3>10. slots'[Len(slots)].work = slots[Len(slots)].work + w
      BY <3>2, <3>7, <3>9
    <3>11. \A k \in DOMAIN slots : k # Len(slots) => slots'[k].work = slots[k].work
      BY <3>9
    <3>12. CASE w = 0
      <4>1. slots'[Len(slots)].work = slots[Len(slots)].work
        BY <3>7, <3>10, <3>12
      <4>2. \A k \in DOMAIN slots : slots'[k].work = slots[k].work
        BY <3>11, <4>1
      <4>3. QED
        BY <1>1, <3>1, <3>3, <3>12, <4>2
    <3>13. CASE w = 1
      <4>1. unit' = UnitAt(slots[Len(slots)].epoch) /\ unit = NoUnit
        BY <2>2, <3>3, <3>13
      <4>2. QED
        BY <1>1, <3>1, <3>2, <3>10, <3>11, <3>13, <4>1
    <3>14. QED
      BY <2>2, <3>12, <3>13
  <2>6. QED
    BY <2>3, <2>4, <2>5
<1>4. QED
  BY <1>2, <1>3 DEF Worked

(* Nothing has been done yet. *)
LEMMA NoUnitNowhere ==
  ASSUME Shape, CountInv, unit = NoUnit
  PROVE  IsNowhere
<1>1. unit.at = 0 /\ flush_epoch \in Nat
  BY DEF NoUnit, Shape, SpanTypes
<1>2. ~IsReported /\ ~IsInSlot
  BY <1>1 DEF IsReported, IsInSlot
<1>3. ~IsOutside
  BY <1>1 DEF IsOutside
<1>4. QED
  BY <1>2, <1>3 DEF CountInv

(* Where the unit is, it stays. *)
LEMMA CountStays ==
  ASSUME CountInv, UNCHANGED <<unit, outside, reported>>,
         IsOutside => flush_epoch' = flush_epoch,
         DOMAIN slots' = DOMAIN slots,
         \A k \in DOMAIN slots : slots'[k].epoch = slots[k].epoch /\ slots'[k].work = slots[k].work
  PROVE  CountInv'
<1>1. 0 \notin Totalled'
  BY DEF CountInv, Totalled
<1>2. CASE IsNowhere
  <2>1. IsNowhere'
    BY <1>2 DEF IsNowhere, Unreported, NoneButIn
  <2>2. QED
    BY <1>1, <2>1 DEF CountInv
<1>3. CASE IsReported
  <2>1. IsReported'
    BY <1>3 DEF IsReported, NoneButIn
  <2>2. QED
    BY <1>1, <2>1 DEF CountInv
<1>4. CASE IsOutside
  <2>1. IsOutside'
    BY <1>4 DEF IsOutside, NoneButIn
  <2>2. QED
    BY <1>1, <2>1 DEF CountInv
<1>5. CASE IsInSlot
  <2>1. PICK k \in DOMAIN slots : slots[k].work = 1 /\ slots[k].epoch = unit.at /\ NoneButIn({k})
    BY <1>5 DEF IsInSlot
  <2>2. slots'[k].work = 1 /\ slots'[k].epoch = unit'.at /\ k \in DOMAIN slots'
    BY <2>1
  <2>3. \A l \in DOMAIN slots' : l \notin {k} => slots'[l].work = 0
    BY <2>1 DEF NoneButIn
  <2>4. IsInSlot'
    BY <1>5, <2>2, <2>3 DEF IsInSlot, Unreported, NoneButIn
  <2>5. QED
    BY <1>1, <2>4 DEF CountInv
<1>6. QED
  BY <1>2, <1>3, <1>4, <1>5 DEF CountInv

LEMMA WorkCounts ==
  ASSUME Shape, CountInv, Worked, UNCHANGED flush_epoch
  PROVE  CountInv'
<1>1. /\ reported' = reported /\ DOMAIN slots' = DOMAIN slots
      /\ \A k \in DOMAIN slots : slots'[k].epoch = slots[k].epoch
  BY WorkMoves
<1>2. CASE /\ UNCHANGED <<unit, outside>>
           /\ \A k \in DOMAIN slots : slots'[k].work = slots[k].work
  BY <1>1, <1>2, CountStays
<1>3. 0 \notin Totalled'
  BY <1>1 DEF CountInv, Totalled
<1>4. CASE unit = NoUnit
  <2>1. IsNowhere
    BY <1>4, NoUnitNowhere
  <2>2. /\ reported = <<>> /\ outside = 0 /\ flush_epoch \in Nat
        /\ \A k \in DOMAIN slots : slots[k].work = 0
    BY <2>1 DEF IsNowhere, Unreported, NoneButIn, Shape, SpanTypes
  <2>3. \A e : UnitAt(e).at = e /\ UnitAt(e).done
    BY DEF UnitAt
  <2>4. CASE unit' = UnitAt(0) /\ UNCHANGED <<slots, outside>>
    <3>1. IsNowhere'
      BY <1>1, <2>2, <2>3, <2>4 DEF IsNowhere, Unreported, NoneButIn
    <3>2. QED
      BY <1>3, <2>3, <2>4, <3>1 DEF CountInv
  <2>5. CASE unit' = UnitAt(flush_epoch + 1) /\ UNCHANGED slots /\ outside' = outside + 1
    <3>1. unit'.at = flush_epoch' + 1 /\ outside' = 1 /\ unit'.done
      BY <2>2, <2>3, <2>5
    <3>2. IsOutside'
      BY <1>1, <2>2, <2>5, <3>1 DEF IsOutside, NoneButIn
    <3>3. QED
      BY <1>3, <3>1, <3>2 DEF CountInv
  <2>6. CASE /\ UNCHANGED outside
             /\ Len(slots) \in DOMAIN slots /\ unit' = UnitAt(slots[Len(slots)].epoch)
             /\ slots'[Len(slots)].work = slots[Len(slots)].work + 1
             /\ \A k \in DOMAIN slots : k # Len(slots) => slots'[k].work = slots[k].work
    <3>1. PICK l : l = Len(slots)
      OBVIOUS
    <3>2. l \in DOMAIN slots /\ unit'.at = slots[l].epoch /\ unit'.done /\ slots'[l].work = 0 + 1
      BY <2>2, <2>3, <2>6, <3>1
    <3>3. slots[l].epoch \in Nat /\ slots[l].epoch # 0
      <4>1. slots \in Seq(Slots)
        BY DEF Shape, SpanTypes
      <4>2. slots[l] \in Slots
        BY <3>2, <4>1, ElementOfSeq
      <4>3. slots[l].epoch \in Totalled
        BY <3>2 DEF Totalled
      <4>4. QED
        BY <4>2, <4>3 DEF Slots, CountInv
    <3>4. slots'[l].work = 1 /\ slots'[l].epoch = unit'.at /\ l \in DOMAIN slots' /\ unit'.at > 0
      BY <1>1, <3>2, <3>3
    <3>5. \A k \in DOMAIN slots' : k \notin {l} => slots'[k].work = 0
      BY <1>1, <2>2, <2>6, <3>1
    <3>6. IsInSlot'
      BY <1>1, <2>2, <2>6, <3>4, <3>5 DEF IsInSlot, Unreported, NoneButIn
    <3>7. QED
      BY <1>3, <3>2, <3>6 DEF CountInv
  <2>7. QED
    BY <1>2, <2>4, <2>5, <2>6, WorkMoves
<1>5. QED
  BY <1>2, <1>4, WorkMoves

(* What is outside moves into the new slot, which is that of the next flush. *)
LEMMA OpenCounts ==
  ASSUME Shape, CountInv, NEW e \in Nat, e = flush_epoch + 1, Started(e),
         UNCHANGED <<subscribed, unit, reported>>
  PROVE  CountInv'
<1>1. CASE subscribed = {}
  <2>1. UNCHANGED <<slots, outside>> /\ outside = 0
    BY <1>1, StartedIs DEF Shape, SlotsInv
  <2>2. ~IsOutside
    BY <2>1 DEF IsOutside
  <2>3. QED
    BY <2>1, <2>2, CountStays
<1>2. CASE subscribed # {}
  <2>1. PICK m \in Nat : m = Len(slots) + 1 /\ DOMAIN slots = 1 .. m - 1
    <3>1. Len(slots) \in Nat /\ DOMAIN slots = 1 .. Len(slots)
      BY <1>2, StartedIs DEF Shape
    <3>2. PICK p \in Nat : p = Len(slots)
      BY <3>1
    <3>3. p + 1 \in Nat /\ (p + 1) - 1 = p
      OBVIOUS
    <3>4. QED
      BY <3>1, <3>2, <3>3
  <2>2. /\ outside' = 0 /\ DOMAIN slots' = 1 .. m
        /\ \A k \in 1 .. m - 1 : slots'[k] = slots[k]
        /\ slots'[m].epoch = e /\ slots'[m].work = outside
        /\ Totalled' = Totalled \cup {e}
    <3>1. /\ outside' = 0 /\ DOMAIN slots = 1 .. Len(slots)
          /\ DOMAIN slots' = 1 .. Len(slots) + 1
          /\ \A k \in 1 .. Len(slots) : slots'[k] = slots[k]
          /\ slots'[Len(slots) + 1] = [epoch |-> e, work |-> outside]
          /\ Totalled' = Totalled \cup {e}
      BY <1>2, StartedIs DEF Shape
    <3>2. QED
      BY <2>1, <3>1
  <2>3. 0 \notin Totalled' /\ e > 0
    <3>1. e # 0 /\ e > 0
      BY DEF Shape, SpanTypes
    <3>2. QED
      BY <2>2, <3>1 DEF CountInv
  <2>4. m \in 1 .. m /\ 1 .. m = (1 .. m - 1) \cup {m} /\ m \notin 1 .. m - 1
    BY <2>1
  <2>5. CASE IsNowhere
    <3>1. \A k \in DOMAIN slots' : slots'[k].work = 0
      BY <2>1, <2>2, <2>4, <2>5 DEF IsNowhere, Unreported, NoneButIn
    <3>2. IsNowhere'
      BY <2>2, <2>5, <3>1 DEF IsNowhere, Unreported, NoneButIn
    <3>3. QED
      BY <2>3, <3>2 DEF CountInv
  <2>6. CASE IsReported
    <3>1. \A k \in DOMAIN slots' : slots'[k].work = 0
      BY <2>1, <2>2, <2>4, <2>6 DEF IsReported, NoneButIn
    <3>2. IsReported'
      BY <2>2, <2>6, <3>1 DEF IsReported, NoneButIn
    <3>3. QED
      BY <2>3, <3>2 DEF CountInv
  <2>7. CASE IsOutside
    <3>1. slots'[m].work = 1 /\ slots'[m].epoch = unit'.at /\ unit'.at > 0 /\ m \in DOMAIN slots'
      BY <2>2, <2>3, <2>4, <2>7 DEF IsOutside
    <3>2. \A k \in DOMAIN slots' : k \notin {m} => slots'[k].work = 0
      BY <2>1, <2>2, <2>4, <2>7 DEF IsOutside, NoneButIn
    <3>3. IsInSlot'
      BY <2>2, <2>7, <3>1, <3>2 DEF IsOutside, IsInSlot, Unreported, NoneButIn
    <3>4. QED
      BY <2>3, <3>3 DEF CountInv
  <2>8. CASE IsInSlot
    <3>1. PICK k \in DOMAIN slots : slots[k].work = 1 /\ slots[k].epoch = unit.at /\ NoneButIn({k})
      BY <2>8 DEF IsInSlot
    <3>2. slots'[k].work = 1 /\ slots'[k].epoch = unit'.at /\ k \in DOMAIN slots'
      BY <2>1, <2>2, <2>4, <3>1
    <3>3. \A l \in DOMAIN slots' : l \notin {k} => slots'[l].work = 0
      <4>1. slots'[m].work = 0
        BY <2>2, <2>8 DEF IsInSlot, Unreported
      <4>2. QED
        BY <2>1, <2>2, <2>4, <3>1, <4>1 DEF NoneButIn
    <3>4. IsInSlot'
      BY <2>2, <2>8, <3>2, <3>3 DEF IsInSlot, Unreported, NoneButIn
    <3>5. QED
      BY <2>3, <3>4 DEF CountInv
  <2>9. QED
    BY <2>5, <2>6, <2>7, <2>8 DEF CountInv
<1>3. QED
  BY <1>1, <1>2

(* What the slot of a flush holds is reported with the flush's epoch. *)
LEMMA CloseCounts ==
  ASSUME Shape, CountInv, FlushEnds
  PROVE  CountInv'
<1>1. /\ ~Idle /\ stack' = Front(stack) /\ UNCHANGED <<epochs, outside, unit>>
      /\ flush_epoch' = flush_epoch
  BY DEF FlushEnds, PopFlush, epochs
<1>2. ASSUME UNCHANGED <<slots, reported>> PROVE CountInv'
  BY <1>1, <1>2, CountStays
<1>3. CASE Top.kind \in TimedKinds /\ Finished(Top.epoch)
  <2>1. PICK e \in Nat : e = Top.epoch
    <3>1. Top \in StackFrames
      BY <1>1, Popping DEF Shape
    <3>2. QED
      BY <3>1 DEF StackFrames
  <2>2. Finished(e)
    BY <1>3, <2>1
  <2>3. CASE /\ slots # <<>> /\ Len(slots) \in Nat \ {0} /\ DOMAIN slots = 1 .. Len(slots)
             /\ DOMAIN slots' = 1 .. Len(slots) - 1
             /\ \A k \in 1 .. Len(slots) - 1 : slots'[k] = slots[k]
             /\ Last(slots) = slots[Len(slots)] /\ Last(slots) \in Slots
             /\ reported' = reported \o [i \in 1 .. Last(slots).work |-> e]
    <3>1. PICK m \in Nat \ {0} : m = Len(slots)
      BY <2>3
    <3>2. /\ m \in 1 .. m /\ 1 .. m = (1 .. m - 1) \cup {m} /\ m \notin 1 .. m - 1
      BY <3>1
    <3>3. /\ DOMAIN slots = 1 .. m /\ DOMAIN slots' = 1 .. m - 1
          /\ \A k \in 1 .. m - 1 : slots'[k] = slots[k]
          /\ reported' = reported \o [i \in 1 .. slots[m].work |-> e]
      BY <2>3, <3>1
    <3>4. slots[m].epoch = e
      BY <1>1, <1>3, <2>1, <2>3, <3>1, LastSlot
    <3>5. 0 \notin Totalled'
      <4>1. Totalled' = Totalled \ {Top.epoch}
        BY <1>1, <1>3, <2>3, ClosedSlot
      <4>2. QED
        BY <4>1 DEF CountInv
    <3>6. ASSUME slots[m].work = 0 PROVE reported' = reported
      <4> DEFINE r == [i \in 1 .. 0 |-> e]
      <4>1. r = <<>> /\ reported' = reported \o r
        BY <3>3, <3>6
      <4> HIDE DEF r
      <4>2. reported \in Seq(Nat)
        BY DEF Shape, SpanTypes
      <4>3. QED
        BY <4>1, <4>2, ConcatEmptySeq
    <3>7. CASE IsNowhere
      <4>1. reported' = <<>> /\ \A k \in DOMAIN slots' : slots'[k].work = 0
        BY <3>2, <3>3, <3>6, <3>7 DEF IsNowhere, Unreported, NoneButIn
      <4>2. IsNowhere'
        BY <1>1, <3>7, <4>1 DEF IsNowhere, Unreported, NoneButIn
      <4>3. QED
        BY <1>1, <3>5, <4>2 DEF CountInv
    <3>8. CASE IsReported
      <4>1. reported' = reported /\ \A k \in DOMAIN slots' : slots'[k].work = 0
        BY <3>2, <3>3, <3>6, <3>8 DEF IsReported, NoneButIn
      <4>2. IsReported'
        BY <1>1, <3>8, <4>1 DEF IsReported, NoneButIn
      <4>3. QED
        BY <1>1, <3>5, <4>2 DEF CountInv
    <3>9. CASE IsOutside
      <4>1. reported' = <<>> /\ \A k \in DOMAIN slots' : slots'[k].work = 0
        BY <3>2, <3>3, <3>6, <3>9 DEF IsOutside, NoneButIn
      <4>2. IsOutside'
        BY <1>1, <3>9, <4>1 DEF IsOutside, NoneButIn
      <4>3. QED
        BY <1>1, <3>5, <4>2 DEF CountInv
    <3>10. CASE IsInSlot
      <4>1. PICK k \in DOMAIN slots : slots[k].work = 1 /\ slots[k].epoch = unit.at /\ NoneButIn({k})
        BY <3>10 DEF IsInSlot
      <4>2. CASE k = m
        <5>1. slots[m].work = 1 /\ unit.at = e /\ unit.at > 0 /\ reported = <<>> /\ outside = 0
          BY <3>4, <3>10, <4>1, <4>2 DEF IsInSlot, Unreported
        <5>2. Len(reported') = 1 /\ reported'[1] = e
          <6> DEFINE r == [i \in 1 .. 1 |-> e]
          <6>1. reported' = <<>> \o r
            BY <3>3, <5>1
          <6>2. r \in [1 .. 1 -> Nat] /\ r[1] = e
            OBVIOUS
          <6> HIDE DEF r
          <6>3. r \in Seq(Nat) /\ Len(r) = 1
            <7>1. 1 \in Nat /\ r \in [1 .. 1 -> Nat]
              BY <6>2
            <7>2. r \in Seq(Nat)
              BY <7>1, FunctionIsSeq
            <7>3. DOMAIN r = 1 .. 1 /\ Len(r) \in Nat
              BY <7>1, <7>2
            <7>4. QED
              BY <7>2, <7>3
          <6>4. reported' = r
            BY <6>1, <6>3, ConcatEmptySeq
          <6>5. QED
            BY <6>2, <6>3, <6>4
        <5>3. \A l \in DOMAIN slots' : slots'[l].work = 0
          BY <3>2, <3>3, <4>1, <4>2 DEF NoneButIn
        <5>4. IsReported'
          BY <1>1, <5>1, <5>2, <5>3 DEF IsReported, NoneButIn
        <5>5. QED
          BY <1>1, <3>5, <5>4 DEF CountInv
      <4>3. CASE k # m
        <5>1. slots[m].work = 0 /\ k \in 1 .. m - 1
          BY <3>2, <3>3, <4>1, <4>3 DEF NoneButIn
        <5>2. slots'[k].work = 1 /\ slots'[k].epoch = unit'.at /\ k \in DOMAIN slots'
          BY <1>1, <3>3, <4>1, <5>1
        <5>3. \A l \in DOMAIN slots' : l \notin {k} => slots'[l].work = 0
          BY <3>2, <3>3, <4>1 DEF NoneButIn
        <5>4. IsInSlot'
          BY <1>1, <3>6, <3>10, <5>1, <5>2, <5>3 DEF IsInSlot, Unreported, NoneButIn
        <5>5. QED
          BY <1>1, <3>5, <5>4 DEF CountInv
      <4>4. QED
        BY <4>2, <4>3
    <3>11. QED
      BY <3>7, <3>8, <3>9, <3>10 DEF CountInv
  <2>4. QED
    BY <1>2, <2>2, <2>3, FinishedIs DEF Shape
<1>4. QED
  BY <1>2, <1>3, FlushEndsAt DEF Shape, TimedKinds

(* With the last subscriber goes what is not reported. *)
LEMMA UnsubscribeCounts ==
  ASSUME Shape, CountInv, NEW s \in Subscribers, Unsubscribe(s)
  PROVE  CountInv'
<1>1. reported' = reported /\ flush_epoch' = flush_epoch /\ (NoWork \/ Reset)
  BY DEF Unsubscribe, epochs
<1>2. CASE NoWork
  BY <1>1, <1>2, CountStays DEF NoWork, totals
<1>3. CASE Reset
  <2>1. /\ slots' = <<>> /\ outside' = 0
        /\ unit' = IF unit # NoUnit /\ reported = <<>> THEN UnitAt(0) ELSE unit
    BY <1>3 DEF Reset
  <2>2. DOMAIN slots' = {} /\ Totalled' = {}
    BY <2>1 DEF Totalled
  <2>3. CASE reported = <<>>
    <3>1. unit'.at = 0
      BY <2>1, <2>3 DEF NoUnit, UnitAt
    <3>2. IsNowhere'
      BY <1>1, <2>1, <2>2, <2>3, <3>1 DEF IsNowhere, Unreported, NoneButIn
    <3>3. QED
      BY <2>2, <3>1, <3>2 DEF CountInv
  <2>4. CASE reported # <<>>
    <3>1. IsReported /\ unit' = unit
      BY <2>1, <2>4 DEF CountInv, IsNowhere, IsOutside, IsInSlot, Unreported
    <3>2. IsReported'
      BY <1>1, <2>1, <2>2, <3>1 DEF IsReported, NoneButIn
    <3>3. QED
      BY <2>2, <3>1, <3>2 DEF CountInv
  <2>5. QED
    BY <2>3, <2>4
<1>4. QED
  BY <1>1, <1>2, <1>3

LEMMA CountStep ==
  ASSUME Shape, CountInv, SpanStep
  PROVE  CountInv'
<1>1. ASSUME UNCHANGED <<flush_epoch, unit, slots, outside, reported>> PROVE CountInv'
  BY <1>1, CountStays
<1>2. CASE Works
  BY <1>2, WorkCounts DEF Works, epochs
<1>3. ASSUME NEW n \in Nodes, NodeBegins(n) \/ NodeEnds(n) PROVE CountInv'
  BY <1>3, WorkCounts DEF NodeBegins, NodeEnds, Quietly, epochs
<1>4. ASSUME NEW n \in Observers, RunBegins(n) PROVE CountInv'
  BY <1>4, WorkCounts DEF RunBegins, Quietly, epochs
<1>5. CASE RunReturns
  BY <1>5, WorkCounts DEF RunReturns, Quietly, epochs
<1>6. CASE HookBegins \/ HookReturns
  BY <1>1, <1>6 DEF HookBegins, HookReturns, Quietly, NoWork, totals, epochs
<1>7. ASSUME NEW s \in Subscribers, Subscribe(s) PROVE CountInv'
  BY <1>1, <1>7 DEF Subscribe, totals, epochs, history
<1>8. CASE PushDrain
  <2>1. PICK e \in Nat : e = flush_epoch + 1 /\ flush_epoch' = e
    BY <1>8 DEF PushDrain, Shape, SpanTypes
  <2>2. Started(e) /\ UNCHANGED <<subscribed, unit, reported>>
    BY <1>8, <2>1 DEF PushDrain, history
  <2>3. QED
    BY <2>1, <2>2, OpenCounts
<1>9. CASE PushExternal
  <2>1. CASE flush_depth = 0
    <3>1. PICK e \in Nat : e = flush_epoch + 1 /\ flush_epoch' = e
      BY <1>9, <2>1 DEF PushExternal, Shape, SpanTypes
    <3>2. Started(e) /\ UNCHANGED <<subscribed, unit, reported>>
      BY <1>9, <2>1, <3>1 DEF PushExternal, history
    <3>3. QED
      BY <3>1, <3>2, OpenCounts
  <2>2. CASE flush_depth # 0
    BY <1>1, <1>9, <2>2 DEF PushExternal, totals, epochs, history
  <2>3. QED
    BY <2>1, <2>2
<1>10. QED
  BY <1>2, <1>3, <1>4, <1>5, <1>6, <1>7, <1>8, <1>9, UnsubscribeCounts, CloseCounts DEF SpanStep

LEMMA InitCount == Init => CountInv
<1> SUFFICES ASSUME Init PROVE CountInv
  OBVIOUS
<1>1. slots = <<>> /\ outside = 0 /\ unit = NoUnit /\ reported = <<>>
  BY DEF Init, SpansInit
<1>2. Totalled = {} /\ DOMAIN slots = {}
  BY <1>1 DEF Totalled
<1>3. IsNowhere
  BY <1>1, <1>2 DEF IsNowhere, Unreported, NoneButIn, NoUnit
<1>4. QED
  BY <1>1, <1>2, <1>3 DEF CountInv, NoUnit

LEMMA CountsOnce ==
  ASSUME Shape, CountInv
  PROVE  CountedOnce
<1>1. PICK n \in Nat : n = Len(slots) /\ DOMAIN slots = 1 .. n
  <2>1. slots \in Seq(Slots)
    BY DEF Shape, SpanTypes
  <2>2. QED
    BY <2>1
<1>2. PICK r \in Nat : r = Len(reported) /\ DOMAIN reported = 1 .. r /\ (r = 0 <=> reported = <<>>)
  <2>1. reported \in Seq(Nat)
    BY DEF Shape, SpanTypes
  <2>2. QED
    BY <2>1
<1>3. Shares = [k \in 0 .. n + 1 |-> CASE k = 0 -> r [] k \in 1 .. n -> slots[k].work [] OTHER -> outside]
  BY <1>1, <1>2 DEF Shares
<1>4. /\ DOMAIN Shares = 0 .. n + 1 /\ 0 \in 0 .. n + 1 /\ n + 1 \in 0 .. n + 1
      /\ \A k \in 1 .. n : k \in 0 .. n + 1 /\ k # 0 /\ k # n + 1
      /\ \A k \in 0 .. n + 1 : k = 0 \/ k = n + 1 \/ k \in 1 .. n
  BY <1>1, <1>3
<1>5. Shares[0] = r /\ Shares[n + 1] = outside /\ \A k \in 1 .. n : Shares[k] = slots[k].work
  <2>1. 0 \notin 1 .. n /\ n + 1 \notin 1 .. n /\ n + 1 # 0
    BY <1>1
  <2>2. QED
    BY <1>3, <1>4, <2>1
<1>6. ASSUME NEW k \in DOMAIN Shares, Shares[k] = 1, \A l \in DOMAIN Shares : l # k => Shares[l] = 0
      PROVE  \E j \in DOMAIN Shares : Shares = [l \in DOMAIN Shares |-> IF l = j THEN 1 ELSE 0]
  <2>1. Shares = [l \in 0 .. n + 1 |-> Shares[l]]
    BY <1>3
  <2>2. PICK S : S = Shares
    OBVIOUS
  <2>3. S = [l \in DOMAIN S |-> S[l]] /\ \A l \in DOMAIN S : S[l] = IF l = k THEN 1 ELSE 0
    BY <1>4, <1>6, <2>1, <2>2
  <2>4. S = [l \in DOMAIN S |-> IF l = k THEN 1 ELSE 0]
    BY <2>3
  <2>5. QED
    BY <1>6, <2>2, <2>4
<1>7. CASE IsNowhere
  <2>1. unit.at = 0 /\ r = 0 /\ outside = 0 /\ \A k \in 1 .. n : slots[k].work = 0
    BY <1>1, <1>2, <1>7 DEF IsNowhere, Unreported, NoneButIn
  <2>2. \A k \in DOMAIN Shares : Shares[k] = 0
    BY <1>4, <1>5, <2>1
  <2>3. DOMAIN reported = {}
    BY <1>2, <2>1
  <2>4. QED
    BY <2>1, <2>2, <2>3 DEF CountedOnce
<1>8. CASE IsReported
  <2>1. /\ unit.at # 0 /\ r = 1 /\ outside = 0 /\ reported[1] = unit.at
        /\ \A k \in 1 .. n : slots[k].work = 0
    BY <1>1, <1>2, <1>8 DEF IsReported, NoneButIn
  <2>2. Shares[0] = 1 /\ \A l \in DOMAIN Shares : l # 0 => Shares[l] = 0
    BY <1>4, <1>5, <2>1
  <2>3. \A i \in DOMAIN reported : reported[i] = unit.at
    BY <1>2, <2>1
  <2>4. QED
    BY <1>4, <1>6, <2>1, <2>2, <2>3 DEF CountedOnce
<1>9. CASE IsOutside
  <2>1. unit.at # 0 /\ r = 0 /\ outside = 1 /\ \A k \in 1 .. n : slots[k].work = 0
    BY <1>1, <1>2, <1>9 DEF IsOutside, NoneButIn, Shape, SpanTypes
  <2>2. Shares[n + 1] = 1 /\ \A l \in DOMAIN Shares : l # n + 1 => Shares[l] = 0
    BY <1>4, <1>5, <2>1
  <2>3. DOMAIN reported = {}
    BY <1>2, <2>1
  <2>4. QED
    BY <1>4, <1>6, <2>1, <2>2, <2>3 DEF CountedOnce
<1>10. CASE IsInSlot
  <2>1. /\ unit.at # 0 /\ r = 0 /\ outside = 0
        /\ \E k \in 1 .. n : slots[k].work = 1 /\ \A l \in 1 .. n : l # k => slots[l].work = 0
    BY <1>1, <1>2, <1>10 DEF IsInSlot, Unreported, NoneButIn
  <2>2. PICK k \in 1 .. n : slots[k].work = 1 /\ \A l \in 1 .. n : l # k => slots[l].work = 0
    BY <2>1
  <2>3. Shares[k] = 1 /\ \A l \in DOMAIN Shares : l # k => Shares[l] = 0
    BY <1>4, <1>5, <2>1, <2>2
  <2>4. DOMAIN reported = {}
    BY <1>2, <2>1
  <2>5. QED
    BY <1>4, <1>6, <2>1, <2>2, <2>3, <2>4 DEF CountedOnce
<1>11. QED
  BY <1>7, <1>8, <1>9, <1>10 DEF CountInv

(* CountedOnce is an invariant: a unit of work that somebody subscribed to  *)
(* saw is in one place, and what reports it is the flush it belongs to,     *)
(* however flushes nest, join and unwind and subscriptions come and go.     *)
THEOREM CountedOnceCorrect == Spec => []CountedOnce
<1>1. Shape /\ CountInv /\ [Next]_vars => CountInv'
  BY NextIsSpanStep, CountStep
<1>2. Shape /\ CountInv => CountedOnce
  BY CountsOnce
<1>3. QED
  BY <1>1, <1>2, InitCount, SpansInvariant, PTL DEF Spec
=============================================================================
