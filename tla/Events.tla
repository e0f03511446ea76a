------------------------------- MODULE Events -------------------------------
(***************************************************************************)
(* One adaptite Event: emit calls the immediate subscribers one after the  *)
(* other and then triggers the node; a subscription made with `on' is an   *)
(* immediate subscriber that queues the values and an effect that drains   *)
(* them through the handler.                                               *)
(*                                                                         *)
(* Subscribers and handlers emit, subscribe, unsubscribe and flush in the  *)
(* middle of an emission or a drain, and may panic, so the call stack is a *)
(* variable.  When an effect is queued and deferred is modelled as far as  *)
(* it matters here: `due' are the drains in the queue, `observing' those   *)
(* with an edge to the event.                                              *)
(***************************************************************************)
EXTENDS Naturals, Sequences, FiniteSets, FiniteSetsExt, SequencesExt

CONSTANTS
  Plain,       \* immediate subscribers
  Listeners,   \* subscriptions made with on
  MayPanic,    \* whether closures panic
  MaxValues,   \* bound: values emitted, each of them new
  MaxStack     \* bound: closures emit and flush only below this depth

Subscribers == Plain \cup Listeners
Values == 1 .. MaxValues

ASSUME EventsAssumption ==
  /\ Plain \cap Listeners = {} /\ MayPanic \in BOOLEAN
  /\ MaxValues \in Nat /\ MaxStack \in Nat

VARIABLES
  subscription,  \* none, active or cancelled
  subscribers,   \* EventInner::subscribers, in registration order
  queue,         \* the queue a listener's direct subscriber feeds
  due,           \* listeners whose drain is queued
  rerun,         \* listeners whose running drain is owed another one
  observing,     \* listeners whose drain observes the event
  stack,         \* the call stack, outermost frame first
  panicking,
  emitted,       \* history: how many values were emitted
  handed,        \* history: handed[x]: the values x was called with, in order
  since,         \* history: since[x]: the values emitted before x subscribed
  ahead,         \* history: the immediate subscribers that were there before x
  lost,          \* history: lost[x]: the values a panic kept from x
  cut            \* history: a panic has cut an emission or a drain short

registry == <<subscription, subscribers>>
drains   == <<queue, due, rerun, observing>>
control  == <<stack, panicking>>
history  == <<emitted, handed, since, ahead, lost, cut>>
vars     == <<registry, drains, control, history>>

-----------------------------------------------------------------------------
(* Frames: an emission with the subscribers it has not called yet, the      *)
(* closure of an immediate subscriber, a drain with the values it has not   *)
(* handed on yet, and the handler of a listener.                            *)
Frame(k, w, v, rest) == [kind |-> k, who |-> w, value |-> v, rest |-> rest]
Emission(v)  == Frame("emit", "none", v, subscribers)
Call(x, v)   == Frame("call", x, v, <<>>)
Drain(l)     == Frame("drain", l, 0, queue[l])
Handle(l, v) == Frame("handle", l, v, <<>>)

Idle     == stack = <<>>
Top      == IF Idle THEN Frame("host", "none", 0, <<>>) ELSE Last(stack)
Pop      == Front(stack)
Retop(f) == [stack EXCEPT ![Len(stack)] = f]
On(k)    == Top.kind = k
Rest     == [Top EXCEPT !.rest = Tail(@)]

UserCode == ~panicking /\ (Idle \/ Top.kind \in {"call", "handle"})
MayOpen  == UserCode /\ Len(stack) < MaxStack
Draining(l) == \E i \in DOMAIN stack : stack[i].kind = "drain" /\ stack[i].who = l
Active(x)   == subscription[x] = "active"

-----------------------------------------------------------------------------
(* Event::subscribe and Reactor::on, which also queues the first drain.     *)
Subscribe(x) ==
  /\ UserCode /\ subscription[x] = "none"
  /\ subscription' = [subscription EXCEPT ![x] = "active"]
  /\ subscribers' = Append(subscribers, x)
  /\ due' = due \cup ({x} \cap Listeners)
  /\ since' = [since EXCEPT ![x] = emitted]
  /\ ahead' = [ahead EXCEPT ![x] = ToSet(subscribers) \cap Plain]
  /\ UNCHANGED <<queue, rerun, observing, control, emitted, handed, lost, cut>>

(* Subscription::unsubscribe: the direct subscriber and the effect go.      *)
Unsubscribe(x) ==
  /\ UserCode /\ Active(x)
  /\ subscription' = [subscription EXCEPT ![x] = "cancelled"]
  /\ \E i \in DOMAIN subscribers :
       subscribers[i] = x /\ subscribers' = RemoveAt(subscribers, i)
  /\ due' = due \ {x} /\ observing' = observing \ {x}
  /\ UNCHANGED <<queue, rerun, control, history>>

(* Event::emit: the subscribers are those of its beginning ... *)
Emit ==
  /\ MayOpen /\ emitted < MaxValues
  /\ emitted' = emitted + 1
  /\ stack' = Append(stack, Emission(emitted'))
  /\ UNCHANGED <<registry, drains, panicking, handed, since, ahead, lost, cut>>

(* ... each is called ...                                                   *)
CallPlain ==
  /\ ~panicking /\ On("emit") /\ Top.rest # <<>> /\ Head(Top.rest) \in Plain
  /\ stack' = Append(Retop(Rest), Call(Head(Top.rest), Top.value))
  /\ handed' = [handed EXCEPT ![Head(Top.rest)] = Append(@, Top.value)]
  /\ UNCHANGED <<registry, drains, panicking, emitted, since, ahead, lost, cut>>

Enqueue ==
  /\ ~panicking /\ On("emit") /\ Top.rest # <<>> /\ Head(Top.rest) \in Listeners
  /\ queue' = [queue EXCEPT ![Head(Top.rest)] = Append(@, Top.value)]
  /\ stack' = Retop(Rest)
  /\ UNCHANGED <<registry, due, rerun, observing, panicking, history>>

(* ... and then the drains that observe the event are queued.               *)
Trigger ==
  /\ ~panicking /\ On("emit") /\ Top.rest = <<>>
  /\ due' = due \cup observing
  /\ stack' = Pop
  /\ UNCHANGED <<registry, queue, rerun, observing, panicking, history>>

-----------------------------------------------------------------------------
(* Event::observe, in a drain of l. *)
Observe(l) == observing' = observing \cup {l}

(* A flush gets to the drain of l: it observes the event and takes the      *)
(* queue, or is deferred because it is running.                             *)
(* Mutant: the values are copied out of the queue and stay in it. *)
RunDrainKeepsQueue(l) ==
  /\ MayOpen /\ l \in due
  /\ due' = due \ {l}
  /\ Observe(l)
  /\ stack' = Append(stack, Drain(l))
  /\ UNCHANGED <<registry, queue, rerun, panicking, history>>

(* Mutant: it is entered again. *)
RunDrainReenters(l) ==
  /\ MayOpen /\ l \in due
  /\ due' = due \ {l}
  /\ Observe(l)
  /\ queue' = [queue EXCEPT ![l] = <<>>]
  /\ stack' = Append(stack, Drain(l))
  /\ UNCHANGED <<registry, rerun, panicking, history>>

RunDrain(l) ==
  /\ MayOpen /\ l \in due
  /\ due' = due \ {l}
  /\ \/ /\ Draining(l)
        /\ rerun' = rerun \cup {l}
        /\ UNCHANGED <<queue, observing, stack>>
     \/ /\ ~Draining(l)
        /\ Observe(l)
        /\ queue' = [queue EXCEPT ![l] = <<>>]
        /\ stack' = Append(stack, Drain(l))
        /\ UNCHANGED rerun
  /\ UNCHANGED <<registry, panicking, history>>

CallHandler ==
  /\ ~panicking /\ On("drain") /\ Top.rest # <<>>
  /\ stack' = Append(Retop(Rest), Handle(Top.who, Head(Top.rest)))
  /\ handed' = [handed EXCEPT ![Top.who] = Append(@, Head(Top.rest))]
  /\ UNCHANGED <<registry, drains, panicking, emitted, since, ahead, lost, cut>>

(* Mutant: a drain that was deferred is forgotten. *)
EndDrainForgets ==
  /\ ~panicking /\ On("drain") /\ Top.rest = <<>>
  /\ stack' = Pop
  /\ rerun' = rerun \ {Top.who}
  /\ UNCHANGED <<registry, queue, due, observing, panicking, history>>

EndDrain ==
  /\ ~panicking /\ On("drain") /\ Top.rest = <<>>
  /\ stack' = Pop
  /\ due' = due \cup {l \in rerun \cap {Top.who} : Active(l)}
  /\ rerun' = rerun \ {Top.who}
  /\ UNCHANGED <<registry, queue, observing, panicking, history>>

Return ==
  /\ ~panicking /\ Top.kind \in {"call", "handle"}
  /\ stack' = Pop
  /\ UNCHANGED <<registry, drains, panicking, history>>

Panic ==
  /\ ~panicking /\ Top.kind \in {"call", "handle"} /\ MayPanic
  /\ panicking' = TRUE
  /\ UNCHANGED <<registry, drains, stack, history>>

(* A panic takes down what an emission or a drain still had to do.          *)
Unwind ==
  /\ panicking
  /\ stack' = Pop
  /\ panicking' = (Len(stack) > 1)
  /\ lost' = [x \in Subscribers |->
       lost[x] \cup
         CASE On("emit") -> IF Contains(Top.rest, x) THEN {Top.value} ELSE {}
           [] On("drain") -> IF Top.who = x THEN ToSet(Top.rest) ELSE {}
           [] OTHER -> {}]
  /\ cut' = (cut \/ On("emit") \/ On("drain"))
  /\ UNCHANGED <<registry, drains, emitted, handed, since, ahead>>

-----------------------------------------------------------------------------
Init ==
  /\ subscription = [x \in Subscribers |-> "none"] /\ subscribers = <<>>
  /\ queue = [l \in Listeners |-> <<>>]
  /\ due = {} /\ rerun = {} /\ observing = {}
  /\ stack = <<>> /\ panicking = FALSE
  /\ emitted = 0 /\ handed = [x \in Subscribers |-> <<>>]
  /\ since = [x \in Subscribers |-> 0] /\ lost = [x \in Subscribers |-> {}]
  /\ ahead = [x \in Subscribers |-> {}] /\ cut = FALSE

Next ==
  \/ \E x \in Subscribers : Subscribe(x) \/ Unsubscribe(x)
  \/ \E l \in Listeners : RunDrain(l)
  \/ Emit \/ CallPlain \/ Enqueue \/ Trigger
  \/ CallHandler \/ EndDrain
  \/ Return \/ Panic \/ Unwind

Spec == Init /\ [][Next]_vars

-----------------------------------------------------------------------------
(* Correctness.                                                            *)

(* Every value reaches everyone who was subscribed when it was emitted, and *)
(* reaches him once: it was handed over, waits in the queue, is still on    *)
(* its way in an emission or a drain, or a panic took that down.  Nothing   *)
(* is lost or doubled by emissions and flushes inside one another.          *)
Waiting(k, x, v) ==
  {i \in DOMAIN stack : /\ stack[i].kind = k
                        /\ k = "emit"  => stack[i].value = v /\ Contains(stack[i].rest, x)
                        /\ k = "drain" => stack[i].who = x /\ Contains(stack[i].rest, v)}
Times(v, s) == Cardinality({i \in DOMAIN s : s[i] = v})
EachValueOnce ==
  \A x \in Subscribers : Active(x) => \A v \in since[x] + 1 .. emitted :
    Times(v, handed[x]) + (IF x \in Listeners THEN Times(v, queue[x]) ELSE 0)
      + Cardinality(Waiting("emit", x, v)) + Cardinality(Waiting("drain", x, v))
      + (IF v \in lost[x] THEN 1 ELSE 0) = 1

(* A listener that has values in its queue is going to be drained: its      *)
(* drain is queued or owed, or an emission is about to trigger it.  A panic *)
(* in a subscriber keeps the emission from doing that.                      *)
QueuedIsDue ==
  \A l \in Listeners : Active(l) /\ queue[l] # <<>> /\ ~cut =>
    \/ l \in due \/ (l \in rerun /\ Draining(l))
    \/ \E i \in DOMAIN stack : stack[i].kind = "emit"

(* A listener is handed the values in the order of their emission.          *)
Ordered(s) == \A i, j \in DOMAIN s : i < j => s[i] < s[j]
InEmissionOrder == \A l \in Listeners : Ordered(handed[l])

(* So it is at least where no immediate subscriber comes before it, which   *)
(* could emit or flush before the value has reached the queue, and however  *)
(* many flushes its own handler makes.                                      *)
FirstInEmissionOrder == \A l \in Listeners : ahead[l] = {} => Ordered(handed[l])
=============================================================================
