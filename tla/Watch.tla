-------------------------------- MODULE Watch --------------------------------
(***************************************************************************)
(* watch(source, handler): a memo that computes the value of source, an    *)
(* effect that reads it and hands it to the handler, untracked.  A source  *)
(* signal s of the same reactor feeds it.  User code enters reactors,      *)
(* untracks, computes nodes of its own, makes views, reads and sets them;  *)
(* source reads, the handler does all of it, writes s and flushes too.     *)
(***************************************************************************)
EXTENDS Views, FiniteSets

CONSTANTS
  Signal,     \* what source reads
  Gate, Eff,  \* the memo and the effect of the watch
  Values,
  MaxEntered, \* bound: what user code has entered at a time, at any depth
  MaxMade     \* bound: the number of views that are made

ASSUME WatchAssumption ==
  /\ Signal \in Sources \ Views /\ {Gate, Eff} \subseteq Computations
  /\ Gate # Eff /\ Gate \in Sources /\ {Gate, Eff} \cap Views = {}
  /\ Home[Signal] = Home[Gate] /\ Home[Eff] = Home[Gate]
  /\ Values \cap (Views \cup {None}) = {} /\ MaxEntered \in Nat /\ MaxMade \in Nat

VARIABLES
  value,     \* of Signal
  gate,      \* the memo: its value, and whether it is stale
  moved,     \* the memo's version is not the one the effect has read
  mark,      \* the effect: "clean", "check", "dirty"
  queued,    \* its latch and its job
  owed,      \* rerun_after_current
  disposed,
  body,      \* how far the effect's closure is: "reading", "handled"
  previous,  \* the last value that was handled
  told,      \* history: the last value given to the handler
  failed     \* history: the handler panicked over it

memo == <<value, gate, moved>>
effect == <<mark, queued, owed, disposed, body>>
handler == <<previous, told, failed>>
watchVars == <<memo, effect, handler>>
vars == <<contextVars, made, watchVars>>

Watching == OnTop("compute") /\ Top.node = Eff
Handling == OnTop("untrack") /\ Top.for \in Values

(* User code is on top of the stack; source only reads. *)
UserCode == ~panicking /\ ~OnTop("verify") /\ ~Watching /\ ~Viewing
Acts == UserCode /\ ~Active(Gate)
Entered ==
  Places("enter") \cup {i \in Places("untrack") : stack[i].for \notin Values}
    \cup {i \in Places("compute") : stack[i].node \notin {Gate, Eff}}
Room == Cardinality(Entered) < MaxEntered

-----------------------------------------------------------------------------
(* What user code does.                                                    *)

Guards ==
  /\ UserCode
  /\ \/ \E r \in Reactors : New(r) \/ (Room /\ Enter(r))
     \/ \E r \in Reactors \ {Home[Gate]} :
          Release(r) /\ \A v \in Views : Exists(v) => Home[v] # r
     \/ Ambient
     \/ Room /\ Untrack(None) /\ UNCHANGED edges
     \/ \E n \in Computations \ ({Gate, Eff} \cup Views) : Room /\ BeginCompute(n)
  /\ UNCHANGED <<made, watchVars>>

(* It makes views, reads them or the signal, and sets them.                *)
RoomToMake == Cardinality({v \in Views : Exists(v)}) < MaxMade
Derive ==
  /\ \/ /\ Acts /\ RoomToMake
        /\ \E v \in Views :
             \/ \E h \in Observables : h.node # Gate /\ Map(v, h)
             \/ \E x \in Sources \ {Gate} : MakeWritable(v, x)
     \/ Acts /\ Room /\ \E v \in Views : CallSetter(v)
     \/ UserCode /\ Room /\ \E v \in Views : Refresh(v)
     \/ UserCode /\ \E x \in Sources \ {Gate} : Read(x)
     \/ ReadInput
     \/ Return
  /\ UNCHANGED watchVars

(* Guards are dropped in reverse order, in an unwind too. *)
Drops ==
  /\ \/ Exit
     \/ ~Handling /\ EndUntrack
     \/ OnTop("compute") /\ Top.node \notin {Gate, Eff} /\ ~Viewing /\ EndCompute
  /\ UNCHANGED <<made, watchVars>>

(* Signal::set: an equal value is not written, and the memo passes a mark   *)
(* on only when it was clean.                                               *)
Set(v) ==
  /\ Acts
  /\ v # value
  /\ value' = v
  /\ LET reached == <<Gate, Signal>> \in edges /\ ~gate.stale
         marked == reached /\ <<Eff, Gate>> \in edges /\ ~disposed
     IN /\ gate' = [gate EXCEPT !.stale = @ \/ <<Gate, Signal>> \in edges]
        /\ mark' = IF marked /\ mark = "clean" THEN "check" ELSE mark
        /\ queued' = (queued \/ marked)
  /\ UNCHANGED <<contextVars, made, moved, owed, disposed, body, handler>>

(* EffectHandle::dispose, perhaps from the handler or from source. *)
Dispose ==
  /\ UserCode
  /\ ~disposed
  /\ disposed' = TRUE /\ queued' = FALSE
  /\ edges' = {e \in edges : e[1] # Eff}
  /\ UNCHANGED <<defaults, untracked, running, stack, panicking, made, memo, mark, owed, body, handler>>

Panic ==
  /\ UserCode /\ ~Idle
  /\ panicking' = TRUE
  /\ UNCHANGED <<defaults, tracking, stack, made, watchVars>>

-----------------------------------------------------------------------------
(* The run of the effect.                                                  *)

StartEffect ==
  /\ BeginCompute(Eff)
  /\ body' = "reading"

(* A flush reaches the job: run_scheduled_inner up to the verification.     *)
(* Mutant: a run that comes while the effect runs is dropped.               *)
FlushDropsRun ==
  /\ Acts /\ queued
  /\ queued' = FALSE
  /\ UNCHANGED <<made, memo, disposed, handler>>
  /\ CASE Active(Eff) \/ mark = "clean" -> UNCHANGED <<owed, mark, body, contextVars>>
       [] ~Active(Eff) /\ mark = "dirty" ->
            mark' = "clean" /\ UNCHANGED owed /\ StartEffect
       [] ~Active(Eff) /\ mark = "check" ->
            /\ mark' = "clean" /\ UNCHANGED <<owed, body, defaults, tracking>>
            /\ Push([kind |-> "verify"])
Flush ==
  /\ Acts /\ queued
  /\ queued' = FALSE
  /\ UNCHANGED <<made, memo, disposed, handler>>
  /\ CASE Active(Eff) \/ mark = "clean" ->
            owed' = (owed \/ Active(Eff)) /\ UNCHANGED <<mark, body, contextVars>>
       [] ~Active(Eff) /\ mark = "dirty" ->
            mark' = "clean" /\ UNCHANGED owed /\ StartEffect
       [] ~Active(Eff) /\ mark = "check" ->
            /\ mark' = "clean" /\ UNCHANGED <<owed, body, defaults, tracking>>
            /\ Push([kind |-> "verify"])

(* dependencies_changed has refreshed the memo. *)
Verified ==
  /\ OnTop("verify") /\ ~panicking /\ ~gate.stale
  /\ IF moved /\ ~disposed
     THEN /\ stack' = Append(Front(stack), ComputeFrame(Eff))
          /\ edges' = {e \in edges : e[1] # Eff}
          /\ untracked' = 0 /\ running' = Home[Eff]
          /\ body' = "reading"
          /\ UNCHANGED <<defaults, panicking>>
     ELSE Pop /\ UNCHANGED <<defaults, tracking, body>>
  /\ UNCHANGED <<made, memo, mark, queued, owed, disposed, handler>>

(* MemoInner::refresh, by the verification or by the effect that reads. *)
ComputeGate ==
  /\ ~panicking /\ gate.stale
  /\ OnTop("verify") \/ (Watching /\ body = "reading")
  /\ gate' = [gate EXCEPT !.stale = FALSE]
  /\ BeginCompute(Gate)
  /\ UNCHANGED <<made, value, moved, effect, handler>>

(* source returns what it has read. *)
ReturnGate ==
  /\ OnTop("compute") /\ Top.node = Gate /\ ~panicking
  /\ <<Gate, Signal>> \in edges
  /\ gate' = [gate EXCEPT !.val = value]
  /\ moved' = (moved \/ gate.val # value)
  /\ EndCompute
  /\ UNCHANGED <<made, value, effect, handler>>

(* The effect has the memo's value: it depends on the memo, and calls. *)
Call ==
  /\ Watching /\ body = "reading" /\ ~panicking /\ ~gate.stale
  /\ edges' = edges \cup {<<Eff, Gate>>}
  /\ Untrack(gate.val)
  /\ moved' = FALSE
  /\ body' = "handled"
  /\ told' = gate.val /\ failed' = FALSE
  /\ UNCHANGED <<made, value, gate, mark, queued, owed, disposed, previous>>

(* The handler returns.  Mutant: what source would return now is recorded. *)
HandlerReturnCurrent ==
  /\ Handling /\ ~panicking
  /\ previous' = value
  /\ EndUntrack
  /\ UNCHANGED <<made, memo, effect, told, failed>>
HandlerReturn ==
  /\ Handling /\ ~panicking
  /\ previous' = Top.for
  /\ EndUntrack
  /\ UNCHANGED <<made, memo, effect, told, failed>>

(* The effect's closure has returned; a run that came meanwhile is queued. *)
FinishEffect ==
  /\ Watching /\ body = "handled" /\ ~panicking
  /\ EndCompute
  /\ owed' = FALSE
  /\ queued' = (queued \/ (owed /\ ~disposed))
  /\ UNCHANGED <<made, memo, mark, disposed, body, handler>>

(* A panic leaves the handler, the effect, the memo (DirtyOnUnwind), the    *)
(* verification (RecoverOnUnwind).                                          *)
Unwind ==
  /\ panicking
  /\ \/ Handling /\ EndUntrack /\ failed' = TRUE /\ UNCHANGED <<gate, mark, queued>>
     \/ Watching /\ EndCompute /\ UNCHANGED <<gate, mark, queued, failed>>
     \/ /\ OnTop("compute") /\ Top.node = Gate /\ EndCompute
        /\ gate' = [gate EXCEPT !.stale = TRUE] /\ UNCHANGED <<mark, queued, failed>>
     \/ /\ OnTop("verify") /\ Pop
        /\ IF disposed THEN UNCHANGED <<mark, queued>> ELSE mark' = "dirty" /\ queued' = TRUE
        /\ UNCHANGED <<gate, defaults, tracking, failed>>
  /\ UNCHANGED <<made, value, moved, owed, disposed, body, previous, told>>

-----------------------------------------------------------------------------
Init ==
  /\ born = {Home[Gate]} /\ held = born
  /\ current = None /\ anchored = None
  /\ untracked = 0 /\ running = None /\ edges = {}
  /\ stack = <<>> /\ panicking = FALSE
  /\ made = [v \in Views |-> Unmade]
  /\ value \in Values
  /\ gate = [val |-> None, stale |-> TRUE] /\ moved = FALSE
  /\ mark = "dirty" /\ queued = TRUE /\ owed = FALSE /\ disposed = FALSE
  /\ body = "reading"
  /\ previous = None /\ told = None /\ failed = FALSE

Next ==
  \/ Guards \/ Derive \/ Drops
  \/ \E v \in Values : Set(v)
  \/ Dispose \/ Panic
  \/ Flush \/ Verified \/ ComputeGate \/ ReturnGate
  \/ Call \/ HandlerReturn \/ FinishEffect \/ Unwind

Spec == Init /\ [][Next]_vars

-----------------------------------------------------------------------------
(* What the handler is given as the previous value is the one it was given  *)
(* before, whatever it wrote and flushed in that call, if it did not panic. *)
PreviousIsTold ==
  (~failed /\ \A i \in Places("untrack") : stack[i].for \notin Values) => previous = told

(* A watch that has read its source once misses no change: while its value  *)
(* is not the one the handler has been given, its effect is queued, and not *)
(* clean, so that its job will look, or is being verified; also while it    *)
(* runs.  A run that was deferred in a handler that panicked later is the   *)
(* exception: nobody queues it (effect.rs:827).                             *)
WatchIsOwed ==
  ~disposed /\ <<Eff, Gate>> \in edges /\ told # value /\ ~owed
    => (queued /\ mark # "clean") \/ Places("verify") # {}
=============================================================================
