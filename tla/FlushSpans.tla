----------------------------- MODULE FlushSpans -----------------------------
(***************************************************************************)
(* What diagnostic subscribers hear.  Things that begin and end (a node's  *)
(* life, a run, a flush) are announced when they begin and when they end;  *)
(* a FlushFinished also carries the totals of the work done, which         *)
(* FlushAccounting collects in one slot per open flush.  Flushes nest,     *)
(* external ones join, and subscriptions come and go in the middle.        *)
(*                                                                         *)
(* Of the work one unit is followed, any one.  The module has no next-     *)
(* state relation of its own: Observation composes its operations with the *)
(* graph.                                                                  *)
(***************************************************************************)
EXTENDS Naturals, Sequences, FiniteSets, SequencesExt

CONSTANTS
  Subscribers,
  None,      \* no node
  MaxEpoch,  \* bound: nobody asks for anything once flush_epoch has reached it
  MaxStack   \* bound: user code enters nothing deeper than this

ASSUME SpansAssumption ==
  MaxEpoch \in Nat /\ MaxStack \in Nat

VARIABLES
  subscribed,        \* ReactorInner::diagnostics
  flush_epoch,
  open_flush_epoch,
  stack,             \* the call stack, outermost frame first
  slots,             \* FlushAccounting::open: epoch and work of each slot
  outside,           \* FlushAccounting::pending: work outside any flush
  spans,             \* spans[s]: what s heard begin and not yet end
  witnesses,         \* history: who has been subscribed from the beginning
  orphans,           \* history: who heard a flush end without its beginning
  unit,              \* history: the followed unit of work
  reported           \* history: the flushes whose totals counted it

epochs == <<flush_epoch, open_flush_epoch>>
totals == <<slots, outside>>
heard == <<spans, witnesses, orphans>>
history == <<unit, reported>>
spanVars == <<subscribed, epochs, stack, totals, heard, history>>

(* Frames: joined is an external flush inside another flush and has no epoch *)
(* of its own; a run notes whether anybody heard it begin.                  *)
Frame(k, e, n, h) == [kind |-> k, epoch |-> e, node |-> n, heard |-> h]
Flush(k, e) == Frame(k, e, None, FALSE)
FlushKinds == {"drain", "external", "joined"}

Idle == stack = <<>>
Top  == Last(stack)
Places(kinds) == {i \in DOMAIN stack : stack[i].kind \in kinds}
Timed == Places({"drain", "external"})
flush_depth == Cardinality(Places(FlushKinds))

-----------------------------------------------------------------------------
(* Events.                                                                 *)

(* ReactorInner::emit of an event that opens or closes a span. *)
Begins(x) ==
  spans' = [s \in Subscribers |->
              IF s \in subscribed THEN spans[s] \cup {x} ELSE spans[s]]
Ends(x) ==
  spans' = [s \in Subscribers |->
              IF s \in subscribed THEN spans[s] \ {x} ELSE spans[s]]

FlushSpan(e) == <<"flush", e>>

-----------------------------------------------------------------------------
(* Totals.                                                                 *)

(* unit.at is the flush whose totals have to count the unit: the innermost  *)
(* one that has totals, or else the next one to open.                      *)
NoUnit == [done |-> FALSE, at |-> 0]
UnitAt(e) == [done |-> TRUE, at |-> e]
Amounts == IF unit = NoUnit THEN {0, 1} ELSE {0}

(* Reactor::record_flush and FlushAccounting::record. *)
Record(w) ==
  IF subscribed = {} THEN UNCHANGED totals
  ELSE IF slots = <<>> THEN outside' = outside + w /\ UNCHANGED slots
  ELSE slots' = [slots EXCEPT ![Len(slots)].work = @ + w] /\ UNCHANGED outside

(* Work that the totals count, the followed unit perhaps among it. *)
Work ==
  \E w \in Amounts :
    /\ Record(w)
    /\ unit' = IF w = 0 THEN unit
               ELSE UnitAt(IF subscribed = {} THEN 0
                           ELSE IF slots # <<>> THEN stack[Max(Timed)].epoch
                           ELSE flush_epoch + 1)
NoWork == UNCHANGED <<totals, unit>>

(* FlushAccounting::open_flush.  Mutant: the work outside is copied, not taken. *)
OpenSlotCopies(e) ==
  /\ slots' = Append(slots, [epoch |-> e, work |-> outside])
  /\ UNCHANGED outside
OpenSlot(e) ==
  /\ slots' = Append(slots, [epoch |-> e, work |-> outside])
  /\ outside' = 0

(* The new flush gets its totals, then FlushStarted is sent. *)
Started(e) ==
  IF subscribed = {} THEN UNCHANGED <<totals, spans>>
  ELSE OpenSlot(e) /\ Begins(FlushSpan(e))

(* FlushAccounting::close_flush, and FlushFinished if there are totals.     *)
Finished(e) ==
  IF subscribed = {} \/ slots = <<>> THEN UNCHANGED <<slots, spans, orphans, reported>>
  ELSE /\ slots' = Front(slots)
       /\ reported' = reported \o [i \in 1 .. Last(slots).work |-> e]
       /\ Ends(FlushSpan(e))
       /\ orphans' = orphans \cup {s \in subscribed : FlushSpan(e) \notin spans[s]}

-----------------------------------------------------------------------------
(* Subscriptions and flushes.                                              *)

Subscribe(s) ==
  /\ s \notin subscribed
  /\ subscribed' = subscribed \cup {s}
  /\ UNCHANGED <<epochs, stack, totals, heard, history>>

(* FlushAccounting::reset. *)
Reset ==
  /\ slots' = <<>> /\ outside' = 0
  /\ unit' = IF unit # NoUnit /\ reported = <<>> THEN UnitAt(0) ELSE unit

(* Whoever subscribes again is a new subscriber: it has heard nothing. *)
Unsubscribe(s) ==
  /\ s \in subscribed
  /\ subscribed' = subscribed \ {s}
  /\ witnesses' = witnesses \ {s}
  /\ spans' = [spans EXCEPT ![s] = {}]
  /\ IF subscribed = {s} THEN Reset ELSE NoWork
  /\ UNCHANGED <<epochs, stack, orphans, reported>>

(* flush_jobs, up to its loop. *)
PushDrain ==
  /\ flush_epoch' = flush_epoch + 1
  /\ Started(flush_epoch')
  /\ stack' = Append(stack, Flush("drain", flush_epoch'))
  /\ UNCHANGED <<subscribed, open_flush_epoch, witnesses, orphans, history>>

(* begin_flush: joins the flush it is in, if there is one. *)
PushExternal ==
  /\ IF flush_depth = 0
     THEN /\ flush_epoch' = flush_epoch + 1
          /\ open_flush_epoch' = flush_epoch'
          /\ Started(flush_epoch')
          /\ stack' = Append(stack, Flush("external", flush_epoch'))
     ELSE /\ stack' = Append(stack, Flush("joined", 0))
          /\ UNCHANGED <<epochs, totals, spans>>
  /\ UNCHANGED <<subscribed, witnesses, orphans, history>>

(* FlushGuard and end_flush, also when a panic unwinds.                     *)
(* Mutant: the live epoch is reported. *)
PopFlushLive ==
  /\ stack' = Front(stack)
  /\ IF Top.kind = "joined" THEN UNCHANGED <<slots, spans, orphans, reported>>
     ELSE Finished(flush_epoch)
  /\ UNCHANGED <<subscribed, epochs, outside, witnesses, unit>>
PopFlush ==
  /\ stack' = Front(stack)
  /\ CASE Top.kind = "joined" -> UNCHANGED <<slots, spans, orphans, reported>>
       [] Top.kind = "external" -> Finished(open_flush_epoch)
       [] Top.kind = "drain" -> Finished(Top.epoch)
  /\ UNCHANGED <<subscribed, epochs, outside, witnesses, unit>>

SpansInit ==
  /\ subscribed \in SUBSET Subscribers
  /\ flush_epoch = 0 /\ open_flush_epoch = 0
  /\ stack = <<>>
  /\ slots = <<>> /\ outside = 0
  /\ spans = [s \in Subscribers |-> {}]
  /\ witnesses = subscribed
  /\ orphans = {}
  /\ unit = NoUnit
  /\ reported = <<>>

-----------------------------------------------------------------------------
(* Every unit of work somebody subscribed to is counted exactly once: it is *)
(* in one place until it is reported, and it is reported by the innermost   *)
(* flush it was done in or, outside any, by the next one.                   *)
Shares ==
  [k \in 0 .. Len(slots) + 1 |->
     CASE k = 0 -> Len(reported)
       [] k \in DOMAIN slots -> slots[k].work
       [] OTHER -> outside]
CountedOnce ==
  /\ IF unit.at = 0 THEN \A k \in DOMAIN Shares : Shares[k] = 0
     ELSE \E k \in DOMAIN Shares : Shares = [j \in DOMAIN Shares |-> IF j = k THEN 1 ELSE 0]
  /\ \A i \in DOMAIN reported : reported[i] = unit.at
=============================================================================
