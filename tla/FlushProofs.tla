---------------------------- MODULE FlushProofs ----------------------------
(***************************************************************************)
(* Proofs about the job queue and its flushes, for any number of jobs and   *)
(* effects, any nesting and any limit: type correctness, the flush depth,   *)
(* both directions of the divergence guard, and that no job stalls but in   *)
(* the one case NoStalledJobs excepts.                                     *)
(***************************************************************************)
EXTENDS Flush, SequenceTheorems, FiniteSetTheorems, TLAPS

-----------------------------------------------------------------------------
(* The shape of the call stack.                                            *)

GuardKinds   == {"drain", "external", "single"}
BracketKinds == {"opening", "closing", "ended"}
Guards(s)    == {i \in DOMAIN s : s[i].kind \in GuardKinds}

(* A callback is on top and was called by somebody, what opens or closes a  *)
(* flush calls only callbacks, and jobs and bodies run below a guard.       *)
WellNested(s) ==
  \A i \in DOMAIN s :
    /\ s[i].kind = "callback" => i > 1 /\ i + 1 \notin DOMAIN s
    /\ s[i].kind \in BracketKinds /\ i + 1 \in DOMAIN s => s[i + 1].kind = "callback"
    /\ s[i].kind \in {"job", "body"} => \E k \in Guards(s) : k < i

(* What may be called on top of the n frames of s. *)
Callable(n, s, f) ==
  /\ n > 0 => /\ s[n].kind # "callback"
              /\ s[n].kind \in BracketKinds => f.kind = "callback"
  /\ f.kind = "callback" => n > 0
  /\ f.kind \in {"job", "body"} => Guards(s) # {}

(* One frame more, on n of them: the guards there are, and whether the      *)
(* stack is well nested.                                                    *)
LEMMA OneMore ==
  ASSUME NEW n \in Nat, NEW s, DOMAIN s = 1 .. n,
         NEW t, DOMAIN t = 1 .. n + 1, \A i \in 1 .. n : t[i] = s[i]
  PROVE  /\ IsFiniteSet(Guards(s)) /\ Cardinality(Guards(s)) \in Nat
         /\ Cardinality(Guards(s)) = 0 <=> Guards(s) = {}
         /\ Cardinality(Guards(t)) =
              Cardinality(Guards(s)) + (IF t[n + 1].kind \in GuardKinds THEN 1 ELSE 0)
         /\ WellNested(t) <=> WellNested(s) /\ Callable(n, s, t[n + 1])
<1> DEFINE f == t[n + 1]
<1>1. Guards(s) \subseteq 1 .. n
  BY DEF Guards
<1>2. IsFiniteSet(Guards(s))
  <2>1. IsFiniteSet(1 .. n)
    BY FS_Interval
  <2>2. QED
    BY <1>1, <2>1, FS_Subset
<1>3. Cardinality(Guards(s)) \in Nat /\ (Cardinality(Guards(s)) = 0 <=> Guards(s) = {})
  BY <1>2, FS_CardinalityType, FS_EmptySet
<1>4. Guards(t) = Guards(s) \cup (IF f.kind \in GuardKinds THEN {n + 1} ELSE {})
  BY DEF Guards
<1>5. Cardinality(Guards(t)) =
        Cardinality(Guards(s)) + (IF f.kind \in GuardKinds THEN 1 ELSE 0)
  <2>1. n + 1 \notin Guards(s)
    BY <1>1
  <2>2. CASE f.kind \in GuardKinds
    <3>1. Guards(t) = Guards(s) \cup {n + 1}
      BY <1>4, <2>2
    <3>2. QED
      BY <1>2, <2>1, <2>2, <3>1, FS_AddElement
  <2>3. CASE f.kind \notin GuardKinds
    <3>1. Guards(t) = Guards(s)
      BY <1>4, <2>3
    <3>2. QED
      BY <1>3, <2>3, <3>1
  <2>4. QED
    BY <2>2, <2>3
<1>6. ASSUME WellNested(s), Callable(n, s, f)
      PROVE  WellNested(t)
  <2> SUFFICES ASSUME NEW i \in 1 .. n + 1
               PROVE  /\ t[i].kind = "callback" => i > 1 /\ i + 1 \notin 1 .. n + 1
                      /\ t[i].kind \in BracketKinds /\ i + 1 \in 1 .. n + 1
                           => t[i + 1].kind = "callback"
                      /\ t[i].kind \in {"job", "body"} => \E k \in Guards(t) : k < i
    BY DEF WellNested
  <2>1. CASE i = n + 1
    <3>1. f.kind \in {"job", "body"} => \E k \in Guards(s) : k < i
      BY <1>1, <1>6, <2>1 DEF Callable
    <3>2. QED
      BY <1>4, <1>6, <2>1, <3>1 DEF Callable
  <2>2. CASE i \in 1 .. n - 1
    BY <1>4, <1>6, <2>2 DEF WellNested
  <2>3. CASE i = n
    BY <1>4, <1>6, <2>3 DEF WellNested, Callable
  <2>4. QED
    BY <2>1, <2>2, <2>3
<1>7. ASSUME WellNested(t)
      PROVE  WellNested(s)
  <2> SUFFICES ASSUME NEW i \in 1 .. n
               PROVE  /\ s[i].kind = "callback" => i > 1 /\ i + 1 \notin 1 .. n
                      /\ s[i].kind \in BracketKinds /\ i + 1 \in 1 .. n
                           => s[i + 1].kind = "callback"
                      /\ s[i].kind \in {"job", "body"} => \E k \in Guards(s) : k < i
    BY DEF WellNested
  <2>1. s[i].kind \in {"job", "body"} => \E k \in Guards(s) : k < i
    BY <1>4, <1>7 DEF WellNested
  <2>2. QED
    BY <1>7, <2>1 DEF WellNested
<1>8. ASSUME WellNested(t)
      PROVE  Callable(n, s, f)
  <2>1. n > 0 => n \in DOMAIN t /\ n + 1 \in DOMAIN t /\ t[n] = s[n]
    OBVIOUS
  <2>2. f.kind \in {"job", "body"} => Guards(s) # {}
    <3>1. f.kind \in {"job", "body"} => f.kind \notin GuardKinds
      BY DEF GuardKinds
    <3>2. QED
      BY <1>4, <1>8, <3>1 DEF WellNested
  <2>3. QED
    BY <1>8, <2>1, <2>2 DEF WellNested, Callable
<1>9. QED
  BY <1>2, <1>3, <1>5, <1>6, <1>7, <1>8
(* The guards on a stack are finitely many. *)
LEMMA FiniteGuards ==
  ASSUME NEW s \in Seq(Frames)
  PROVE  IsFiniteSet(Guards(s))
<1>1. Len(s) \in Nat /\ DOMAIN s = 1 .. Len(s)
  BY LenProperties
<1>2. IsFiniteSet(1 .. Len(s))
  BY <1>1, FS_Interval
<1>3. QED
  BY <1>1, <1>2, FS_Subset DEF Guards

(* OneMore for sequences. *)
LEMMA OneMoreFrame ==
  ASSUME NEW s \in Seq(Frames), NEW t \in Seq(Frames),
         Len(t) = Len(s) + 1, \A i \in 1 .. Len(s) : t[i] = s[i]
  PROVE  /\ Cardinality(Guards(s)) \in Nat
         /\ Cardinality(Guards(s)) = 0 <=> Guards(s) = {}
         /\ Cardinality(Guards(t)) = Cardinality(Guards(s)) +
              (IF t[Len(s) + 1].kind \in GuardKinds THEN 1 ELSE 0)
         /\ WellNested(t) <=> WellNested(s) /\ Callable(Len(s), s, t[Len(s) + 1])
<1>1. Len(s) \in Nat /\ DOMAIN s = 1 .. Len(s) /\ DOMAIN t = 1 .. Len(s) + 1
  BY LenProperties
<1>2. QED
  BY <1>1, OneMore

(* The first n elements of a sequence. *)
LEMMA FirstFrames ==
  ASSUME NEW S, NEW s \in Seq(S), NEW n \in 0 .. Len(s)
  PROVE  /\ SubSeq(s, 1, n) \in Seq(S) /\ Len(SubSeq(s, 1, n)) = n
         /\ \A i \in 1 .. n : SubSeq(s, 1, n)[i] = s[i]
OBVIOUS

(* Calling keeps the shape, and adds a guard if the frame called is one. *)
LEMMA Call ==
  ASSUME NEW s \in Seq(Frames), WellNested(s),
         NEW f \in Frames, Callable(Len(s), s, f)
  PROVE  /\ Append(s, f) \in Seq(Frames)
         /\ Len(Append(s, f)) = Len(s) + 1 /\ Len(s) \in Nat
         /\ Append(s, f)[Len(s) + 1] = f
         /\ \A i \in 1 .. Len(s) : Append(s, f)[i] = s[i]
         /\ WellNested(Append(s, f))
         /\ Cardinality(Guards(s)) \in Nat
         /\ Cardinality(Guards(Append(s, f))) =
              Cardinality(Guards(s)) + (IF f.kind \in GuardKinds THEN 1 ELSE 0)
<1>1. Len(s) \in Nat
  OBVIOUS
<1>2. PICK t : t = Append(s, f)
  OBVIOUS
<1>3. /\ t \in Seq(Frames) /\ Len(t) = Len(s) + 1 /\ t[Len(s) + 1] = f
      /\ \A i \in 1 .. Len(s) : t[i] = s[i]
  BY <1>1, <1>2
<1>4. /\ Cardinality(Guards(s)) \in Nat
      /\ Cardinality(Guards(t)) =
           Cardinality(Guards(s)) + (IF f.kind \in GuardKinds THEN 1 ELSE 0)
      /\ WellNested(t)
  BY <1>3, OneMoreFrame
<1>5. QED
  BY <1>1, <1>2, <1>3, <1>4

(* What is left when the frame on top returns: the caller may call again.   *)
LEMMA Returned ==
  ASSUME NEW s \in Seq(Frames), WellNested(s), s # <<>>
  PROVE  \E p \in Seq(Frames) :
           /\ p = SubSeq(s, 1, Len(s) - 1)
           /\ Len(s) \in Nat \ {0} /\ Len(p) = Len(s) - 1
           /\ s[Len(s)] \in Frames
           /\ \A i \in 1 .. Len(p) : p[i] = s[i]
           /\ WellNested(p) /\ Callable(Len(p), p, s[Len(s)])
           /\ Cardinality(Guards(p)) \in Nat
           /\ Cardinality(Guards(s)) = Cardinality(Guards(p)) +
                (IF s[Len(s)].kind \in GuardKinds THEN 1 ELSE 0)
<1>1. Len(s) \in Nat \ {0} /\ Len(s) - 1 \in 0 .. Len(s)
  BY EmptySeq
<1>2. s[Len(s)] \in Frames
  BY <1>1, ElementOfSeq
<1>3. PICK p \in Seq(Frames) :
        /\ p = SubSeq(s, 1, Len(s) - 1) /\ Len(p) = Len(s) - 1
        /\ \A i \in 1 .. Len(s) - 1 : p[i] = s[i]
  <2>1. PICK p : p = SubSeq(s, 1, Len(s) - 1)
    OBVIOUS
  <2>2. p \in Seq(Frames) /\ Len(p) = Len(s) - 1 /\ \A i \in 1 .. Len(s) - 1 : p[i] = s[i]
    BY <1>1, <2>1, FirstFrames
  <2>3. QED
    BY <2>1, <2>2
<1>4. Len(s) = Len(p) + 1 /\ \A i \in 1 .. Len(p) : s[i] = p[i]
  BY <1>1, <1>3
<1>5. /\ Cardinality(Guards(p)) \in Nat
      /\ Cardinality(Guards(s)) = Cardinality(Guards(p)) +
           (IF s[Len(s)].kind \in GuardKinds THEN 1 ELSE 0)
      /\ WellNested(p) /\ Callable(Len(p), p, s[Len(s)])
  BY <1>4, OneMoreFrame
<1>6. QED
  BY <1>1, <1>2, <1>3, <1>4, <1>5

(* Replacing the frame on top is a return and a call.                       *)
LEMMA Replaced ==
  ASSUME NEW s \in Seq(Frames), s # <<>>, NEW f \in Frames
  PROVE  [s EXCEPT ![Len(s)] = f] = Append(SubSeq(s, 1, Len(s) - 1), f)
<1>1. Len(s) \in Nat \ {0} /\ Len(s) \in 1 .. Len(s)
  BY EmptySeq
<1>2. PICK a : a = [s EXCEPT ![Len(s)] = f]
  OBVIOUS
<1>3. PICK b : b = Append(SubSeq(s, 1, Len(s) - 1), f)
  OBVIOUS
<1>4. /\ a \in Seq(Frames) /\ Len(a) = Len(s)
      /\ \A i \in 1 .. Len(s) : a[i] = IF i = Len(s) THEN f ELSE s[i]
  BY <1>1, <1>2, ExceptSeq
<1>5. /\ b \in Seq(Frames) /\ Len(b) = Len(s)
      /\ \A i \in 1 .. Len(s) : b[i] = IF i = Len(s) THEN f ELSE s[i]
  <2>1. PICK p : p = SubSeq(s, 1, Len(s) - 1)
    OBVIOUS
  <2>2. p \in Seq(Frames) /\ Len(p) = Len(s) - 1 /\ \A i \in 1 .. Len(s) - 1 : p[i] = s[i]
    <3>1. Len(s) - 1 \in 0 .. Len(s)
      BY <1>1
    <3>2. QED
      BY <2>1, <3>1, FirstFrames
  <2>3. b = Append(p, f)
    BY <1>3, <2>1
  <2>4. /\ b \in Seq(Frames) /\ Len(b) = Len(s) /\ b[Len(s)] = f
        /\ \A i \in 1 .. Len(s) - 1 : b[i] = p[i]
    BY <1>1, <2>2, <2>3
  <2>5. QED
    BY <1>1, <2>2, <2>4
<1>6. a = b
  BY <1>4, <1>5, SeqEqual
<1>7. QED
  BY <1>2, <1>3, <1>6

-----------------------------------------------------------------------------
(* The inductive invariant.                                                *)

(* The types of all but the stack and the depth. *)
Data ==
  /\ pending \in Seq(Jobs \cup Queued) /\ armed \in BOOLEAN /\ microtasks \in Nat
  /\ dirty \subseteq Effects /\ latched \subseteq Effects
  /\ held \subseteq Held /\ rerun \subseteq Effects
  /\ counted \subseteq Effects /\ runs \in [Effects -> Nat]
  /\ panicking \in BOOLEAN
  /\ ran \in [Effects -> Nat]

(* A stack of frames in good order with d guards on it. *)
Balanced(s, d) ==
  s \in Seq(Frames) /\ WellNested(s) /\ d = Cardinality(Guards(s))

(* The counters of the divergence guard count what ran in this drain, and   *)
(* the drain began with the outermost flush.                                *)
Tally ==
  \A e \in Effects :
    ran[e] = IF e \notin counted THEN 0
             ELSE IF runs[e] <= MaxRuns THEN runs[e] ELSE MaxRuns

IInv ==
  /\ Data
  /\ Balanced(stack, depth)
  /\ panicking => ~Idle
  /\ Tally

(* Frames that code pushes are frames. *)
LEMMA FrameType ==
  ASSUME NEW k \in Kinds, NEW w \in WhoOf(k)
  PROVE  Frame(k, w) \in Frames /\ Frame(k, w).kind = k /\ Frame(k, w).who = w
<1>1. w \in Jobs \cup Effects \cup {None}
  BY DEF WhoOf, Kinds
<1>2. QED
  BY <1>1 DEF Frame, Frames

(* So are the frames of guards. *)
LEMMA GuardingType ==
  ASSUME NEW k \in {"closing", "ended"}, panicking \in BOOLEAN
  PROVE  /\ Guarding(k) \in Frames /\ Guarding(k).kind = k
         /\ Guarding(k).unwinding = panicking
<1>1. k \in Kinds /\ None \in WhoOf(k)
  BY DEF Kinds, WhoOf
<1>2. QED
  BY <1>1 DEF Guarding, Frames

(* Calling a frame, in terms of Balanced. *)
LEMMA Called ==
  ASSUME NEW s, NEW d, Balanced(s, d), NEW f \in Frames, Callable(Len(s), s, f)
  PROVE  /\ d \in Nat
         /\ Balanced(Append(s, f), d + (IF f.kind \in GuardKinds THEN 1 ELSE 0))
         /\ Append(s, f) # <<>>
         /\ Append(s, f)[Len(Append(s, f))] = f
<1>1. s \in Seq(Frames) /\ WellNested(s) /\ d = Cardinality(Guards(s))
  BY DEF Balanced
<1>2. PICK t : t = Append(s, f)
  OBVIOUS
<1>3. /\ t \in Seq(Frames) /\ Len(t) = Len(s) + 1 /\ Len(s) \in Nat
      /\ t[Len(s) + 1] = f /\ WellNested(t) /\ d \in Nat
      /\ Cardinality(Guards(t)) = d + (IF f.kind \in GuardKinds THEN 1 ELSE 0)
  BY <1>1, <1>2, Call
<1>4. t # <<>>
  BY <1>3, EmptySeq
<1>5. QED
  BY <1>2, <1>3, <1>4 DEF Balanced

(* A diagnostic callback may be called by all frames but a callback. *)
LEMMA CalledBack ==
  ASSUME NEW s, NEW d, Balanced(s, d), s # <<>>, s[Len(s)].kind # "callback"
  PROVE  Balanced(WithCallback(s), d) /\ WithCallback(s) # <<>>
<1> DEFINE f == Frame("callback", None)
<1>1. f \in Frames /\ f.kind = "callback"
  BY FrameType DEF Kinds, WhoOf
<1>2. Len(s) > 0
  BY EmptySeq DEF Balanced
<1>3. Callable(Len(s), s, f)
  BY <1>1, <1>2 DEF Callable
<1>4. d \in Nat /\ Balanced(Append(s, f), d) /\ Append(s, f) # <<>>
  <2>1. f.kind \notin GuardKinds
    BY <1>1 DEF GuardKinds
  <2> HIDE DEF f
  <2>2. d \in Nat /\ Balanced(Append(s, f), d + 0) /\ Append(s, f) # <<>>
    BY <1>1, <1>3, <2>1, Called
  <2>3. QED
    BY <2>2
<1>5. QED
  BY <1>4 DEF WithCallback

(* The frame on top and what is below it. *)
LEMMA TopFrame ==
  ASSUME Balanced(stack, depth), ~Idle
  PROVE  \E d \in Nat :
           /\ Balanced(Pop, d)
           /\ depth = d + (IF Top.kind \in GuardKinds THEN 1 ELSE 0)
           /\ Top \in Frames
           /\ Callable(Len(Pop), Pop, Top)
           /\ Len(Pop) \in Nat
           /\ Pop # <<>> <=> Len(stack) > 1
           /\ Top.kind = "callback" => Pop # <<>>
           /\ \A f \in Frames : Retop(f) = Append(Pop, f)
<1>1. stack \in Seq(Frames) /\ WellNested(stack) /\ stack # <<>>
  BY DEF Balanced, Idle
<1>2. Top = stack[Len(stack)]
  BY DEF Top
<1>3. PICK p \in Seq(Frames) :
        /\ p = Pop
        /\ Len(stack) \in Nat \ {0} /\ Len(p) = Len(stack) - 1
        /\ Top \in Frames
        /\ WellNested(p) /\ Callable(Len(p), p, Top)
        /\ Cardinality(Guards(p)) \in Nat
        /\ Cardinality(Guards(stack)) =
             Cardinality(Guards(p)) + (IF Top.kind \in GuardKinds THEN 1 ELSE 0)
  BY <1>1, <1>2, Returned DEF Pop
<1>4. \A f \in Frames : Retop(f) = Append(Pop, f)
  BY <1>1, Replaced DEF Retop, Pop
<1>5. Len(p) \in Nat /\ (p # <<>> <=> Len(stack) > 1)
  <2>1. p # <<>> <=> Len(p) > 0
    BY EmptySeq
  <2>2. QED
    BY <1>3, <2>1
<1>6. Top.kind = "callback" => p # <<>>
  BY <1>3, <1>5 DEF Callable
<1>7. QED
  BY <1>3, <1>4, <1>5, <1>6 DEF Balanced

(* A frame that is not a callback may be replaced by whatever guards, opens *)
(* or closes a flush.                                                      *)
LEMMA CallableInstead ==
  ASSUME NEW n \in Nat, NEW s, NEW f, NEW g, Callable(n, s, f),
         f.kind # "callback", g.kind \in GuardKinds \cup BracketKinds
  PROVE  Callable(n, s, g)
BY DEF Callable, GuardKinds, BracketKinds

(* Code that may work on the graph runs in a flush, or is the host.         *)
LEMMA CodeInFlush ==
  ASSUME Balanced(stack, depth)
  PROVE  /\ depth \in Nat
         /\ Idle => depth = 0
         /\ ~Idle /\ Top.kind \in {"job", "body", "external"} => depth > 0
         /\ Top.kind = "host" <=> Idle
<1>1. CASE Idle
  <2>1. Guards(<<>>) = {}
    BY DEF Guards
  <2>2. depth = 0
    BY <1>1, <2>1, FS_EmptySet DEF Balanced, Idle
  <2>3. QED
    BY <1>1, <2>2 DEF Top, Host, Frame
<1>2. CASE ~Idle
  <2>1. PICK d \in Nat :
          /\ Balanced(Pop, d)
          /\ depth = d + (IF Top.kind \in GuardKinds THEN 1 ELSE 0)
          /\ Top \in Frames /\ Callable(Len(Pop), Pop, Top)
    BY <1>2, TopFrame
  <2>2. Top.kind # "host"
    BY <2>1 DEF Frames, Kinds
  <2>3. Top.kind = "external" => depth > 0
    BY <2>1 DEF GuardKinds
  <2>4. Top.kind \in {"job", "body"} => d # 0
    <3>1. Top.kind \in {"job", "body"} => Guards(Pop) # {}
      BY <2>1 DEF Callable
    <3>2. Cardinality(Guards(Pop)) = 0 => Guards(Pop) = {}
      <4>1. Pop \in Seq(Frames)
        BY <2>1 DEF Balanced
      <4>2. IsFiniteSet(Guards(Pop))
        BY <4>1, FiniteGuards
      <4>3. QED
        BY <4>2, FS_EmptySet
    <3>3. QED
      BY <2>1, <3>1, <3>2 DEF Balanced
  <2>5. QED
    BY <1>2, <2>1, <2>2, <2>3, <2>4
<1>3. QED
  BY <1>1, <1>2

-----------------------------------------------------------------------------
(* What the helpers that actions share leave behind.                       *)

(* A microtask is queued, unless one is on its way. *)
LEMMA ArmType ==
  ASSUME Data, Arm
  PROVE  armed' \in BOOLEAN /\ microtasks' \in Nat
<1>1. CASE armed
  <2>1. armed' = armed /\ microtasks' = microtasks
    BY <1>1 DEF Arm
  <2>2. QED
    BY <2>1 DEF Data
<1>2. CASE ~armed
  <2>1. armed' = TRUE /\ microtasks' = microtasks + 1
    BY <1>2 DEF Arm
  <2>2. microtasks' \in Nat
    BY <2>1 DEF Data
  <2>3. QED
    BY <2>1, <2>2
<1>3. QED
  BY <1>1, <1>2

(* Queueing keeps the types. *)
LEMMA ScheduleType ==
  ASSUME Data, NEW e \in Effects, Schedule(e)
  PROVE  /\ pending' \in Seq(Jobs \cup Queued) /\ armed' \in BOOLEAN /\ microtasks' \in Nat
         /\ latched' \subseteq Effects /\ held' \subseteq Held
<1>1. latched' \subseteq Effects
  BY DEF Data, Schedule
<1>2. CASE e \in latched
  BY <1>1, <1>2 DEF Data, Schedule, queue
<1>3. CASE e \notin latched /\ e \in Queued
  <2>1. pending' = Append(pending, e) /\ Arm /\ held' = held
    BY <1>3 DEF Schedule, Enqueue
  <2>2. pending' \in Seq(Jobs \cup Queued)
    BY <1>3, <2>1 DEF Data
  <2>3. armed' \in BOOLEAN /\ microtasks' \in Nat
    BY <2>1, ArmType
  <2>4. QED
    BY <1>1, <2>1, <2>2, <2>3 DEF Data
<1>4. CASE e \notin latched /\ e \notin Queued
  BY <1>1, <1>4 DEF Data, Schedule, queue, Effects
<1>5. QED
  BY <1>2, <1>3, <1>4

(* A flush that opens starts a new drain exactly if it is the outermost one, *)
(* so the counters still count what ran in the drain.                        *)
LEMMA OpensDrain ==
  ASSUME Data, Tally, Balanced(stack, depth), ~Idle => depth > 0,
         counted' = IF depth = 0 THEN {} ELSE counted, Restart, UNCHANGED runs
  PROVE  counted' \subseteq Effects /\ ran' \in [Effects -> Nat] /\ Tally'
<1>1. Idle => depth = 0
  BY CodeInFlush
<1>2. CASE Idle
  <2>1. counted' = {} /\ ran' = [e \in Effects |-> 0]
    BY <1>1, <1>2 DEF Restart
  <2>2. QED
    BY <2>1 DEF Tally
<1>3. CASE ~Idle
  <2>1. UNCHANGED <<counted, ran, runs>>
    BY <1>3 DEF Restart, Balanced
  <2>2. QED
    BY <2>1 DEF Tally, Data
<1>4. QED
  BY <1>2, <1>3

(* A stack that an effect may run on: the frame on top is a guard or user   *)
(* code, and there is a guard.                                             *)
MayRun(stk, d) ==
  /\ Balanced(stk, d) /\ d \in Nat \ {0} /\ stk # <<>>
  /\ stk[Len(stk)].kind \notin BracketKinds \cup {"callback"}

(* A body may be called on such a stack. *)
LEMMA BodyCalled ==
  ASSUME NEW stk, NEW d, MayRun(stk, d), NEW e \in Effects
  PROVE  Balanced(Append(stk, Frame("body", e)), d) /\ Append(stk, Frame("body", e)) # <<>>
<1> DEFINE f == Frame("body", e)
<1>1. f \in Frames /\ f.kind = "body" /\ f.kind \notin GuardKinds
  BY FrameType DEF Kinds, WhoOf, GuardKinds
<1>2. Len(stk) > 0
  BY EmptySeq DEF MayRun, Balanced
<1>3. Guards(stk) # {}
  BY FS_EmptySet DEF MayRun, Balanced
<1>4. Callable(Len(stk), stk, f)
  BY <1>1, <1>2, <1>3 DEF Callable, MayRun
<1> HIDE DEF f
<1>5. Balanced(Append(stk, f), d + 0) /\ Append(stk, f) # <<>>
  BY <1>1, <1>4, Called DEF MayRun
<1>6. QED
  BY <1>5 DEF MayRun, f

(* The divergence guard counts what it lets run. *)
LEMMA CheckDivergenceCounts ==
  ASSUME Data, Tally, NEW e \in Effects, NEW stk, CheckDivergence(e, stk)
  PROVE  /\ counted' \subseteq Effects /\ runs' \in [Effects -> Nat]
         /\ ran' \in [Effects -> Nat] /\ Tally'
<1>1. PICK n \in Nat : n = IF e \in counted THEN runs[e] + 1 ELSE 1
  BY DEF Data
<1>2. /\ counted' = counted \cup {e} /\ runs' = [runs EXCEPT ![e] = n]
      /\ ran' = IF n > MaxRuns THEN ran ELSE Counting(e)
  BY <1>1 DEF CheckDivergence
<1>3. counted' \subseteq Effects /\ runs' \in [Effects -> Nat]
  BY <1>2 DEF Data
<1>4. MaxRuns \in Nat \ {0}
  BY LimitsAssumption
<1>5. ran[e] <= MaxRuns /\ ran[e] \in Nat
  BY <1>4 DEF Tally, Data
<1>6. Counting(e) = [ran EXCEPT ![e] = @ + 1]
  BY <1>4, <1>5 DEF Counting
<1>7. ran' \in [Effects -> Nat]
  BY <1>2, <1>5, <1>6 DEF Data
<1>8. Tally'
  <2> SUFFICES ASSUME NEW x \in Effects
               PROVE  ran'[x] = IF x \notin counted' THEN 0
                                ELSE IF runs'[x] <= MaxRuns THEN runs'[x] ELSE MaxRuns
    BY DEF Tally
  <2>1. CASE x # e
    <3>1. ran'[x] = ran[x] /\ runs'[x] = runs[x] /\ (x \in counted' <=> x \in counted)
      BY <1>2, <1>6, <2>1 DEF Data
    <3>2. QED
      BY <3>1 DEF Tally
  <2>2. CASE x = e
    <3>1. runs'[x] = n /\ x \in counted'
      BY <1>2, <2>2 DEF Data
    <3>2. ran'[x] = IF n > MaxRuns THEN ran[e] ELSE ran[e] + 1
      BY <1>2, <1>6, <2>2 DEF Data
    <3>3. ran[e] = IF e \notin counted THEN 0
                   ELSE IF runs[e] <= MaxRuns THEN runs[e] ELSE MaxRuns
      BY DEF Tally
    <3>4. runs[e] \in Nat
      BY DEF Data
    <3>5. ran'[x] = IF n <= MaxRuns THEN n ELSE MaxRuns
      BY <1>1, <1>4, <3>2, <3>3, <3>4
    <3>6. QED
      BY <3>1, <3>5
  <2>3. QED
    BY <2>1, <2>2
<1>9. QED
  BY <1>3, <1>7, <1>8

(* Whatever a run comes to, the stack stays in order. *)
LEMMA RunScheduledKeeps ==
  ASSUME Data, Tally, NEW e \in Effects, NEW stk, NEW d, MayRun(stk, d),
         RunScheduled(e, stk)
  PROVE  /\ Balanced(stack', d) /\ stack' # <<>> /\ panicking' \in BOOLEAN
         /\ dirty' \subseteq Effects /\ latched' \subseteq Effects /\ rerun' \subseteq Effects
         /\ counted' \subseteq Effects /\ runs' \in [Effects -> Nat]
         /\ ran' \in [Effects -> Nat] /\ Tally'
<1>1. latched' \subseteq Effects
  BY DEF RunScheduled, Data
<1>2. CASE /\ stack' = stk /\ dirty' = dirty /\ rerun' \in {rerun, rerun \cup {e}}
           /\ UNCHANGED <<guard, panicking>>
  BY <1>1, <1>2 DEF Data, Tally, MayRun, guard
<1>3. CASE dirty' = dirty \ {e} /\ CheckDivergence(e, stk) /\ rerun' = rerun
  <2>1. /\ counted' \subseteq Effects /\ runs' \in [Effects -> Nat]
        /\ ran' \in [Effects -> Nat] /\ Tally'
    BY <1>3, CheckDivergenceCounts
  <2>2. /\ stack' = stk \/ stack' = Append(stk, Frame("body", e))
        /\ panicking' \in BOOLEAN
    BY <1>3 DEF CheckDivergence, Data
  <2>3. Balanced(stack', d) /\ stack' # <<>>
    BY <2>2, BodyCalled DEF MayRun
  <2>4. QED
    BY <1>1, <1>3, <2>1, <2>2, <2>3 DEF Data
<1>4. QED
  BY <1>2, <1>3 DEF RunScheduled

-----------------------------------------------------------------------------
(* Every step keeps the invariant.                                         *)

(* A job is queued. *)
LEMMA ScheduleJobKeeps ==
  ASSUME IInv, NEW j \in Jobs, ScheduleJob(j)
  PROVE  IInv'
<1>1. pending' = Append(pending, j) /\ Arm
  BY DEF ScheduleJob, Enqueue
<1>2. pending' \in Seq(Jobs \cup Queued)
  BY <1>1 DEF IInv, Data
<1>3. armed' \in BOOLEAN /\ microtasks' \in Nat
  BY <1>1, ArmType DEF IInv
<1>4. UNCHANGED <<depth, marks, guard, stack, panicking>>
  BY DEF ScheduleJob
<1>5. Data'
  BY <1>2, <1>3, <1>4 DEF IInv, Data, marks, guard
<1>6. QED
  BY <1>4, <1>5 DEF IInv, Balanced, Idle, Tally, guard

(* An effect is invalidated. *)
LEMMA InvalidateKeeps ==
  ASSUME IInv, NEW e \in Effects, Invalidate(e)
  PROVE  IInv'
<1>1. Schedule(e) /\ dirty' = dirty \cup {e}
      /\ UNCHANGED <<depth, rerun, guard, stack, panicking>>
  BY DEF Invalidate
<1>2. /\ pending' \in Seq(Jobs \cup Queued) /\ armed' \in BOOLEAN /\ microtasks' \in Nat
      /\ latched' \subseteq Effects /\ held' \subseteq Held
  BY <1>1, ScheduleType DEF IInv
<1>3. Data'
  BY <1>1, <1>2 DEF IInv, Data, guard
<1>4. QED
  BY <1>1, <1>3 DEF IInv, Balanced, Idle, Tally, guard

(* User code may push a frame that opens a flush. *)
LEMMA CodeMayCall ==
  ASSUME IInv, GraphCode, NEW f \in Frames, f.kind \in GuardKinds \cup BracketKinds
  PROVE  /\ Balanced(Append(stack, f), depth + (IF f.kind \in GuardKinds THEN 1 ELSE 0))
         /\ Append(stack, f) # <<>> /\ WithCallback(Append(stack, f)) # <<>>
         /\ Balanced(WithCallback(Append(stack, f)),
                     depth + (IF f.kind \in GuardKinds THEN 1 ELSE 0))
<1>1. Balanced(stack, depth) /\ stack \in Seq(Frames)
  BY DEF IInv, Balanced
<1>2. stack # <<>> => Top = stack[Len(stack)]
  BY DEF Top, Idle
<1>3. Len(stack) > 0 => stack # <<>>
  BY <1>1, EmptySeq
<1>4. Callable(Len(stack), stack, f)
  BY <1>2, <1>3 DEF GraphCode, Callable, GuardKinds, BracketKinds
<1>5. PICK t : t = Append(stack, f)
  OBVIOUS
<1>6. /\ Balanced(t, depth + (IF f.kind \in GuardKinds THEN 1 ELSE 0))
      /\ t # <<>> /\ t[Len(t)] = f
  BY <1>1, <1>4, <1>5, Called
<1>7. f.kind # "callback"
  BY DEF GuardKinds, BracketKinds
<1>8. /\ Balanced(WithCallback(t), depth + (IF f.kind \in GuardKinds THEN 1 ELSE 0))
      /\ WithCallback(t) # <<>>
  BY <1>6, <1>7, CalledBack
<1>9. QED
  BY <1>5, <1>6, <1>8

(* flush_jobs, wherever it is called. *)
LEMMA FlushJobsKeeps ==
  ASSUME IInv, GraphCode, FlushJobs,
         UNCHANGED <<pending, depth, marks, runs, panicking>>,
         microtasks' \in Nat
  PROVE  IInv'
<1>1. CASE pending = <<>>
  <2>1. armed' = FALSE /\ UNCHANGED <<counted, ran, stack>>
    BY <1>1 DEF FlushJobs
  <2>2. Data'
    BY <2>1 DEF IInv, Data, marks
  <2>3. QED
    BY <2>1, <2>2 DEF IInv, Balanced, Idle, Tally
<1>2. CASE pending # <<>>
  <2>1. /\ counted' = IF depth = 0 THEN {} ELSE counted
        /\ Restart /\ armed' = armed
        /\ stack' = WithCallback(Append(stack, Frame("opening", None)))
    BY <1>2 DEF FlushJobs
  <2>2. /\ Frame("opening", None) \in Frames /\ Frame("opening", None).kind = "opening"
    BY FrameType DEF Kinds, WhoOf
  <2>3. "opening" \notin GuardKinds /\ "opening" \in BracketKinds
    BY DEF GuardKinds, BracketKinds
  <2>4. Balanced(stack', depth + 0) /\ stack' # <<>>
    BY <2>1, <2>2, <2>3, CodeMayCall
  <2>5. Balanced(stack', depth')
    BY <2>4, CodeInFlush DEF IInv
  <2>6. ~Idle => depth > 0
    BY CodeInFlush DEF IInv, GraphCode
  <2>7. counted' \subseteq Effects /\ ran' \in [Effects -> Nat] /\ Tally'
    BY <2>1, <2>6, OpensDrain DEF IInv
  <2>8. Data'
    BY <2>1, <2>7 DEF IInv, Data, marks
  <2>9. QED
    BY <2>4, <2>5, <2>7, <2>8 DEF IInv, Idle
<1>3. QED
  BY <1>1, <1>2

(* flush_now. *)
LEMMA FlushNowKeeps ==
  ASSUME IInv, FlushNow
  PROVE  IInv'
<1>1. /\ GraphCode /\ FlushJobs /\ microtasks' = microtasks
      /\ UNCHANGED <<pending, depth, marks, runs, panicking>>
  BY DEF FlushNow, MayOpen
<1>2. QED
  BY <1>1, FlushJobsKeeps DEF IInv, Data

(* The microtask. *)
LEMMA MicrotaskKeeps ==
  ASSUME IInv, Microtask
  PROVE  IInv'
<1>1. /\ Idle /\ FlushJobs /\ microtasks > 0 /\ microtasks' = microtasks - 1
      /\ UNCHANGED <<pending, depth, marks, runs, panicking>>
  BY DEF Microtask
<1>2. microtasks' \in Nat
  BY <1>1 DEF IInv, Data
<1>3. ~panicking
  BY <1>1 DEF IInv
<1>4. GraphCode
  BY <1>1, <1>3, CodeInFlush DEF IInv, GraphCode
<1>5. QED
  BY <1>1, <1>2, <1>4, FlushJobsKeeps

(* begin_flush under a guard. *)
LEMMA BeginFlushKeeps ==
  ASSUME IInv, GraphCode, NEW f \in Frames, f.kind \in GuardKinds, BeginFlush(f)
  PROVE  /\ Balanced(stack', depth') /\ stack' # <<>>
         /\ counted' \subseteq Effects /\ ran' \in [Effects -> Nat]
         /\ UNCHANGED runs => Tally'
<1>1. /\ depth' = depth + 1 /\ counted' = (IF depth = 0 THEN {} ELSE counted) /\ Restart
      /\ stack' = WithCallback(Append(stack, f)) \/ stack' = Append(stack, f)
  BY DEF BeginFlush
<1>2. Balanced(stack', depth + 1) /\ stack' # <<>>
  BY <1>1, CodeMayCall
<1>3. ~Idle => depth > 0
  BY CodeInFlush DEF IInv, GraphCode
<1>4. counted' \subseteq Effects /\ ran' \in [Effects -> Nat]
  BY <1>1 DEF IInv, Data, Restart
<1>5. UNCHANGED runs => Tally'
  BY <1>1, <1>3, OpensDrain DEF IInv
<1>6. QED
  BY <1>1, <1>2, <1>4, <1>5

(* external_flush. *)
LEMMA ExternalFlushKeeps ==
  ASSUME IInv, ExternalFlush
  PROVE  IInv'
<1> DEFINE f == Frame("external", None)
<1>1. GraphCode /\ BeginFlush(f) /\ UNCHANGED <<queue, marks, runs, panicking>>
  BY DEF ExternalFlush, MayOpen
<1>2. f \in Frames /\ f.kind \in GuardKinds
  BY FrameType DEF Kinds, WhoOf, GuardKinds
<1> HIDE DEF f
<1>3. /\ Balanced(stack', depth') /\ stack' # <<>>
      /\ counted' \subseteq Effects /\ ran' \in [Effects -> Nat] /\ Tally'
  BY <1>1, <1>2, BeginFlushKeeps
<1>4. Data'
  BY <1>1, <1>3 DEF IInv, Data, queue, marks
<1>5. QED
  BY <1>3, <1>4 DEF IInv, Idle

(* EffectRun::run, inside a flush and by itself. *)
LEMMA RunHeldKeeps ==
  ASSUME IInv, NEW e \in Effects, RunHeld(e)
  PROVE  IInv'
<1>1. GraphCode /\ held' = held \ {e} /\ UNCHANGED queue
  BY DEF RunHeld, MayOpen
<1>2. CASE depth > 0 /\ RunScheduled(e, stack) /\ UNCHANGED depth
  <2>1. ~Idle
    BY <1>2, CodeInFlush DEF IInv
  <2>2. Top = stack[Len(stack)] /\ stack # <<>>
    BY <2>1 DEF Top, Idle
  <2>3. MayRun(stack, depth)
    BY <1>1, <1>2, <2>2, CodeInFlush DEF MayRun, IInv, GraphCode, BracketKinds
  <2>4. /\ Balanced(stack', depth) /\ stack' # <<>> /\ panicking' \in BOOLEAN
        /\ dirty' \subseteq Effects /\ latched' \subseteq Effects /\ rerun' \subseteq Effects
        /\ counted' \subseteq Effects /\ runs' \in [Effects -> Nat]
        /\ ran' \in [Effects -> Nat] /\ Tally'
    BY <1>2, <2>3, RunScheduledKeeps DEF IInv
  <2>5. Data'
    BY <1>1, <2>4 DEF IInv, Data, queue
  <2>6. QED
    BY <1>2, <2>4, <2>5 DEF IInv, Idle
<1>3. CASE /\ BeginFlush(Frame("single", e))
           /\ UNCHANGED <<dirty, latched, rerun, runs, panicking>>
  <2>1. Frame("single", e) \in Frames /\ Frame("single", e).kind \in GuardKinds
    BY FrameType DEF Kinds, WhoOf, GuardKinds
  <2>2. /\ Balanced(stack', depth') /\ stack' # <<>>
        /\ counted' \subseteq Effects /\ ran' \in [Effects -> Nat] /\ Tally'
    BY <1>1, <1>3, <2>1, BeginFlushKeeps
  <2>3. Data'
    BY <1>1, <1>3, <2>2 DEF IInv, Data, queue
  <2>4. QED
    BY <2>2, <2>3 DEF IInv, Idle
<1>4. QED
  BY <1>2, <1>3 DEF RunHeld

(* The flush is open: its guard takes the place of the opening. *)
LEMMA EnterLoopKeeps ==
  ASSUME IInv, EnterLoop
  PROVE  IInv'
<1> DEFINE f == Frame("drain", None)
<1>1. /\ ~panicking /\ Top.kind = "opening" /\ depth' = depth + 1 /\ stack' = Retop(f)
      /\ UNCHANGED <<queue, marks, guard, panicking>>
  BY DEF EnterLoop, On
<1>2. ~Idle
  BY <1>1, CodeInFlush DEF IInv
<1>3. f \in Frames /\ f.kind = "drain"
  BY FrameType DEF Kinds, WhoOf
<1> HIDE DEF f
<1>4. PICK d \in Nat :
        /\ Balanced(Pop, d) /\ depth = d + (IF Top.kind \in GuardKinds THEN 1 ELSE 0)
        /\ Callable(Len(Pop), Pop, Top) /\ Len(Pop) \in Nat
        /\ Retop(f) = Append(Pop, f)
  BY <1>2, <1>3, TopFrame DEF IInv
<1>5. depth = d
  BY <1>1, <1>4 DEF GuardKinds
<1>6. Callable(Len(Pop), Pop, f)
  BY <1>1, <1>3, <1>4, CallableInstead DEF GuardKinds
<1>7. Balanced(stack', d + 1) /\ stack' # <<>>
  BY <1>1, <1>3, <1>4, <1>6, Called DEF GuardKinds
<1>8. QED
  BY <1>1, <1>5, <1>7 DEF IInv, Data, Tally, Idle, queue, marks, guard

(* The first job of the queue. *)
LEMMA RunJobKeeps ==
  ASSUME IInv, RunJob
  PROVE  IInv'
<1>1. /\ ~panicking /\ Top.kind = "drain" /\ pending # <<>> /\ pending' = Tail(pending)
      /\ UNCHANGED <<armed, microtasks, depth, held>>
  BY DEF RunJob, On
<1>2. Head(pending) \in Jobs \cup Queued /\ pending' \in Seq(Jobs \cup Queued)
  BY <1>1, HeadTailProperties DEF IInv, Data
<1>3. ~Idle
  BY <1>1, CodeInFlush DEF IInv
<1>4. Top = stack[Len(stack)] /\ stack # <<>>
  BY <1>3 DEF Top, Idle
<1>5. PICK d \in Nat : depth = d + (IF Top.kind \in GuardKinds THEN 1 ELSE 0)
  BY <1>3, TopFrame DEF IInv
<1>6. MayRun(stack, depth)
  BY <1>1, <1>4, <1>5 DEF MayRun, IInv, GuardKinds, BracketKinds
<1>7. CASE Head(pending) \in Jobs
  <2> DEFINE f == Frame("job", Head(pending))
  <2>1. stack' = Append(stack, f) /\ UNCHANGED <<dirty, latched, rerun, guard, panicking>>
    BY <1>7 DEF RunJob
  <2>2. f \in Frames /\ f.kind = "job" /\ f.kind \notin GuardKinds
    BY <1>7, FrameType DEF Kinds, WhoOf, GuardKinds
  <2> HIDE DEF f
  <2>3. Guards(stack) # {}
    BY <1>6, FS_EmptySet DEF MayRun, Balanced
  <2>4. Len(stack) > 0
    BY <1>4, EmptySeq DEF IInv, Balanced
  <2>5. Callable(Len(stack), stack, f)
    BY <1>1, <1>4, <2>2, <2>3, <2>4 DEF Callable, BracketKinds
  <2>6. Balanced(stack', depth + 0) /\ stack' # <<>>
    BY <2>1, <2>2, <2>5, Called DEF IInv
  <2>7. Balanced(stack', depth')
    BY <1>1, <1>6, <2>6 DEF MayRun
  <2>8. Data'
    BY <1>1, <1>2, <2>1 DEF IInv, Data, guard
  <2>9. QED
    BY <2>1, <2>6, <2>7, <2>8 DEF IInv, Tally, Idle, guard
<1>8. CASE Head(pending) \notin Jobs
  <2>1. Head(pending) \in Effects /\ RunScheduled(Head(pending), stack)
    BY <1>2, <1>8 DEF RunJob, Effects
  <2>2. /\ Balanced(stack', depth) /\ stack' # <<>> /\ panicking' \in BOOLEAN
        /\ dirty' \subseteq Effects /\ latched' \subseteq Effects /\ rerun' \subseteq Effects
        /\ counted' \subseteq Effects /\ runs' \in [Effects -> Nat]
        /\ ran' \in [Effects -> Nat] /\ Tally'
    BY <1>6, <2>1, RunScheduledKeeps DEF IInv
  <2>3. Data'
    BY <1>1, <1>2, <2>2 DEF IInv, Data
  <2>4. QED
    BY <1>1, <2>2, <2>3 DEF IInv, Idle
<1>9. QED
  BY <1>7, <1>8

(* A guard ends its flush: another frame, not a guard, takes its place, and *)
(* FlushFinished is delivered on top of it.                                *)
LEMMA GuardEnds ==
  ASSUME IInv, Top.kind \in GuardKinds, NEW f \in Frames, f.kind \in BracketKinds
  PROVE  Balanced(WithCallback(Retop(f)), depth - 1) /\ WithCallback(Retop(f)) # <<>>
<1>1. ~Idle
  BY CodeInFlush DEF IInv, GuardKinds
<1>2. PICK d \in Nat :
        /\ Balanced(Pop, d) /\ depth = d + (IF Top.kind \in GuardKinds THEN 1 ELSE 0)
        /\ Callable(Len(Pop), Pop, Top) /\ Len(Pop) \in Nat
        /\ Retop(f) = Append(Pop, f)
  BY <1>1, TopFrame DEF IInv
<1>3. d = depth - 1
  BY <1>2
<1>4. f.kind \notin GuardKinds /\ f.kind # "callback" /\ Top.kind # "callback"
  BY DEF GuardKinds, BracketKinds
<1>5. Callable(Len(Pop), Pop, f)
  BY <1>2, <1>4, CallableInstead
<1>6. PICK t : t = Append(Pop, f)
  OBVIOUS
<1>7. Balanced(t, d + 0) /\ t # <<>> /\ t[Len(t)] = f
  BY <1>2, <1>4, <1>5, <1>6, Called
<1>8. Balanced(WithCallback(t), d + 0) /\ WithCallback(t) # <<>>
  BY <1>4, <1>7, CalledBack
<1>9. d + 0 = depth - 1
  BY <1>2, <1>3
<1>10. QED
  BY <1>2, <1>6, <1>8, <1>9

(* The loop of a flush ends or is unwound. *)
LEMMA CloseDrainKeeps ==
  ASSUME IInv, CloseDrain
  PROVE  IInv'
<1>1. /\ Top.kind = "drain" /\ depth' = depth - 1 /\ panicking' = FALSE
      /\ stack' = WithCallback(Retop(Guarding("closing")))
      /\ UNCHANGED <<queue, marks, guard>>
  BY DEF CloseDrain, On
<1>2. Guarding("closing") \in Frames /\ Guarding("closing").kind = "closing"
  BY GuardingType DEF IInv, Data
<1>3. Balanced(stack', depth') /\ stack' # <<>>
  BY <1>1, <1>2, GuardEnds DEF GuardKinds, BracketKinds
<1>4. Data'
  BY <1>1 DEF IInv, Data, queue, marks, guard
<1>5. QED
  BY <1>1, <1>3, <1>4 DEF IInv, Tally, Idle, guard

(* A frame is popped, with the guard that it may be. *)
LEMMA FrameReturns ==
  ASSUME IInv, ~Idle
  PROVE  /\ Balanced(Pop, depth - (IF Top.kind \in GuardKinds THEN 1 ELSE 0))
         /\ Len(stack) > 1 => Pop # <<>>
         /\ Top.kind = "callback" => Pop # <<>> /\ Pop[Len(Pop)] \in Frames
         /\ Top \in Frames
<1>1. PICK d \in Nat :
        /\ Balanced(Pop, d) /\ depth = d + (IF Top.kind \in GuardKinds THEN 1 ELSE 0)
        /\ Pop # <<>> <=> Len(stack) > 1
        /\ Top.kind = "callback" => Pop # <<>>
        /\ Top \in Frames
  BY TopFrame DEF IInv
<1>2. d = depth - (IF Top.kind \in GuardKinds THEN 1 ELSE 0)
  BY <1>1
<1>3. Pop # <<>> => Pop[Len(Pop)] \in Frames
  <2>1. Pop \in Seq(Frames)
    BY <1>1 DEF Balanced
  <2>2. Pop # <<>> => Len(Pop) \in 1 .. Len(Pop)
    BY <2>1, EmptySeq
  <2>3. QED
    BY <2>1, <2>2, ElementOfSeq
<1>4. QED
  BY <1>1, <1>2, <1>3

(* A frame that is no guard is popped and the depth stays. *)
LEMMA PlainReturns ==
  ASSUME IInv, ~Idle, Top.kind \notin GuardKinds, UNCHANGED depth, stack' = Pop
  PROVE  Balanced(stack', depth')
<1>1. Balanced(Pop, depth - 0)
  BY FrameReturns
<1>2. depth - 0 = depth
  BY CodeInFlush DEF IInv
<1>3. QED
  BY <1>1, <1>2

(* The second half of a guard: jobs that are left get a microtask. *)
LEMMA FinishDrainKeeps ==
  ASSUME IInv, FinishDrain
  PROVE  IInv'
<1>1. /\ Top.kind = "closing" /\ armed' = (pending # <<>>)
      /\ microtasks' = IF pending # <<>> THEN microtasks + 1 ELSE microtasks
      /\ stack' = Pop /\ panicking' = (Top.unwinding /\ Len(stack) > 1)
      /\ UNCHANGED <<pending, depth, marks, guard>>
  BY DEF FinishDrain, On, Leave
<1>2. ~Idle /\ Top.kind \notin GuardKinds
  BY <1>1, CodeInFlush DEF IInv, GuardKinds
<1>3. Balanced(stack', depth')
  BY <1>1, <1>2, PlainReturns
<1>4. panicking' \in BOOLEAN /\ (panicking' => stack' # <<>>)
  BY <1>1, <1>2, FrameReturns
<1>5. armed' \in BOOLEAN
  BY <1>1
<1>6. microtasks' \in Nat
  BY <1>1 DEF IInv, Data
<1>7. Data'
  BY <1>1, <1>4, <1>5, <1>6 DEF IInv, Data, marks, guard
<1>8. QED
  BY <1>1, <1>3, <1>4, <1>7 DEF IInv, Tally, Idle, guard

(* The effect of a lone run. *)
LEMMA RunSingleKeeps ==
  ASSUME IInv, RunSingle
  PROVE  IInv'
<1> DEFINE f == Frame("single", None)
<1>1. /\ Top.kind = "single" /\ Top.who # None /\ RunScheduled(Top.who, Retop(f))
      /\ UNCHANGED <<queue, depth, held>>
  BY DEF RunSingle, On
<1>2. ~Idle
  BY <1>1, CodeInFlush DEF IInv
<1>3. f \in Frames /\ f.kind = "single" /\ f.kind \in GuardKinds
  BY FrameType DEF Kinds, WhoOf, GuardKinds
<1> HIDE DEF f
<1>4. PICK d \in Nat :
        /\ Balanced(Pop, d) /\ depth = d + (IF Top.kind \in GuardKinds THEN 1 ELSE 0)
        /\ Top \in Frames
        /\ Callable(Len(Pop), Pop, Top) /\ Len(Pop) \in Nat
        /\ Retop(f) = Append(Pop, f)
  BY <1>2, <1>3, TopFrame DEF IInv
<1>5. depth = d + 1
  BY <1>1, <1>4 DEF GuardKinds
<1>6. Callable(Len(Pop), Pop, f)
  BY <1>1, <1>3, <1>4, CallableInstead DEF GuardKinds
<1>7. PICK t : t = Append(Pop, f)
  OBVIOUS
<1>8. Balanced(t, d + 1) /\ t # <<>> /\ t[Len(t)] = f
  BY <1>3, <1>4, <1>6, <1>7, Called
<1>9. MayRun(t, depth)
  BY <1>3, <1>5, <1>8 DEF MayRun, BracketKinds
<1>10. Top.who \in Effects
  BY <1>1, <1>4 DEF Frames, WhoOf
<1>11. /\ Balanced(stack', depth) /\ stack' # <<>> /\ panicking' \in BOOLEAN
       /\ dirty' \subseteq Effects /\ latched' \subseteq Effects /\ rerun' \subseteq Effects
       /\ counted' \subseteq Effects /\ runs' \in [Effects -> Nat]
       /\ ran' \in [Effects -> Nat] /\ Tally'
  BY <1>1, <1>4, <1>7, <1>9, <1>10, RunScheduledKeeps DEF IInv
<1>12. Data'
  BY <1>1, <1>11 DEF IInv, Data, queue
<1>13. QED
  BY <1>1, <1>11, <1>12 DEF IInv, Idle

(* end_flush, which a guard calls. *)
LEMMA EndFlushKeeps ==
  ASSUME IInv, EndFlush
  PROVE  IInv'
<1>1. /\ Top.kind \in {"external", "single"} /\ depth' = depth - 1
      /\ UNCHANGED <<queue, marks, guard>>
  BY DEF EndFlush, On
<1>2. ~Idle /\ Top.kind \in GuardKinds
  BY <1>1, CodeInFlush DEF IInv, GuardKinds
<1>3. /\ Balanced(stack', depth') /\ panicking' \in BOOLEAN
      /\ panicking' => stack' # <<>>
  <2>1. CASE depth = 1
    <3>1. stack' = WithCallback(Retop(Guarding("ended"))) /\ panicking' = FALSE
      BY <2>1 DEF EndFlush
    <3>2. Guarding("ended") \in Frames /\ Guarding("ended").kind = "ended"
      BY GuardingType DEF IInv, Data
    <3>3. QED
      BY <1>1, <1>2, <3>1, <3>2, GuardEnds DEF BracketKinds
  <2>2. CASE depth # 1
    <3>1. stack' = Pop /\ panicking' = (panicking /\ Len(stack) > 1)
      BY <2>2 DEF EndFlush
    <3>2. QED
      BY <1>1, <1>2, <3>1, FrameReturns
  <2>3. QED
    BY <2>1, <2>2
<1>4. Data'
  BY <1>1, <1>3 DEF IInv, Data, queue, marks, guard
<1>5. QED
  BY <1>1, <1>3, <1>4 DEF IInv, Tally, Idle, guard

(* What follows end_flush. *)
LEMMA FlushEndedKeeps ==
  ASSUME IInv, FlushEnded
  PROVE  IInv'
<1>1. /\ Top.kind = "ended" /\ stack' = Pop
      /\ panicking' = (Top.unwinding /\ Len(stack) > 1)
      /\ UNCHANGED <<queue, depth, marks, guard>>
  BY DEF FlushEnded, On, Leave
<1>2. ~Idle /\ Top.kind \notin GuardKinds
  BY <1>1, CodeInFlush DEF IInv, GuardKinds
<1>3. Balanced(stack', depth')
  BY <1>1, <1>2, PlainReturns
<1>4. panicking' \in BOOLEAN /\ (panicking' => stack' # <<>>)
  BY <1>1, <1>2, FrameReturns
<1>5. Data'
  BY <1>1, <1>4 DEF IInv, Data, queue, marks, guard
<1>6. QED
  BY <1>1, <1>3, <1>4, <1>5 DEF IInv, Tally, Idle, guard

(* A job or a callback returns. *)
LEMMA ReturnKeeps ==
  ASSUME IInv, Return
  PROVE  IInv'
<1>1. /\ ~panicking /\ Top.kind \in {"job", "callback"} /\ stack' = Pop
      /\ UNCHANGED <<queue, depth, marks, guard, panicking>>
  BY DEF Return, On
<1>2. ~Idle /\ Top.kind \notin GuardKinds
  BY <1>1, CodeInFlush DEF IInv, GuardKinds
<1>3. Balanced(stack', depth')
  BY <1>1, <1>2, PlainReturns
<1>4. Data'
  BY <1>1 DEF IInv, Data, queue, marks, guard
<1>5. QED
  BY <1>1, <1>3, <1>4 DEF IInv, Tally, Idle, guard

(* A body returns, and a run that is owed is queued. *)
LEMMA BodyReturnKeeps ==
  ASSUME IInv, BodyReturn
  PROVE  IInv'
<1>1. /\ ~panicking /\ Top.kind = "body" /\ stack' = Pop /\ rerun' = rerun \ {Top.who}
      /\ IF Top.who \in rerun THEN Schedule(Top.who) ELSE UNCHANGED <<queue, latched, held>>
      /\ UNCHANGED <<depth, dirty, guard, panicking>>
  BY DEF BodyReturn, On
<1>2. ~Idle /\ Top.kind \notin GuardKinds
  BY <1>1, CodeInFlush DEF IInv, GuardKinds
<1>3. Balanced(stack', depth')
  BY <1>1, <1>2, PlainReturns
<1>4. /\ pending' \in Seq(Jobs \cup Queued) /\ armed' \in BOOLEAN /\ microtasks' \in Nat
      /\ latched' \subseteq Effects /\ held' \subseteq Held
  <2>1. CASE Top.who \in rerun
    BY <1>1, <2>1, ScheduleType DEF IInv, Data
  <2>2. CASE Top.who \notin rerun
    BY <1>1, <2>2 DEF IInv, Data, queue
  <2>3. QED
    BY <2>1, <2>2
<1>5. Data'
  BY <1>1, <1>4 DEF IInv, Data, guard
<1>6. QED
  BY <1>1, <1>3, <1>5 DEF IInv, Tally, Idle, guard

(* A closure panics. *)
LEMMA PanicKeeps ==
  ASSUME IInv, Panic
  PROVE  IInv'
<1>1. panicking' = TRUE /\ UNCHANGED <<queue, depth, marks, guard, stack>>
  BY DEF Panic
<1>2. Top.kind # "host"
  BY LimitsAssumption DEF Panic
<1>3. ~Idle
  BY <1>2, CodeInFlush DEF IInv
<1>4. Data'
  BY <1>1 DEF IInv, Data, queue, marks, guard
<1>5. QED
  BY <1>1, <1>3, <1>4 DEF IInv, Balanced, Tally, Idle, guard

(* A callback is unwound; its panic may be swallowed. *)
LEMMA UnwindCallbackKeeps ==
  ASSUME IInv, UnwindCallback
  PROVE  IInv'
<1>1. /\ Top.kind = "callback" /\ stack' = Pop
      /\ panicking' = ~Pop[Len(Pop)].unwinding
      /\ UNCHANGED <<queue, depth, marks, guard>>
  BY DEF UnwindCallback, On
<1>2. ~Idle /\ Top.kind \notin GuardKinds
  BY <1>1, CodeInFlush DEF IInv, GuardKinds
<1>3. Balanced(stack', depth') /\ stack' # <<>> /\ panicking' \in BOOLEAN
  BY <1>1, <1>2, PlainReturns, FrameReturns
<1>4. Data'
  BY <1>1, <1>3 DEF IInv, Data, queue, marks, guard
<1>5. QED
  BY <1>1, <1>3, <1>4 DEF IInv, Tally, Idle, guard

(* Another frame is unwound. *)
LEMMA UnwindFrameKeeps ==
  ASSUME IInv, UnwindFrame
  PROVE  IInv'
<1>1. /\ Top.kind \in {"opening", "closing", "ended", "job", "body"} /\ stack' = Pop
      /\ panicking' = (Len(stack) > 1)
      /\ UNCHANGED <<queue, depth, marks, guard>>
  BY DEF UnwindFrame
<1>2. ~Idle /\ Top.kind \notin GuardKinds
  BY <1>1, CodeInFlush DEF IInv, GuardKinds
<1>3. Balanced(stack', depth')
  BY <1>1, <1>2, PlainReturns
<1>4. panicking' \in BOOLEAN
  BY <1>1
<1>5. panicking' => stack' # <<>>
  BY <1>1, <1>2, FrameReturns
<1>6. Data'
  BY <1>1, <1>4 DEF IInv, Data, queue, marks, guard
<1>7. QED
  BY <1>1, <1>3, <1>5, <1>6 DEF IInv, Tally, Idle, guard

(* The initial state satisfies the invariant. *)
LEMMA InitIInv == Init => IInv
<1> SUFFICES ASSUME Init PROVE IInv
  OBVIOUS
<1>1. Data
  <2>1. pending \in Seq(Jobs \cup Queued)
    BY DEF Init
  <2>2. armed \in BOOLEAN /\ panicking \in BOOLEAN
    BY DEF Init
  <2>3. runs \in [Effects -> Nat] /\ ran \in [Effects -> Nat] /\ microtasks \in Nat
    BY DEF Init
  <2>4. QED
    BY <2>1, <2>2, <2>3 DEF Init, Data
<1>2. Guards(<<>>) = {} /\ WellNested(<<>>)
  BY DEF Guards, WellNested
<1>3. Balanced(stack, depth)
  BY <1>2, FS_EmptySet DEF Init, Balanced
<1>4. QED
  BY <1>1, <1>3 DEF Init, IInv, Tally

(* Every step keeps it. *)
LEMMA NextIInv == IInv /\ [Next]_vars => IInv'
<1> SUFFICES ASSUME IInv, [Next]_vars PROVE IInv'
  OBVIOUS
<1>1. CASE UNCHANGED vars
  BY <1>1 DEF IInv, Data, Balanced, Tally, Idle, vars, queue, marks, guard
<1>2. CASE \E j \in Jobs : ScheduleJob(j)
  BY <1>2, ScheduleJobKeeps
<1>3. CASE \E e \in Effects : Invalidate(e)
  BY <1>3, InvalidateKeeps
<1>4. CASE \E e \in Effects : RunHeld(e)
  BY <1>4, RunHeldKeeps
<1>5. CASE FlushNow \/ Microtask \/ ExternalFlush \/ Panic
  BY <1>5, FlushNowKeeps, MicrotaskKeeps, ExternalFlushKeeps, PanicKeeps
<1>6. CASE EnterLoop \/ RunJob \/ CloseDrain \/ FinishDrain
  BY <1>6, EnterLoopKeeps, RunJobKeeps, CloseDrainKeeps, FinishDrainKeeps
<1>7. CASE RunSingle \/ EndFlush \/ FlushEnded
  BY <1>7, RunSingleKeeps, EndFlushKeeps, FlushEndedKeeps
<1>8. CASE Return \/ BodyReturn \/ UnwindCallback \/ UnwindFrame
  BY <1>8, ReturnKeeps, BodyReturnKeeps, UnwindCallbackKeeps, UnwindFrameKeeps
<1>9. QED
  BY <1>1, <1>2, <1>3, <1>4, <1>5, <1>6, <1>7, <1>8 DEF Next, Continue

(* So it always holds. *)
LEMMA Inductive == Spec => []IInv
BY InitIInv, NextIInv, PTL DEF Spec

-----------------------------------------------------------------------------
(* What follows.                                                           *)

(* The history variable is apart: no other variable depends on it.          *)
LEMMA AbandonedIsBoolean == Spec => [](abandoned \in BOOLEAN)
<1>1. Init => abandoned \in BOOLEAN
  BY DEF Init
<1>2. abandoned \in BOOLEAN /\ [Next]_vars => (abandoned \in BOOLEAN)'
  <2> SUFFICES ASSUME abandoned \in BOOLEAN, [Next]_vars PROVE abandoned' \in BOOLEAN
    OBVIOUS
  <2>1. CASE FlushNow \/ Microtask \/ FinishDrain \/ UnwindFrame
    BY <2>1 DEF FlushNow, Microtask, FlushJobs, FinishDrain, UnwindFrame
  <2>2. CASE abandoned' = abandoned
    BY <2>2
  <2>3. QED
    BY <2>1, <2>2 DEF Next, Continue, vars, ScheduleJob, Invalidate, RunHeld, ExternalFlush,
       Panic, EnterLoop, RunJob, CloseDrain, RunSingle, EndFlush, FlushEnded, Return,
       BodyReturn, UnwindCallback
<1>3. QED
  BY <1>1, <1>2, PTL DEF Spec

(* Every variable keeps its type; a panic is in flight only while there is  *)
(* a frame to unwind.                                                      *)
THEOREM TypeCorrect == Spec => []TypeOK
<1>1. IInv /\ abandoned \in BOOLEAN => TypeOK
  BY CodeInFlush DEF IInv, Data, Balanced, TypeOK
<1>2. QED
  BY <1>1, Inductive, AbandonedIsBoolean, PTL

(* flush_depth is the number of flushes on the stack, whatever unwound.     *)
THEOREM DepthCorrect == Spec => []DepthMatches
<1>1. IInv => DepthMatches
  BY DEF IInv, Balanced, DepthMatches, Guards, GuardKinds
<1>2. QED
  BY <1>1, Inductive, PTL

(* No effect runs more often than the limit in one outermost flush, nested  *)
(* flushes included.                                                       *)
THEOREM BoundedRuns == Spec => []RunsAreBounded
<1>1. IInv => RunsAreBounded
  BY LimitsAssumption DEF IInv, Data, Tally, RunsAreBounded
<1>2. QED
  BY <1>1, Inductive, PTL

(* Only the guard changes the counters. *)
LEMMA RunsChange ==
  ASSUME IInv, [Next]_vars
  PROVE  \/ UNCHANGED runs
         \/ \E e \in Effects : \E stk : CheckDivergence(e, stk)
<1>1. ASSUME NEW e, NEW stk, RunScheduled(e, stk)
      PROVE  runs' = runs \/ CheckDivergence(e, stk)
  BY <1>1 DEF RunScheduled, guard
<1>2. CASE UNCHANGED vars
  BY <1>2 DEF vars, guard
<1>3. CASE \E e \in Effects : RunHeld(e)
  BY <1>1, <1>3 DEF RunHeld
<1>4. CASE RunJob
  <2>1. Head(pending) \in Jobs \cup Queued
    BY <1>4, HeadTailProperties DEF RunJob, IInv, Data
  <2>2. CASE Head(pending) \in Jobs
    BY <1>4, <2>2 DEF RunJob, guard
  <2>3. CASE Head(pending) \notin Jobs
    BY <1>1, <1>4, <2>1, <2>3 DEF RunJob, Effects
  <2>4. QED
    BY <2>2, <2>3
<1>5. CASE RunSingle
  <2>1. ~Idle /\ Top.kind = "single" /\ Top.who # None
    BY <1>5, CodeInFlush DEF RunSingle, On, IInv
  <2>2. Top \in Frames
    BY <2>1, FrameReturns
  <2>3. Top.who \in Effects
    BY <2>1, <2>2 DEF Frames, WhoOf
  <2>4. QED
    BY <1>1, <1>5, <2>3 DEF RunSingle
<1>6. CASE \/ \E j \in Jobs : ScheduleJob(j)
           \/ \E e \in Effects : Invalidate(e)
           \/ FlushNow \/ Microtask \/ ExternalFlush \/ Panic
  BY <1>6 DEF ScheduleJob, Invalidate, FlushNow, Microtask, ExternalFlush, Panic, guard
<1>7. CASE \/ EnterLoop \/ CloseDrain \/ FinishDrain \/ EndFlush \/ FlushEnded
           \/ Return \/ BodyReturn \/ UnwindCallback \/ UnwindFrame
  BY <1>7 DEF EnterLoop, CloseDrain, FinishDrain, EndFlush, FlushEnded,
              Return, BodyReturn, UnwindCallback, UnwindFrame, guard
<1>8. QED
  BY <1>2, <1>3, <1>4, <1>5, <1>6, <1>7 DEF Next, Continue

(* The guard fires at an effect only if that effect has run as often as the *)
(* limit allows since the outermost flush began.                           *)
THEOREM RealDivergence == Spec => DivergenceIsReal
<1>1. ASSUME IInv, [Next]_vars, NEW e \in Effects, runs'[e] > runs[e], runs'[e] > MaxRuns
      PROVE  ran[e] >= MaxRuns
  <2>1. PICK x \in Effects : \E stk : CheckDivergence(x, stk)
    BY <1>1, RunsChange DEF IInv, Data
  <2>2. runs' = [runs EXCEPT ![x] = IF x \in counted THEN runs[x] + 1 ELSE 1]
    BY <2>1 DEF CheckDivergence
  <2>3. x = e
    BY <1>1, <2>2 DEF IInv, Data
  <2>4. runs'[e] = IF e \in counted THEN runs[e] + 1 ELSE 1
    BY <1>1, <2>2, <2>3 DEF IInv, Data
  <2>5. MaxRuns \in Nat \ {0} /\ runs[e] \in Nat
    BY LimitsAssumption, <1>1 DEF IInv, Data
  <2>6. e \in counted /\ runs[e] >= MaxRuns
    BY <1>1, <2>4, <2>5
  <2>7. ran[e] = MaxRuns
    BY <1>1, <2>5, <2>6 DEF IInv, Tally
  <2>8. QED
    BY <2>5, <2>7
<1>2. IInv /\ [Next]_vars =>
        [ \A e \in Effects : runs'[e] > runs[e] /\ runs'[e] > MaxRuns => ran[e] >= MaxRuns ]_vars
  BY <1>1
<1>3. QED
  BY <1>2, Inductive, PTL DEF Spec, DivergenceIsReal

-----------------------------------------------------------------------------
(* No job stalls, unless a diagnostic callback panics.                     *)

SpanKinds == {"opening", "drain", "closing"}
Spans(s)  == \E i \in DOMAIN s : s[i].kind \in SpanKinds

(* Somebody will get to the queue. *)
Attended ==
  /\ armed => microtasks > 0 \/ Spans(stack) \/ abandoned
  /\ pending # <<>> => armed \/ Spans(stack) \/ abandoned

PInv == IInv /\ Attended

(* What calling a frame does to the spans on the stack. *)
LEMMA SpansCall ==
  ASSUME NEW s \in Seq(Frames), NEW f \in Frames
  PROVE  Spans(Append(s, f)) <=> Spans(s) \/ f.kind \in SpanKinds
<1>1. PICK n \in Nat : n = Len(s)
  OBVIOUS
<1>2. PICK t : t = Append(s, f)
  OBVIOUS
<1>3. t \in Seq(Frames) /\ Len(t) = n + 1 /\ t[n + 1] = f /\ \A i \in 1 .. n : t[i] = s[i]
  BY <1>1, <1>2
<1>4. DOMAIN s = 1 .. n /\ DOMAIN t = 1 .. n + 1
  BY <1>1, <1>3, LenProperties
<1>5. ASSUME Spans(s) PROVE Spans(t)
  BY <1>3, <1>4, <1>5 DEF Spans
<1>6. ASSUME f.kind \in SpanKinds PROVE Spans(t)
  BY <1>3, <1>4, <1>6 DEF Spans
<1>7. ASSUME Spans(t), f.kind \notin SpanKinds PROVE Spans(s)
  <2>1. PICK i \in 1 .. n + 1 : t[i].kind \in SpanKinds
    BY <1>4, <1>7 DEF Spans
  <2>2. i # n + 1
    BY <1>3, <1>7, <2>1
  <2>3. i \in 1 .. n
    BY <2>1, <2>2
  <2>4. QED
    BY <1>3, <1>4, <2>1, <2>3 DEF Spans
<1>8. QED
  BY <1>2, <1>5, <1>6, <1>7

(* A callback opens nothing. *)
LEMMA SpansCallback ==
  ASSUME NEW s \in Seq(Frames)
  PROVE  Spans(WithCallback(s)) <=> Spans(s)
<1>1. /\ Frame("callback", None) \in Frames /\ Frame("callback", None).kind = "callback"
  BY FrameType DEF Kinds, WhoOf
<1>2. Spans(Append(s, Frame("callback", None))) <=> Spans(s)
  BY <1>1, SpansCall DEF SpanKinds
<1>3. QED
  BY <1>2 DEF WithCallback

(* So does calling a frame that is no part of a flush of the queue. *)
LEMMA SpansOther ==
  ASSUME NEW s \in Seq(Frames), NEW f \in Frames, f.kind \notin SpanKinds
  PROVE  /\ Spans(Append(s, f)) <=> Spans(s)
         /\ Spans(WithCallback(Append(s, f))) <=> Spans(s)
<1>1. PICK t : t = Append(s, f)
  OBVIOUS
<1>2. t \in Seq(Frames)
  BY <1>1
<1>3. Spans(t) <=> Spans(s)
  BY <1>1, SpansCall
<1>4. Spans(WithCallback(t)) <=> Spans(t)
  BY <1>2, SpansCallback
<1>5. QED
  BY <1>1, <1>3, <1>4

(* The spans on the stack: the frame on top and those below it. *)
LEMMA SpansTop ==
  ASSUME IInv, ~Idle
  PROVE  /\ Pop \in Seq(Frames)
         /\ Spans(stack) <=> Spans(Pop) \/ Top.kind \in SpanKinds
         /\ \A f \in Frames :
              /\ Retop(f) \in Seq(Frames)
              /\ Spans(Retop(f)) <=> Spans(Pop) \/ f.kind \in SpanKinds
<1>1. Pop \in Seq(Frames) /\ Top \in Frames /\ \A f \in Frames : Retop(f) = Append(Pop, f)
  BY TopFrame DEF IInv, Balanced
<1>2. Retop(Top) = stack
  <2>1. Len(stack) \in 1 .. Len(stack) /\ stack \in Seq(Frames) /\ stack # <<>>
    BY EmptySeq DEF IInv, Balanced, Idle
  <2>2. Top = stack[Len(stack)]
    BY DEF Top
  <2>3. PICK a : a = [stack EXCEPT ![Len(stack)] = stack[Len(stack)]]
    OBVIOUS
  <2>4. /\ a \in Seq(Frames) /\ Len(a) = Len(stack)
        /\ \A i \in 1 .. Len(stack) : a[i] = stack[i]
    BY <1>1, <2>1, <2>2, <2>3, ExceptSeq
  <2>5. a = stack
    BY <2>1, <2>4, SeqEqual
  <2>6. QED
    BY <2>2, <2>3, <2>5 DEF Retop
<1>3. \A f \in Frames : Append(Pop, f) \in Seq(Frames)
  BY <1>1
<1>4. \A f \in Frames : Spans(Append(Pop, f)) <=> Spans(Pop) \/ f.kind \in SpanKinds
  BY <1>1, SpansCall
<1>5. Spans(stack) <=> Spans(Pop) \/ Top.kind \in SpanKinds
  BY <1>1, <1>2, <1>4
<1>6. QED
  BY <1>1, <1>3, <1>4, <1>5

(* Queueing tells a microtask. *)
LEMMA ScheduleAttended ==
  ASSUME Data, Attended, Spans(stack)' <=> Spans(stack),
         \/ \E j : Enqueue(j)
         \/ UNCHANGED queue,
         abandoned' = abandoned
  PROVE  Attended'
<1>1. CASE UNCHANGED queue
  BY <1>1 DEF Attended, queue
<1>2. CASE Arm
  <2>1. CASE armed
    BY <1>2, <2>1 DEF Arm, Attended
  <2>2. CASE ~armed
    BY <1>2, <2>2 DEF Arm, Attended, Data
  <2>3. QED
    BY <2>1, <2>2
<1>3. QED
  BY <1>1, <1>2 DEF Enqueue

(* Scheduling an effect is queueing, if anything. *)
LEMMA ScheduleQueues ==
  ASSUME NEW e, Schedule(e)
  PROVE  (\E j : Enqueue(j)) \/ UNCHANGED queue
BY DEF Schedule

(* A run opens nothing. *)
LEMMA RunScheduledSpans ==
  ASSUME NEW stk \in Seq(Frames), NEW e \in Effects, RunScheduled(e, stk)
  PROVE  Spans(stack') <=> Spans(stk)
<1>1. stack' = stk \/ stack' = Append(stk, Frame("body", e))
  BY DEF RunScheduled, CheckDivergence
<1>2. Frame("body", e) \in Frames /\ Frame("body", e).kind = "body"
  BY FrameType DEF Kinds, WhoOf
<1>3. Spans(Append(stk, Frame("body", e))) <=> Spans(stk)
  BY <1>2, SpansCall DEF SpanKinds
<1>4. QED
  BY <1>1, <1>3

(* Steps of the closure on top of the stack, or of the host. *)
LEMMA CodeProgress ==
  ASSUME PInv,
         \/ \E j \in Jobs : ScheduleJob(j)
         \/ \E e \in Effects : Invalidate(e) \/ RunHeld(e)
         \/ ExternalFlush
  PROVE  Attended'
<1>1. Data /\ Attended /\ stack \in Seq(Frames)
  BY DEF PInv, IInv, Balanced
<1>2. CASE \E j \in Jobs : ScheduleJob(j)
  <2>1. (\E j : Enqueue(j)) /\ stack' = stack /\ abandoned' = abandoned
    BY <1>2 DEF ScheduleJob
  <2>2. QED
    BY <1>1, <2>1, ScheduleAttended
<1>3. CASE \E e \in Effects : Invalidate(e)
  <2>1. stack' = stack /\ abandoned' = abandoned /\ \E e \in Effects : Schedule(e)
    BY <1>3 DEF Invalidate
  <2>2. QED
    BY <1>1, <2>1, ScheduleQueues, ScheduleAttended
<1>4. CASE \E e \in Effects : RunHeld(e)
  <2>1. PICK e \in Effects : RunHeld(e)
    BY <1>4
  <2>2. UNCHANGED queue /\ abandoned' = abandoned
    BY <2>1 DEF RunHeld
  <2>3. CASE RunScheduled(e, stack)
    BY <1>1, <2>2, <2>3, RunScheduledSpans, ScheduleAttended
  <2>4. CASE BeginFlush(Frame("single", e))
    <3> DEFINE f == Frame("single", e)
    <3>1. f \in Frames /\ f.kind \notin SpanKinds
      BY FrameType DEF Kinds, WhoOf, SpanKinds
    <3>2. stack' \in {Append(stack, f), WithCallback(Append(stack, f))}
      BY <2>4 DEF BeginFlush
    <3> HIDE DEF f
    <3>3. Spans(stack') <=> Spans(stack)
      BY <1>1, <3>1, <3>2, SpansOther
    <3>4. QED
      BY <1>1, <2>2, <3>3, ScheduleAttended
  <2>5. QED
    BY <2>1, <2>3, <2>4 DEF RunHeld
<1>5. CASE ExternalFlush
  <2> DEFINE f == Frame("external", None)
  <2>1. UNCHANGED queue /\ abandoned' = abandoned
    BY <1>5 DEF ExternalFlush
  <2>2. f \in Frames /\ f.kind \notin SpanKinds
    BY FrameType DEF Kinds, WhoOf, SpanKinds
  <2>3. stack' \in {Append(stack, f), WithCallback(Append(stack, f))}
    BY <1>5 DEF ExternalFlush, BeginFlush
  <2> HIDE DEF f
  <2>4. Spans(stack') <=> Spans(stack)
    BY <1>1, <2>2, <2>3, SpansOther
  <2>5. QED
    BY <1>1, <2>1, <2>4, ScheduleAttended
<1>6. QED
  BY <1>2, <1>3, <1>4, <1>5

(* flush_jobs: what is queued is in the hands of the flush that opens.      *)
LEMMA FlushJobsProgress ==
  ASSUME PInv, FlushJobs, stack \in Seq(Frames), UNCHANGED pending
  PROVE  Attended'
<1>1. CASE pending = <<>>
  BY <1>1 DEF FlushJobs, Attended
<1>2. CASE pending # <<>>
  <2> DEFINE f == Frame("opening", None)
  <2>1. f \in Frames /\ f.kind \in SpanKinds
    BY FrameType DEF Kinds, WhoOf, SpanKinds
  <2>2. stack' = WithCallback(Append(stack, f))
    BY <1>2 DEF FlushJobs
  <2> HIDE DEF f
  <2>3. Append(stack, f) \in Seq(Frames)
    BY <2>1
  <2>4. Spans(stack')
    BY <2>1, <2>2, <2>3, SpansCall, SpansCallback
  <2>5. QED
    BY <2>4 DEF Attended
<1>3. QED
  BY <1>1, <1>2

(* The steps of a flush. *)
LEMMA FlushProgress ==
  ASSUME PInv, EnterLoop \/ RunJob \/ CloseDrain \/ FinishDrain
  PROVE  Attended'
<1>1. IInv /\ Data /\ stack \in Seq(Frames)
  BY DEF PInv, IInv, Balanced
<1>2. ~Idle
  BY <1>1, CodeInFlush DEF EnterLoop, RunJob, CloseDrain, FinishDrain, On, IInv
<1>3. /\ Pop \in Seq(Frames)
      /\ Spans(stack) <=> Spans(Pop) \/ Top.kind \in SpanKinds
      /\ \A f \in Frames : /\ Retop(f) \in Seq(Frames)
                           /\ Spans(Retop(f)) <=> Spans(Pop) \/ f.kind \in SpanKinds
  BY <1>1, <1>2, SpansTop
<1>4. CASE EnterLoop
  <2>1. Frame("drain", None) \in Frames /\ Frame("drain", None).kind = "drain"
    BY FrameType DEF Kinds, WhoOf
  <2>2. Spans(stack')
    BY <1>3, <1>4, <2>1 DEF EnterLoop, SpanKinds
  <2>3. QED
    BY <2>2 DEF Attended
<1>5. CASE RunJob
  <2>1. Top.kind = "drain" /\ Spans(stack)
    BY <1>3, <1>5 DEF RunJob, On, SpanKinds
  <2>2. Head(pending) \in Jobs \cup Queued
    BY <1>1, <1>5, HeadTailProperties DEF RunJob, Data
  <2>3. CASE Head(pending) \in Jobs
    <3>1. Frame("job", Head(pending)) \in Frames
      BY <2>3, FrameType DEF Kinds, WhoOf
    <3>2. stack' = Append(stack, Frame("job", Head(pending)))
      BY <1>5, <2>3 DEF RunJob
    <3>3. Spans(stack')
      BY <1>1, <2>1, <3>1, <3>2, SpansCall
    <3>4. QED
      BY <3>3 DEF Attended
  <2>4. CASE Head(pending) \notin Jobs
    <3>1. Head(pending) \in Effects /\ RunScheduled(Head(pending), stack)
      BY <1>5, <2>2, <2>4 DEF RunJob, Effects
    <3>2. Spans(stack')
      BY <1>1, <2>1, <3>1, RunScheduledSpans
    <3>3. QED
      BY <3>2 DEF Attended
  <2>5. QED
    BY <2>3, <2>4
<1>6. CASE CloseDrain
  <2>1. Guarding("closing") \in Frames /\ Guarding("closing").kind = "closing"
    BY <1>1, GuardingType DEF Data
  <2>2. stack' = WithCallback(Retop(Guarding("closing")))
    BY <1>6 DEF CloseDrain
  <2>3. Spans(stack')
    BY <1>3, <2>1, <2>2, SpansCallback DEF SpanKinds
  <2>4. QED
    BY <2>3 DEF Attended
<1>7. CASE FinishDrain
  <2>1. /\ armed' = (pending # <<>>) /\ pending' = pending
        /\ microtasks' = IF pending # <<>> THEN microtasks + 1 ELSE microtasks
    BY <1>7 DEF FinishDrain
  <2>2. armed' => microtasks' > 0
    <3>1. armed' => pending # <<>>
      BY <2>1
    <3>2. pending # <<>> => microtasks' = microtasks + 1
      BY <2>1
    <3>3. microtasks \in Nat
      BY <1>1 DEF Data
    <3>4. QED
      BY <3>1, <3>2, <3>3
  <2>3. QED
    BY <2>1, <2>2 DEF Attended
<1>8. QED
  BY <1>4, <1>5, <1>6, <1>7

(* A guard that is not the queue's ends, or what follows it. *)
LEMMA EndProgress ==
  ASSUME PInv, RunSingle \/ EndFlush \/ FlushEnded
  PROVE  Attended'
<1>1. IInv /\ Data /\ Attended
  BY DEF PInv, IInv
<1>2. ~Idle /\ Top.kind \in {"single", "external", "ended"}
  BY <1>1, CodeInFlush DEF RunSingle, EndFlush, FlushEnded, On, IInv
<1>3. UNCHANGED queue /\ abandoned' = abandoned
  BY DEF RunSingle, EndFlush, FlushEnded
<1>4. /\ Pop \in Seq(Frames) /\ (Spans(stack) <=> Spans(Pop))
      /\ \A f \in Frames : /\ Retop(f) \in Seq(Frames)
                           /\ Spans(Retop(f)) <=> Spans(Pop) \/ f.kind \in SpanKinds
  BY <1>1, <1>2, SpansTop DEF SpanKinds
<1>5. CASE RunSingle
  <2> DEFINE f == Frame("single", None)
  <2>1. f \in Frames /\ f.kind = "single"
    BY FrameType DEF Kinds, WhoOf
  <2>2. Top.kind = "single" /\ Top.who # None /\ RunScheduled(Top.who, Retop(f))
    BY <1>5 DEF RunSingle, On
  <2> HIDE DEF f
  <2>3. Top \in Frames
    BY <1>1, <1>2, FrameReturns
  <2>4. Top.who \in Effects
    BY <2>2, <2>3 DEF Frames, WhoOf
  <2>5. Spans(stack') <=> Spans(Retop(f))
    BY <1>4, <2>1, <2>2, <2>4, RunScheduledSpans
  <2>6. Spans(stack') <=> Spans(stack)
    BY <1>4, <2>1, <2>5 DEF SpanKinds
  <2>7. QED
    BY <1>1, <1>3, <2>6, ScheduleAttended
<1>6. CASE stack' = Pop
  BY <1>1, <1>3, <1>4, <1>6, ScheduleAttended
<1>7. CASE stack' = WithCallback(Retop(Guarding("ended")))
  <2>1. Guarding("ended") \in Frames /\ Guarding("ended").kind = "ended"
    BY <1>1, GuardingType DEF Data
  <2>2. Spans(stack') <=> Spans(stack)
    BY <1>4, <1>7, <2>1, SpansCallback DEF SpanKinds
  <2>3. QED
    BY <1>1, <1>3, <2>2, ScheduleAttended
<1>8. QED
  BY <1>5, <1>6, <1>7 DEF EndFlush, FlushEnded, Leave

(* Closures return, panic and are unwound: what opens or closes a flush is  *)
(* left only by a panic, and that is the exception.                        *)
LEMMA ReturnProgress ==
  ASSUME PInv, Return \/ BodyReturn \/ Panic \/ UnwindCallback \/ UnwindFrame
  PROVE  Attended'
<1>1. IInv /\ Data /\ Attended
  BY DEF PInv, IInv
<1>2. CASE Panic
  <2>1. stack' = stack /\ UNCHANGED queue /\ abandoned' = abandoned
    BY <1>2 DEF Panic
  <2>2. QED
    BY <1>1, <2>1, ScheduleAttended
<1>3. CASE UnwindFrame /\ Top.kind \in {"opening", "closing"}
  BY <1>3 DEF UnwindFrame, Attended
<1>4. CASE \/ Return \/ BodyReturn \/ UnwindCallback
           \/ UnwindFrame /\ Top.kind \notin {"opening", "closing"}
  <2>1. /\ Top.kind \in {"job", "body", "callback", "ended"} /\ stack' = Pop
        /\ (\E j : Enqueue(j)) \/ UNCHANGED queue
        /\ abandoned' = abandoned
    <3>1. CASE BodyReturn
      BY <3>1, ScheduleQueues DEF BodyReturn, On, queue
    <3>2. CASE UnwindFrame /\ Top.kind \notin {"opening", "closing"}
      BY <3>2 DEF UnwindFrame
    <3>3. QED
      BY <1>4, <3>1, <3>2 DEF Return, UnwindCallback, On
  <2>2. ~Idle
    BY <1>1, <2>1, CodeInFlush DEF IInv
  <2>3. Spans(stack') <=> Spans(stack)
    BY <1>1, <2>1, <2>2, SpansTop DEF SpanKinds
  <2>4. QED
    BY <1>1, <2>1, <2>3, ScheduleAttended
<1>5. QED
  BY <1>2, <1>3, <1>4

(* A queued job has a microtask on its way, or a flush on the stack that    *)
(* gets to it, unless a callback has broken the last flush off.             *)
THEOREM JobsNeverStall == Spec => []NoStalledJobs
<1>1. Init => PInv
  BY InitIInv DEF Init, PInv, Attended
<1>2. PInv /\ [Next]_vars => PInv'
  <2> SUFFICES ASSUME PInv, [Next]_vars PROVE PInv'
    OBVIOUS
  <2>1. IInv' /\ stack \in Seq(Frames)
    BY NextIInv DEF PInv, IInv, Balanced
  <2>2. CASE UNCHANGED vars
    BY <2>1, <2>2 DEF PInv, Attended, vars, queue
  <2>3. CASE \/ \E j \in Jobs : ScheduleJob(j)
             \/ \E e \in Effects : Invalidate(e) \/ RunHeld(e)
             \/ ExternalFlush
    BY <2>1, <2>3, CodeProgress DEF PInv
  <2>4. CASE FlushNow \/ Microtask
    <3>1. FlushJobs /\ UNCHANGED pending
      BY <2>4 DEF FlushNow, Microtask
    <3>2. QED
      BY <2>1, <3>1, FlushJobsProgress DEF PInv
  <2>5. CASE EnterLoop \/ RunJob \/ CloseDrain \/ FinishDrain
    BY <2>1, <2>5, FlushProgress DEF PInv
  <2>6. CASE RunSingle \/ EndFlush \/ FlushEnded
    BY <2>1, <2>6, EndProgress DEF PInv
  <2>7. CASE Return \/ BodyReturn \/ Panic \/ UnwindCallback \/ UnwindFrame
    BY <2>1, <2>7, ReturnProgress DEF PInv
  <2>8. QED
    BY <2>2, <2>3, <2>4, <2>5, <2>6, <2>7 DEF Next, Continue
<1>3. PInv => NoStalledJobs
  BY DEF PInv, Attended, NoStalledJobs, Flushing, Spans, SpanKinds
<1>4. QED
  BY <1>1, <1>2, <1>3, PTL DEF Spec
=============================================================================
