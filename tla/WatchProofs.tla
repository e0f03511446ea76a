---------------------------- MODULE WatchProofs ----------------------------
(***************************************************************************)
(* Proofs about a watch among the thread's contexts, for any reactors,     *)
(* nodes, views and values and any nesting of guards, computations,        *)
(* handlers and panics: an entered reactor is the thread's default, reads  *)
(* are recorded for the computation that reads and for no other, a mapped  *)
(* view reads where it can, the handler's previous value is the last it    *)
(* was told, and no change is missed.                                      *)
(***************************************************************************)
EXTENDS Watch, SequenceTheorems, FiniteSetTheorems, WellFoundedInduction, TLAPS

Somewhere == Reactors \cup {None}
Frames ==
  [kind : {"enter"}, reactor : Reactors, default : Somewhere, anchor : Somewhere]
    \cup [kind : {"untrack"}, for : Views \cup Values \cup {None}]
    \cup [kind : {"compute"}, node : Computations, depth : Nat, outer : Somewhere]
    \cup [kind : {"verify"}]

ContextType ==
  /\ current \in Somewhere /\ anchored \in Somewhere
  /\ untracked \in Nat /\ running \in Somewhere
  /\ stack \in Seq(Frames)
MadeType == made \in [Views -> [by : {"map", "writable", None}, of : Sources \cup {None}]]
WatchType ==
  /\ value \in Values /\ gate \in [val : Values \cup {None}, stale : BOOLEAN]
  /\ mark \in {"clean", "check", "dirty"}
  /\ queued \in BOOLEAN /\ owed \in BOOLEAN /\ disposed \in BOOLEAN
TypeOK == ContextType /\ MadeType /\ WatchType

(* The innermost of a kind among the first n frames is the j-th; there is   *)
(* none.                                                                   *)
Nearest(stk, kind, n, j) ==
  j \in 1 .. n /\ stk[j].kind = kind /\ \A m \in j + 1 .. n : stk[m].kind # kind
Without(stk, kind, n) == \A m \in 1 .. n : stk[m].kind # kind

(* The defaults are those of the innermost guard, and each guard puts back  *)
(* those of the one around it.                                             *)
EnteredIs(stk, n, default, anchor) ==
  \A j \in 1 .. n : Nearest(stk, "enter", n, j) =>
    default = stk[j].reactor /\ anchor = stk[j].reactor
DefaultsFit(stk, default, anchor) ==
  /\ EnteredIs(stk, Len(stk), default, anchor)
  /\ \A i \in DOMAIN stk : stk[i].kind = "enter" =>
       EnteredIs(stk, i - 1, stk[i].default, stk[i].anchor)

(* The same for the reactor of the innermost computation, None outside.     *)
RunningIs(stk, n, r) ==
  /\ \A j \in 1 .. n : Nearest(stk, "compute", n, j) => r = Home[stk[j].node]
  /\ Without(stk, "compute", n) => r = None
RunsFit(stk, r) ==
  /\ RunningIs(stk, Len(stk), r)
  /\ \A i \in DOMAIN stk : stk[i].kind = "compute" => RunningIs(stk, i - 1, stk[i].outer)

(* d[n] is the depth of untracked regions after the first n frames: since   *)
(* the innermost computation, which has noted the depth around it.          *)
Untracked(stk, n) ==
  \E k \in 1 .. n : stk[k].kind = "untrack" /\ \A m \in k .. n : stk[m].kind # "compute"
Traces(d, stk) ==
  /\ d \in [0 .. Len(stk) -> Nat] /\ d[0] = 0
  /\ \A i \in DOMAIN stk :
       /\ stk[i].kind = "compute" => d[i] = 0 /\ stk[i].depth = d[i - 1]
       /\ stk[i].kind = "untrack" => d[i] = d[i - 1] + 1
       /\ stk[i].kind \notin {"compute", "untrack"} => d[i] = d[i - 1]
       /\ d[i] > 0 <=> Untracked(stk, i)
DepthFits(stk, u) == \E d \in [0 .. Len(stk) -> Nat] : Traces(d, stk) /\ u = d[Len(stk)]

ContextFits(stk, default, anchor, r, u) ==
  DefaultsFit(stk, default, anchor) /\ RunsFit(stk, r) /\ DepthFits(stk, u)
ContextInv == ContextFits(stack, current, anchored, running, untracked)

(* What the frames of the watch are, and whether there is one on a stack.   *)
Runs(f, n)   == f.kind = "compute" /\ f.node = n
Verifies(f)  == f.kind = "verify"
Handles(f)   == f.kind = "untrack" /\ f.for \in Values
On(stk, n)   == \E i \in DOMAIN stk : Runs(stk[i], n)
Verify(stk)  == \E i \in DOMAIN stk : Verifies(stk[i])
Handled(stk) == \E i \in DOMAIN stk : Handles(stk[i])

(* The memo computes for the effect or for the verification, which go on    *)
(* only when it has returned; a handler is called by the effect; the effect *)
(* is not verified while it runs; a verification only computes the memo.    *)
InPlace(stk) ==
  /\ \A i, j \in DOMAIN stk : Runs(stk[i], Gate) /\ (Runs(stk[j], Eff) \/ Verifies(stk[j])) => j < i
  /\ \A i \in DOMAIN stk : Handles(stk[i]) => \E j \in 1 .. i - 1 : Runs(stk[j], Eff)
  /\ Verify(stk) => ~On(stk, Eff)
  /\ \A i \in DOMAIN stk : Verifies(stk[i]) /\ i < Len(stk) => Runs(stk[i + 1], Gate)

(* What has to be beneath f, or must not be.                                *)
FitsOn(stk, f) ==
  /\ Runs(f, Eff) \/ Verifies(f) => ~On(stk, Gate)
  /\ Handles(f) => On(stk, Eff)
  /\ Verifies(f) => ~On(stk, Eff)
  /\ Runs(f, Eff) => ~Verify(stk)
  /\ stk # <<>> /\ Verifies(Last(stk)) => Runs(f, Gate)

(* What the handlers on the stack were told is what was told last.          *)
ToldIs(stk, x) == \A i \in DOMAIN stk : Handles(stk[i]) => stk[i].for = x
HandlersTold ==
  /\ Handled(stack) => body = "handled"
  /\ ToldIs(stack, told)
  /\ failed \/ Handled(stack) \/ previous = told

(* A memo that is not stale has the signal's value, but while it computes.  *)
MemoFits ==
  /\ ~gate.stale /\ ~On(stack, Gate) => gate.val = value /\ <<Gate, Signal>> \in edges
  /\ On(stack, Gate) => Verify(stack) \/ body = "reading"
  /\ \A v \in Views : made[v].of # Gate

(* An effect that depends on the memo has been told the memo's value, or    *)
(* will find that it moved.                                                *)
DependsOnTold ==
  /\ body = "reading" => <<Eff, Gate>> \notin edges
  /\ <<Eff, Gate>> \in edges /\ ~moved => told = gate.val

(* What was told is behind, and nobody is about to look: then a job is      *)
(* queued or owed that will not find the effect clean.                      *)
BehindIsOwed ==
  ~disposed /\ <<Eff, Gate>> \in edges /\ (told # value \/ gate.stale) /\ ~Verify(stack)
    => mark # "clean" /\ (queued \/ owed)

WatchInv == InPlace(stack) /\ HandlersTold /\ MemoFits /\ DependsOnTold /\ BehindIsOwed

MappedAtHome ==
  \A v \in MadeBy("map") : made[v].of # None => Home[made[v].of] = Home[v]

-----------------------------------------------------------------------------
(* Stacks.                                                                 *)

(* What a list is after an entry is appended. *)
LEMMA Appended ==
  ASSUME NEW S, NEW s \in Seq(S), NEW x \in S
  PROVE  /\ Append(s, x) \in Seq(S) /\ Append(s, x) # <<>>
         /\ Len(Append(s, x)) = Len(s) + 1
         /\ DOMAIN Append(s, x) = 1 .. Len(s) + 1
         /\ DOMAIN s = 1 .. Len(s) /\ Len(s) \in Nat
         /\ \A i \in 1 .. Len(s) : Append(s, x)[i] = s[i]
         /\ Append(s, x)[Len(s) + 1] = x
OBVIOUS

(* What is left of a list without its last entry. *)
LEMMA Shortened ==
  ASSUME NEW S, NEW s \in Seq(S), s # <<>>
  PROVE  /\ Front(s) \in Seq(S) /\ Len(Front(s)) = Len(s) - 1 /\ Len(s) \in Nat \ {0}
         /\ DOMAIN Front(s) = 1 .. Len(s) - 1 /\ DOMAIN s = 1 .. Len(s)
         /\ \A i \in 1 .. Len(s) - 1 : Front(s)[i] = s[i]
         /\ Last(s) \in S /\ Last(s) = s[Len(s)]
<1>1. Len(s) \in Nat \ {0}
  BY EmptySeq
<1>2. Len(s) - 1 \in 0 .. Len(s) /\ Len(s) \in 1 .. Len(s)
  BY <1>1
<1>3. /\ Front(s) \in Seq(S) /\ Len(Front(s)) = Len(s) - 1
      /\ \A i \in 1 .. Len(s) - 1 : Front(s)[i] = s[i]
  <2>1. ASSUME NEW n \in 0 .. Len(s)
        PROVE  /\ SubSeq(s, 1, n) \in Seq(S) /\ Len(SubSeq(s, 1, n)) = n
               /\ \A i \in 1 .. n : SubSeq(s, 1, n)[i] = s[i]
    OBVIOUS
  <2>2. QED
    BY <1>2, <2>1 DEF Front
<1>4. DOMAIN Front(s) = 1 .. Len(s) - 1 /\ DOMAIN s = 1 .. Len(s)
  BY <1>3, LenProperties
<1>5. Last(s) \in S /\ Last(s) = s[Len(s)]
  BY <1>2, ElementOfSeq DEF Last
<1>6. QED
  BY <1>1, <1>3, <1>4, <1>5

(* To replace the last entry is to append to what is left without it. *)
LEMMA Replaced ==
  ASSUME NEW S, NEW s \in Seq(S), s # <<>>, NEW x \in S
  PROVE  [s EXCEPT ![Len(s)] = x] = Append(Front(s), x)
<1>1. /\ Len(s) \in Nat \ {0} /\ Front(s) \in Seq(S)
      /\ Len(Front(s)) = Len(s) - 1
      /\ \A i \in 1 .. Len(s) - 1 : Front(s)[i] = s[i]
  BY Shortened
<1> DEFINE t == [s EXCEPT ![Len(s)] = x]
           u == Append(Front(s), x)
<1>2. t \in Seq(S) /\ Len(t) = Len(s) /\ \A i \in 1 .. Len(s) : t[i] = IF i = Len(s) THEN x ELSE s[i]
  BY <1>1, ExceptSeq, Len(s) \in 1 .. Len(s)
<1>3. u \in Seq(S) /\ Len(u) = Len(s) /\ \A i \in 1 .. Len(s) : u[i] = IF i = Len(s) THEN x ELSE s[i]
  BY <1>1, Appended
<1>4. QED
  BY <1>2, <1>3, SeqEqual

(* A list is what is left without the last entry, and that one. *)
LEMMA FrontAndLast ==
  ASSUME NEW S, NEW s \in Seq(S), s # <<>>
  PROVE  s = Append(Front(s), Last(s))
<1>1. PICK x \in S : x = Last(s) /\ x = s[Len(s)]
  BY Shortened
<1>2. [s EXCEPT ![Len(s)] = x] = Append(Front(s), x)
  BY Replaced
<1>3. [s EXCEPT ![Len(s)] = x] = s
  BY <1>1
<1>4. QED
  BY <1>1, <1>2, <1>3

(* A list that a pop leaves is what was beneath the top. *)
LEMMA PopAppended ==
  ASSUME NEW S, NEW s \in Seq(S), NEW x \in S
  PROVE  Front(Append(s, x)) = s
<1> DEFINE t == Append(s, x)
<1>1. t \in Seq(S) /\ t # <<>> /\ Len(t) = Len(s) + 1 /\ \A i \in 1 .. Len(s) : t[i] = s[i]
  BY Appended
<1> HIDE DEF t
<1>2. /\ Front(t) \in Seq(S) /\ Len(Front(t)) = Len(t) - 1
      /\ \A i \in 1 .. Len(t) - 1 : Front(t)[i] = t[i]
  BY <1>1, Shortened
<1>3. Len(s) \in Nat /\ Len(t) - 1 = Len(s)
  BY <1>1
<1>4. Front(t) = s
  BY <1>1, <1>2, <1>3, SeqEqual
<1>5. QED
  BY <1>4 DEF t

(* What the frames of each kind hold. *)
LEMMA FrameType ==
  /\ \A f \in Frames : f.kind \in {"enter", "untrack", "compute", "verify"}
  /\ \A f \in Frames : f.kind = "enter" =>
       f.reactor \in Reactors /\ f.default \in Somewhere /\ f.anchor \in Somewhere
  /\ \A f \in Frames : f.kind = "untrack" => f.for \in Views \cup Values \cup {None}
  /\ \A f \in Frames : f.kind = "compute" =>
       f.node \in Computations /\ f.depth \in Nat /\ f.outer \in Somewhere
BY DEF Frames

(* The guards on a stack with one more frame. *)
LEMMA DefaultsAppended ==
  ASSUME NEW s \in Seq(Frames), NEW f \in Frames, NEW a, NEW b
  PROVE  /\ f.kind # "enter" => (DefaultsFit(Append(s, f), a, b) <=> DefaultsFit(s, a, b))
         /\ f.kind = "enter" =>
              (DefaultsFit(Append(s, f), a, b) <=>
                 DefaultsFit(s, f.default, f.anchor) /\ a = f.reactor /\ b = f.reactor)
<1> DEFINE t == Append(s, f)
           n == Len(s)
<1>1. /\ n \in Nat /\ DOMAIN t = 1 .. n + 1 /\ DOMAIN s = 1 .. n /\ Len(t) = n + 1
      /\ \A i \in 1 .. n : t[i] = s[i]
      /\ t[n + 1] = f
  BY Appended
<1> HIDE DEF t, n
<1>2. ASSUME NEW i \in 0 .. n, NEW j \in 1 .. i
      PROVE  Nearest(t, "enter", i, j) <=> Nearest(s, "enter", i, j)
  BY <1>1 DEF Nearest
<1>3. ASSUME NEW i \in 0 .. n, NEW c, NEW e
      PROVE  EnteredIs(t, i, c, e) <=> EnteredIs(s, i, c, e)
  <2>1. \A j \in 1 .. i : t[j].reactor = s[j].reactor
    BY <1>1
  <2>2. \A j \in 1 .. i : Nearest(t, "enter", i, j) <=> Nearest(s, "enter", i, j)
    BY <1>2
  <2>3. QED
    BY <2>1, <2>2 DEF EnteredIs
<1>4. n \in 0 .. n /\ (\A i \in 1 .. n : i - 1 \in 0 .. n) /\ (n + 1) - 1 = n
  BY <1>1
<1>5. CASE f.kind # "enter"
  <2>1. \A j \in 1 .. n + 1 : Nearest(t, "enter", n + 1, j) <=> j \in 1 .. n /\ Nearest(t, "enter", n, j)
    <3>1. ASSUME NEW j \in 1 .. n + 1, Nearest(t, "enter", n + 1, j)
          PROVE  j \in 1 .. n /\ Nearest(t, "enter", n, j)
      BY <1>1, <1>5, <3>1 DEF Nearest
    <3>2. ASSUME NEW j \in 1 .. n, Nearest(t, "enter", n, j)
          PROVE  Nearest(t, "enter", n + 1, j)
      BY <1>1, <1>5, <3>2 DEF Nearest
    <3>3. QED
      BY <3>1, <3>2
  <2>2. 1 .. n \subseteq 1 .. n + 1
    BY <1>1
  <2>3. EnteredIs(t, n + 1, a, b) <=> EnteredIs(t, n, a, b)
    BY <2>1, <2>2 DEF EnteredIs
  <2>4. (\A i \in DOMAIN t : t[i].kind = "enter" => EnteredIs(t, i - 1, t[i].default, t[i].anchor))
          <=> \A i \in DOMAIN s : s[i].kind = "enter" => EnteredIs(s, i - 1, s[i].default, s[i].anchor)
    BY <1>1, <1>3, <1>4, <1>5
  <2>5. QED
    BY <1>1, <1>3, <1>4, <1>5, <2>3, <2>4 DEF DefaultsFit, t, n
<1>6. CASE f.kind = "enter"
  <2>1. \A j \in 1 .. n + 1 : Nearest(t, "enter", n + 1, j) <=> j = n + 1
    BY <1>1, <1>6 DEF Nearest
  <2>2. EnteredIs(t, n + 1, a, b) <=> a = f.reactor /\ b = f.reactor
    BY <1>1, <2>1 DEF EnteredIs
  <2>3. (\A i \in DOMAIN t : t[i].kind = "enter" => EnteredIs(t, i - 1, t[i].default, t[i].anchor))
          <=> /\ \A i \in DOMAIN s : s[i].kind = "enter" => EnteredIs(s, i - 1, s[i].default, s[i].anchor)
              /\ EnteredIs(s, n, f.default, f.anchor)
    <3>1. ASSUME \A i \in DOMAIN t : t[i].kind = "enter" => EnteredIs(t, i - 1, t[i].default, t[i].anchor)
          PROVE  /\ \A i \in DOMAIN s : s[i].kind = "enter" => EnteredIs(s, i - 1, s[i].default, s[i].anchor)
                 /\ EnteredIs(s, n, f.default, f.anchor)
      BY <1>1, <1>3, <1>4, <1>6, <3>1
    <3>2. ASSUME \A i \in DOMAIN s : s[i].kind = "enter" => EnteredIs(s, i - 1, s[i].default, s[i].anchor),
                 EnteredIs(s, n, f.default, f.anchor), NEW i \in 1 .. n + 1, t[i].kind = "enter"
          PROVE  EnteredIs(t, i - 1, t[i].default, t[i].anchor)
      <4>1. CASE i \in 1 .. n
        BY <1>1, <1>3, <1>4, <3>2, <4>1
      <4>2. CASE i = n + 1
        BY <1>1, <1>3, <1>4, <3>2, <4>2
      <4>3. QED
        BY <1>1, <4>1, <4>2
    <3>3. QED
      BY <1>1, <3>1, <3>2
  <2>4. QED
    BY <1>1, <1>6, <2>2, <2>3 DEF DefaultsFit, t, n
<1>7. QED
  BY <1>5, <1>6 DEF t

(* The computations. *)
LEMMA RunsAppended ==
  ASSUME NEW s \in Seq(Frames), NEW f \in Frames, NEW r
  PROVE  /\ f.kind # "compute" => (RunsFit(Append(s, f), r) <=> RunsFit(s, r))
         /\ f.kind = "compute" =>
              (RunsFit(Append(s, f), r) <=> RunsFit(s, f.outer) /\ r = Home[f.node])
<1> DEFINE t == Append(s, f)
           n == Len(s)
<1>1. /\ n \in Nat /\ DOMAIN t = 1 .. n + 1 /\ DOMAIN s = 1 .. n /\ Len(t) = n + 1
      /\ \A i \in 1 .. n : t[i] = s[i]
      /\ t[n + 1] = f
  BY Appended
<1> HIDE DEF t, n
<1>2. ASSUME NEW i \in 0 .. n
      PROVE  /\ \A j \in 1 .. i : Nearest(t, "compute", i, j) <=> Nearest(s, "compute", i, j)
             /\ Without(t, "compute", i) <=> Without(s, "compute", i)
  <2>1. ASSUME NEW j \in 1 .. i
        PROVE  Nearest(t, "compute", i, j) <=> Nearest(s, "compute", i, j)
    BY <1>1, <2>1 DEF Nearest
  <2>2. Without(t, "compute", i) <=> Without(s, "compute", i)
    BY <1>1 DEF Without
  <2>3. QED
    BY <2>1, <2>2
<1>3. ASSUME NEW i \in 0 .. n, NEW c
      PROVE  RunningIs(t, i, c) <=> RunningIs(s, i, c)
  <2>1. \A j \in 1 .. i : t[j].node = s[j].node
    BY <1>1
  <2>2. QED
    BY <1>2, <2>1 DEF RunningIs
<1>4. n \in 0 .. n /\ (\A i \in 1 .. n : i - 1 \in 0 .. n) /\ (n + 1) - 1 = n
  BY <1>1
<1>5. CASE f.kind # "compute"
  <2>1. \A j \in 1 .. n + 1 :
          Nearest(t, "compute", n + 1, j) <=> j \in 1 .. n /\ Nearest(t, "compute", n, j)
    <3>1. ASSUME NEW j \in 1 .. n + 1, Nearest(t, "compute", n + 1, j)
          PROVE  j \in 1 .. n /\ Nearest(t, "compute", n, j)
      BY <1>1, <1>5, <3>1 DEF Nearest
    <3>2. ASSUME NEW j \in 1 .. n, Nearest(t, "compute", n, j)
          PROVE  Nearest(t, "compute", n + 1, j)
      BY <1>1, <1>5, <3>2 DEF Nearest
    <3>3. QED
      BY <3>1, <3>2
  <2>2. 1 .. n \subseteq 1 .. n + 1
    BY <1>1
  <2>3. Without(t, "compute", n + 1) <=> Without(t, "compute", n)
    BY <1>1, <1>5 DEF Without
  <2>4. RunningIs(t, n + 1, r) <=> RunningIs(t, n, r)
    BY <2>1, <2>2, <2>3 DEF RunningIs
  <2>5. (\A i \in DOMAIN t : t[i].kind = "compute" => RunningIs(t, i - 1, t[i].outer))
          <=> \A i \in DOMAIN s : s[i].kind = "compute" => RunningIs(s, i - 1, s[i].outer)
    BY <1>1, <1>3, <1>4, <1>5
  <2>6. QED
    BY <1>1, <1>3, <1>4, <1>5, <2>4, <2>5 DEF RunsFit, t, n
<1>6. CASE f.kind = "compute"
  <2>1. \A j \in 1 .. n + 1 : Nearest(t, "compute", n + 1, j) <=> j = n + 1
    BY <1>1, <1>6 DEF Nearest
  <2>2. ~Without(t, "compute", n + 1)
    BY <1>1, <1>6 DEF Without
  <2>3. RunningIs(t, n + 1, r) <=> r = Home[f.node]
    BY <1>1, <2>1, <2>2 DEF RunningIs
  <2>4. ASSUME \A i \in DOMAIN t : t[i].kind = "compute" => RunningIs(t, i - 1, t[i].outer)
        PROVE  /\ \A i \in DOMAIN s : s[i].kind = "compute" => RunningIs(s, i - 1, s[i].outer)
               /\ RunningIs(s, n, f.outer)
    BY <1>1, <1>3, <1>4, <1>6, <2>4
  <2>5. ASSUME \A i \in DOMAIN s : s[i].kind = "compute" => RunningIs(s, i - 1, s[i].outer),
               RunningIs(s, n, f.outer), NEW i \in 1 .. n + 1, t[i].kind = "compute"
        PROVE  RunningIs(t, i - 1, t[i].outer)
    <3>1. CASE i \in 1 .. n
      BY <1>1, <1>3, <1>4, <2>5, <3>1
    <3>2. CASE i = n + 1
      BY <1>1, <1>3, <1>4, <2>5, <3>2
    <3>3. QED
      BY <1>1, <3>1, <3>2
  <2>6. QED
    BY <1>1, <1>6, <2>3, <2>4, <2>5 DEF RunsFit, t, n
<1>7. QED
  BY <1>5, <1>6 DEF t

(* The untracked regions: a trace of the shorter stack is one of the longer *)
(* up to there, and the other way round.                                   *)
LEMMA TraceAppended ==
  ASSUME NEW s \in Seq(Frames), NEW f \in Frames
  PROVE  /\ \A d \in [0 .. Len(s) + 1 -> Nat] : Traces(d, Append(s, f)) =>
              /\ [i \in 0 .. Len(s) |-> d[i]] \in [0 .. Len(s) -> Nat]
              /\ Traces([i \in 0 .. Len(s) |-> d[i]], s)
              /\ d[Len(s)] \in Nat /\ d[Len(s) + 1] \in Nat
              /\ f.kind = "compute" => d[Len(s) + 1] = 0 /\ f.depth = d[Len(s)]
              /\ f.kind = "untrack" => d[Len(s) + 1] = d[Len(s)] + 1
              /\ f.kind \notin {"compute", "untrack"} => d[Len(s) + 1] = d[Len(s)]
         /\ \A d \in [0 .. Len(s) -> Nat], x \in Nat :
              /\ Traces(d, s)
              /\ f.kind = "compute" => x = 0 /\ f.depth = d[Len(s)]
              /\ f.kind = "untrack" => x = d[Len(s)] + 1
              /\ f.kind \notin {"compute", "untrack"} => x = d[Len(s)]
              => Traces([i \in 0 .. Len(s) + 1 |-> IF i = Len(s) + 1 THEN x ELSE d[i]], Append(s, f))
<1> DEFINE t == Append(s, f)
           n == Len(s)
<1>1. /\ n \in Nat /\ DOMAIN t = 1 .. n + 1 /\ DOMAIN s = 1 .. n /\ Len(t) = n + 1
      /\ \A i \in 1 .. n : t[i] = s[i]
      /\ t[n + 1] = f
  BY Appended
<1> HIDE DEF t, n
<1>2. ASSUME NEW i \in 0 .. n PROVE Untracked(t, i) <=> Untracked(s, i)
  BY <1>1 DEF Untracked
<1>3. Untracked(t, n + 1) <=> f.kind = "untrack" \/ (f.kind # "compute" /\ Untracked(s, n))
  <2>1. ASSUME Untracked(t, n + 1) PROVE f.kind = "untrack" \/ (f.kind # "compute" /\ Untracked(s, n))
    <3>1. PICK k \in 1 .. n + 1 : t[k].kind = "untrack" /\ \A m \in k .. n + 1 : t[m].kind # "compute"
      BY <2>1 DEF Untracked
    <3>2. n + 1 \in k .. n + 1 /\ k .. n \subseteq k .. n + 1 /\ (k # n + 1 => k \in 1 .. n)
      BY <1>1
    <3>3. k # n + 1 => Untracked(t, n)
      BY <3>1, <3>2 DEF Untracked
    <3>4. n \in 0 .. n
      BY <1>1
    <3>5. QED
      BY <1>1, <1>2, <3>1, <3>2, <3>3, <3>4
  <2>2. ASSUME f.kind = "untrack" PROVE Untracked(t, n + 1)
    BY <1>1, <2>2 DEF Untracked
  <2>3. ASSUME f.kind # "compute", Untracked(s, n) PROVE Untracked(t, n + 1)
    <3>1. PICK k \in 1 .. n : s[k].kind = "untrack" /\ \A m \in k .. n : s[m].kind # "compute"
      BY <2>3 DEF Untracked
    <3>2. k \in 1 .. n + 1 /\ t[k].kind = "untrack" /\ \A m \in k .. n + 1 : t[m].kind # "compute"
      BY <1>1, <2>3, <3>1
    <3>3. QED
      BY <3>2 DEF Untracked
  <2>4. QED
    BY <2>1, <2>2, <2>3
<1>4. ASSUME NEW d \in [0 .. n + 1 -> Nat], Traces(d, t)
      PROVE  /\ [i \in 0 .. n |-> d[i]] \in [0 .. n -> Nat]
             /\ Traces([i \in 0 .. n |-> d[i]], s)
             /\ d[n] \in Nat /\ d[n + 1] \in Nat
             /\ f.kind = "compute" => d[n + 1] = 0 /\ f.depth = d[n]
             /\ f.kind = "untrack" => d[n + 1] = d[n] + 1
             /\ f.kind \notin {"compute", "untrack"} => d[n + 1] = d[n]
  <2>1. PICK e : e = [i \in 0 .. n |-> d[i]]
    OBVIOUS
  <2>2. e \in [0 .. n -> Nat] /\ \A i \in 0 .. n : e[i] = d[i]
    BY <1>1, <2>1
  <2>3. \A i \in 1 .. n + 1 :
          /\ t[i].kind = "compute" => d[i] = 0 /\ t[i].depth = d[i - 1]
          /\ t[i].kind = "untrack" => d[i] = d[i - 1] + 1
          /\ t[i].kind \notin {"compute", "untrack"} => d[i] = d[i - 1]
          /\ d[i] > 0 <=> Untracked(t, i)
    BY <1>1, <1>4 DEF Traces
  <2>4. d[0] = 0
    BY <1>4 DEF Traces
  <2>5. ASSUME NEW i \in 1 .. n
        PROVE  /\ s[i].kind = "compute" => e[i] = 0 /\ s[i].depth = e[i - 1]
               /\ s[i].kind = "untrack" => e[i] = e[i - 1] + 1
               /\ s[i].kind \notin {"compute", "untrack"} => e[i] = e[i - 1]
               /\ e[i] > 0 <=> Untracked(s, i)
    <3>1. i \in 1 .. n + 1 /\ i \in 0 .. n /\ i - 1 \in 0 .. n
      BY <1>1
    <3>2. t[i] = s[i] /\ e[i] = d[i] /\ e[i - 1] = d[i - 1] /\ (Untracked(t, i) <=> Untracked(s, i))
      BY <1>1, <1>2, <2>2, <3>1
    <3>3. QED
      BY <2>3, <3>1, <3>2
  <2>6. Traces(e, s)
    BY <1>1, <2>2, <2>4, <2>5 DEF Traces, n
  <2>7. n + 1 \in 1 .. n + 1 /\ (n + 1) - 1 = n /\ n \in 0 .. n + 1 /\ n + 1 \in 0 .. n + 1
    BY <1>1
  <2>8. QED
    BY <1>1, <2>1, <2>2, <2>3, <2>6, <2>7
<1>5. ASSUME NEW d \in [0 .. n -> Nat], NEW x \in Nat, Traces(d, s),
             f.kind = "compute" => x = 0 /\ f.depth = d[n],
             f.kind = "untrack" => x = d[n] + 1,
             f.kind \notin {"compute", "untrack"} => x = d[n]
      PROVE  Traces([i \in 0 .. n + 1 |-> IF i = n + 1 THEN x ELSE d[i]], t)
  <2>1. PICK e : e = [i \in 0 .. n + 1 |-> IF i = n + 1 THEN x ELSE d[i]]
    OBVIOUS
  <2>2. e \in [0 .. n + 1 -> Nat] /\ e[n + 1] = x /\ \A i \in 0 .. n : e[i] = d[i]
    BY <1>1, <2>1
  <2>3. \A i \in 1 .. n :
          /\ s[i].kind = "compute" => d[i] = 0 /\ s[i].depth = d[i - 1]
          /\ s[i].kind = "untrack" => d[i] = d[i - 1] + 1
          /\ s[i].kind \notin {"compute", "untrack"} => d[i] = d[i - 1]
          /\ d[i] > 0 <=> Untracked(s, i)
    BY <1>1, <1>5 DEF Traces
  <2>4. d[0] = 0 /\ d[n] \in Nat
    BY <1>1, <1>5 DEF Traces
  <2>5. ASSUME NEW i \in 1 .. n
        PROVE  /\ t[i].kind = "compute" => e[i] = 0 /\ t[i].depth = e[i - 1]
               /\ t[i].kind = "untrack" => e[i] = e[i - 1] + 1
               /\ t[i].kind \notin {"compute", "untrack"} => e[i] = e[i - 1]
               /\ e[i] > 0 <=> Untracked(t, i)
    <3>1. i \in 0 .. n /\ i - 1 \in 0 .. n
      BY <1>1
    <3>2. t[i] = s[i] /\ e[i] = d[i] /\ e[i - 1] = d[i - 1] /\ (Untracked(t, i) <=> Untracked(s, i))
      BY <1>1, <1>2, <2>2, <3>1
    <3>3. QED
      BY <2>3, <3>2
  <2>6. d[n] > 0 <=> Untracked(s, n)
    <3>1. CASE n = 0
      <4>1. ~Untracked(s, 0)
        BY DEF Untracked
      <4>2. QED
        BY <2>4, <3>1, <4>1
    <3>2. CASE n # 0
      <4>1. n \in 1 .. n
        BY <1>1, <3>2
      <4>2. QED
        BY <2>3, <4>1
    <3>3. QED
      BY <3>1, <3>2
  <2>7. /\ t[n + 1].kind = "compute" => e[n + 1] = 0 /\ t[n + 1].depth = e[n]
        /\ t[n + 1].kind = "untrack" => e[n + 1] = e[n] + 1
        /\ t[n + 1].kind \notin {"compute", "untrack"} => e[n + 1] = e[n]
    <3>1. e[n] = d[n]
      BY <1>1, <2>2
    <3>2. QED
      BY <1>1, <1>5, <2>2, <3>1
  <2>8. e[n + 1] > 0 <=> Untracked(t, n + 1)
    <3>1. e[n + 1] = x
      BY <2>2
    <3>2. CASE f.kind = "compute"
      BY <1>3, <1>5, <3>1, <3>2
    <3>3. CASE f.kind = "untrack"
      BY <1>3, <1>5, <2>4, <3>1, <3>3
    <3>4. CASE f.kind \notin {"compute", "untrack"}
      BY <1>3, <1>5, <2>6, <3>1, <3>4
    <3>5. QED
      BY <3>2, <3>3, <3>4
  <2>9. ASSUME NEW i \in 1 .. n + 1
        PROVE  /\ t[i].kind = "compute" => e[i] = 0 /\ t[i].depth = e[i - 1]
               /\ t[i].kind = "untrack" => e[i] = e[i - 1] + 1
               /\ t[i].kind \notin {"compute", "untrack"} => e[i] = e[i - 1]
               /\ e[i] > 0 <=> Untracked(t, i)
    <3>1. CASE i = n + 1
      <4>1. i - 1 = n
        BY <1>1, <3>1
      <4>2. QED
        BY <2>7, <2>8, <3>1, <4>1
    <3>2. CASE i # n + 1
      <4>1. i \in 1 .. n
        BY <1>1, <3>2
      <4>2. QED
        BY <2>5, <4>1
    <3>3. QED
      BY <3>1, <3>2
  <2>10. e[0] = 0
    BY <1>1, <2>2, <2>4
  <2>11. Traces(e, t)
    BY <1>1, <2>2, <2>9, <2>10 DEF Traces
  <2>12. QED
    BY <2>1, <2>11
<1>6. QED
  BY <1>4, <1>5 DEF t, n

LEMMA DepthAppended ==
  ASSUME NEW s \in Seq(Frames), NEW f \in Frames, NEW u \in Nat
  PROVE  /\ f.kind \notin {"compute", "untrack"} => (DepthFits(Append(s, f), u) <=> DepthFits(s, u))
         /\ f.kind = "compute" => (DepthFits(Append(s, f), u) <=> DepthFits(s, f.depth) /\ u = 0)
         /\ f.kind = "untrack" => /\ DepthFits(s, u) => DepthFits(Append(s, f), u + 1)
                                  /\ DepthFits(Append(s, f), u) => u > 0 /\ DepthFits(s, u - 1)
<1> DEFINE t == Append(s, f)
           n == Len(s)
           Longer(d, x) == [i \in 0 .. n + 1 |-> IF i = n + 1 THEN x ELSE d[i]]
           Shorter(d) == [i \in 0 .. n |-> d[i]]
<1>1. n \in Nat /\ Len(t) = n + 1 /\ n \in 0 .. n
  BY Appended
<1>2. ASSUME NEW d \in [0 .. n + 1 -> Nat], Traces(d, t)
      PROVE  /\ Shorter(d) \in [0 .. n -> Nat] /\ Traces(Shorter(d), s) /\ Shorter(d)[n] = d[n]
             /\ d[n] \in Nat /\ d[n + 1] \in Nat
             /\ f.kind = "compute" => d[n + 1] = 0 /\ f.depth = d[n]
             /\ f.kind = "untrack" => d[n + 1] = d[n] + 1
             /\ f.kind \notin {"compute", "untrack"} => d[n + 1] = d[n]
  BY <1>1, <1>2, TraceAppended
<1>3. ASSUME NEW d \in [0 .. n -> Nat], NEW x \in Nat, Traces(d, s),
             f.kind = "compute" => x = 0 /\ f.depth = d[n],
             f.kind = "untrack" => x = d[n] + 1,
             f.kind \notin {"compute", "untrack"} => x = d[n]
      PROVE  Longer(d, x) \in [0 .. n + 1 -> Nat] /\ Longer(d, x)[n + 1] = x /\ Traces(Longer(d, x), t)
  <2>1. Traces(Longer(d, x), t)
    BY <1>3, TraceAppended
  <2>2. Longer(d, x) \in [0 .. n + 1 -> Nat] /\ Longer(d, x)[n + 1] = x
    BY <1>1
  <2>3. QED
    BY <2>1, <2>2
<1> HIDE DEF t, n, Longer, Shorter
<1>4. ASSUME DepthFits(t, u)
      PROVE  \E w \in Nat : /\ DepthFits(s, w)
                            /\ f.kind = "compute" => u = 0 /\ f.depth = w
                            /\ f.kind = "untrack" => u = w + 1
                            /\ f.kind \notin {"compute", "untrack"} => u = w
  <2>1. PICK d \in [0 .. n + 1 -> Nat] : Traces(d, t) /\ u = d[n + 1]
    BY <1>1, <1>4 DEF DepthFits
  <2>2. DepthFits(s, d[n])
    BY <1>2, <2>1 DEF DepthFits, n
  <2>3. QED
    BY <1>2, <2>1, <2>2
<1>5. ASSUME NEW w \in Nat, NEW x \in Nat, DepthFits(s, w),
             f.kind = "compute" => x = 0 /\ f.depth = w,
             f.kind = "untrack" => x = w + 1,
             f.kind \notin {"compute", "untrack"} => x = w
      PROVE  DepthFits(t, x)
  <2>1. PICK d \in [0 .. n -> Nat] : Traces(d, s) /\ w = d[n]
    BY <1>5 DEF DepthFits, n
  <2>2. Longer(d, x) \in [0 .. n + 1 -> Nat] /\ Longer(d, x)[n + 1] = x /\ Traces(Longer(d, x), t)
    BY <1>3, <1>5, <2>1
  <2>3. QED
    BY <1>1, <2>2 DEF DepthFits
<1>6. CASE f.kind \notin {"compute", "untrack"}
  BY <1>4, <1>5, <1>6 DEF t
<1>7. CASE f.kind = "compute"
  <2>1. f.depth \in Nat
    BY <1>7, FrameType
  <2>2. QED
    BY <1>4, <1>5, <1>7, <2>1 DEF t
<1>8. CASE f.kind = "untrack"
  <2>1. DepthFits(s, u) => DepthFits(t, u + 1)
    BY <1>5, <1>8
  <2>2. DepthFits(t, u) => u > 0 /\ DepthFits(s, u - 1)
    <3>1. SUFFICES ASSUME DepthFits(t, u) PROVE u > 0 /\ DepthFits(s, u - 1)
      OBVIOUS
    <3>2. PICK w \in Nat : DepthFits(s, w) /\ u = w + 1
      BY <1>4, <1>8, <3>1
    <3>3. u - 1 = w
      BY <3>2
    <3>4. QED
      BY <3>2, <3>3
  <2>3. QED
    BY <1>8, <2>1, <2>2 DEF t
<1>9. QED
  BY <1>6, <1>7, <1>8

(* The frames of the watch. *)
LEMMA OnStack ==
  ASSUME NEW s \in Seq(Frames), NEW f \in Frames
  PROVE  /\ \A n : On(Append(s, f), n) <=> On(s, n) \/ Runs(f, n)
         /\ Verify(Append(s, f)) <=> Verify(s) \/ Verifies(f)
         /\ Handled(Append(s, f)) <=> Handled(s) \/ Handles(f)
<1> DEFINE t == Append(s, f)
           n == Len(s)
<1>1. /\ n \in Nat /\ DOMAIN t = 1 .. n + 1 /\ DOMAIN s = 1 .. n
      /\ \A i \in 1 .. n : t[i] = s[i]
      /\ t[n + 1] = f
  BY Appended
<1>2. /\ \A i \in 1 .. n + 1 : i \in 1 .. n \/ i = n + 1
      /\ \A i \in 1 .. n : i \in 1 .. n + 1
      /\ n + 1 \in 1 .. n + 1
  BY <1>1
<1> HIDE DEF t, n
<1>3. ASSUME NEW x PROVE On(t, x) <=> On(s, x) \/ Runs(f, x)
  <2>1. On(t, x) => On(s, x) \/ Runs(f, x)
    BY <1>1, <1>2 DEF On
  <2>2. On(s, x) => On(t, x)
    BY <1>1, <1>2 DEF On
  <2>3. Runs(f, x) => On(t, x)
    BY <1>1, <1>2 DEF On
  <2>4. QED
    BY <2>1, <2>2, <2>3
<1>4. Verify(t) <=> Verify(s) \/ Verifies(f)
  <2>1. Verify(t) => Verify(s) \/ Verifies(f)
    BY <1>1, <1>2 DEF Verify
  <2>2. Verify(s) => Verify(t)
    BY <1>1, <1>2 DEF Verify
  <2>3. Verifies(f) => Verify(t)
    BY <1>1, <1>2 DEF Verify
  <2>4. QED
    BY <2>1, <2>2, <2>3
<1>5. Handled(t) <=> Handled(s) \/ Handles(f)
  <2>1. Handled(t) => Handled(s) \/ Handles(f)
    BY <1>1, <1>2 DEF Handled
  <2>2. Handled(s) => Handled(t)
    BY <1>1, <1>2 DEF Handled
  <2>3. Handles(f) => Handled(t)
    BY <1>1, <1>2 DEF Handled
  <2>4. QED
    BY <2>1, <2>2, <2>3
<1>6. QED
  BY <1>3, <1>4, <1>5 DEF t

(* A stack is in order when what is beneath its top is and the top fits.   *)
LEMMA InPlaceAppended ==
  ASSUME NEW s \in Seq(Frames), NEW f \in Frames
  PROVE  InPlace(Append(s, f)) <=> InPlace(s) /\ FitsOn(s, f)
<1> DEFINE t == Append(s, f)
           n == Len(s)
<1>1. /\ n \in Nat /\ DOMAIN t = 1 .. n + 1 /\ DOMAIN s = 1 .. n /\ Len(t) = n + 1
      /\ \A i \in 1 .. n : t[i] = s[i]
      /\ t[n + 1] = f
  BY Appended
<1>2. /\ \A i \in 1 .. n + 1 : i \in 1 .. n \/ i = n + 1
      /\ \A i \in 1 .. n : i \in 1 .. n + 1
      /\ n + 1 \in 1 .. n + 1
      /\ \A i \in 1 .. n : i - 1 \in 0 .. n /\ i < n + 1 /\ ~(n + 1 < i)
      /\ \A i \in 1 .. n : i # n => i + 1 \in 1 .. n /\ i < n
      /\ (n + 1) - 1 = n /\ ~(n < n) /\ ~(n + 1 < n + 1)
  <2> HIDE DEF t, n
  <2>1. /\ \A i \in 1 .. n + 1 : i \in 1 .. n \/ i = n + 1
        /\ \A i \in 1 .. n : i \in 1 .. n + 1
        /\ n + 1 \in 1 .. n + 1
    BY <1>1
  <2>2. /\ \A i \in 1 .. n : i - 1 \in 0 .. n /\ i < n + 1 /\ ~(n + 1 < i)
        /\ \A i \in 1 .. n : i # n => i + 1 \in 1 .. n /\ i < n
        /\ (n + 1) - 1 = n /\ ~(n < n) /\ ~(n + 1 < n + 1)
    BY <1>1
  <2>3. QED
    BY <2>1, <2>2
<1>3. /\ Verify(t) <=> Verify(s) \/ Verifies(f)
      /\ On(t, Eff) <=> On(s, Eff) \/ Runs(f, Eff)
  BY OnStack
<1>4. s # <<>> <=> n \in 1 .. n
  BY EmptySeq, <1>1
<1>5. n \in 1 .. n => Last(s) = s[n]
  BY <1>4, Shortened
<1> HIDE DEF t, n
<1>6. ASSUME InPlace(t) PROVE InPlace(s) /\ FitsOn(s, f)
  <2>1. /\ \A i, j \in 1 .. n + 1 : Runs(t[i], Gate) /\ (Runs(t[j], Eff) \/ Verifies(t[j])) => j < i
        /\ \A i \in 1 .. n + 1 : Handles(t[i]) => \E j \in 1 .. i - 1 : Runs(t[j], Eff)
        /\ Verify(t) => ~On(t, Eff)
        /\ \A i \in 1 .. n + 1 : Verifies(t[i]) /\ i < n + 1 => Runs(t[i + 1], Gate)
    BY <1>1, <1>6 DEF InPlace
  <2>2. \A i, j \in 1 .. n : Runs(s[i], Gate) /\ (Runs(s[j], Eff) \/ Verifies(s[j])) => j < i
    BY <1>1, <1>2, <2>1
  <2>3. ASSUME NEW i \in 1 .. n, Handles(s[i]) PROVE \E j \in 1 .. i - 1 : Runs(s[j], Eff)
    <3>1. PICK j \in 1 .. i - 1 : Runs(t[j], Eff)
      BY <1>1, <1>2, <2>1, <2>3
    <3>2. j \in 1 .. n
      BY <1>1, <3>1
    <3>3. QED
      BY <1>1, <3>1, <3>2
  <2>4. Verify(s) => ~On(s, Eff)
    BY <1>3, <2>1
  <2>5. ASSUME NEW i \in 1 .. n, Verifies(s[i]), i < n PROVE Runs(s[i + 1], Gate)
    <3>1. i \in 1 .. n + 1 /\ i < n + 1 /\ i + 1 \in 1 .. n
      BY <1>1, <2>5
    <3>2. QED
      BY <1>1, <2>1, <2>5, <3>1
  <2>6. InPlace(s)
    BY <1>1, <2>2, <2>3, <2>4, <2>5 DEF InPlace, n
  <2>7. Runs(f, Eff) \/ Verifies(f) => ~On(s, Gate)
    <3>1. ASSUME Runs(f, Eff) \/ Verifies(f), NEW i \in 1 .. n, Runs(s[i], Gate) PROVE FALSE
      BY <1>1, <1>2, <2>1, <3>1
    <3>2. QED
      BY <1>1, <3>1 DEF On
  <2>8. Handles(f) => On(s, Eff)
    <3>1. ASSUME Handles(f) PROVE On(s, Eff)
      <4>1. PICK j \in 1 .. n : Runs(t[j], Eff)
        BY <1>1, <1>2, <2>1, <3>1
      <4>2. QED
        BY <1>1, <4>1 DEF On
    <3>2. QED
      BY <3>1
  <2>9. s # <<>> /\ Verifies(Last(s)) => Runs(f, Gate)
    BY <1>1, <1>2, <1>4, <1>5, <2>1
  <2>10. QED
    BY <1>3, <2>1, <2>6, <2>7, <2>8, <2>9 DEF FitsOn
<1>7. ASSUME InPlace(s), FitsOn(s, f) PROVE InPlace(t)
  <2>1. /\ \A i, j \in 1 .. n : Runs(s[i], Gate) /\ (Runs(s[j], Eff) \/ Verifies(s[j])) => j < i
        /\ \A i \in 1 .. n : Handles(s[i]) => \E j \in 1 .. i - 1 : Runs(s[j], Eff)
        /\ Verify(s) => ~On(s, Eff)
        /\ \A i \in 1 .. n : Verifies(s[i]) /\ i < n => Runs(s[i + 1], Gate)
    BY <1>1, <1>7 DEF InPlace, n
  <2>2. /\ Runs(f, Eff) \/ Verifies(f) => ~On(s, Gate)
        /\ Handles(f) => On(s, Eff)
        /\ Verifies(f) => ~On(s, Eff)
        /\ Runs(f, Eff) => ~Verify(s)
        /\ s # <<>> /\ Verifies(Last(s)) => Runs(f, Gate)
    BY <1>7 DEF FitsOn
  <2>3. ~(Verifies(f) /\ (Runs(f, Eff) \/ Runs(f, Gate))) /\ ~(Runs(f, Gate) /\ Runs(f, Eff))
    BY WatchAssumption DEF Verifies, Runs
  <2>4. ASSUME NEW i \in 1 .. n + 1, NEW j \in 1 .. n + 1, Runs(t[i], Gate), Runs(t[j], Eff) \/ Verifies(t[j])
        PROVE  j < i
    <3>1. CASE i \in 1 .. n /\ j \in 1 .. n
      BY <1>1, <2>1, <2>4, <3>1
    <3>2. CASE i = n + 1
      <4>1. j # n + 1
        BY <1>1, <2>3, <2>4, <3>2
      <4>2. QED
        BY <1>2, <3>2, <4>1
    <3>3. CASE j = n + 1
      <4>1. i # n + 1
        BY <1>1, <2>3, <2>4, <3>3
      <4>2. On(s, Gate)
        BY <1>1, <1>2, <2>4, <4>1 DEF On
      <4>3. QED
        BY <1>1, <2>2, <2>4, <3>3, <4>2
    <3>4. QED
      BY <1>2, <3>1, <3>2, <3>3
  <2>5. ASSUME NEW i \in 1 .. n + 1, Handles(t[i]) PROVE \E j \in 1 .. i - 1 : Runs(t[j], Eff)
    <3>1. CASE i \in 1 .. n
      <4>1. PICK j \in 1 .. i - 1 : Runs(s[j], Eff)
        BY <1>1, <2>1, <2>5, <3>1
      <4>2. j \in 1 .. n
        BY <1>1, <3>1
      <4>3. QED
        BY <1>1, <4>1, <4>2
    <3>2. CASE i = n + 1
      <4>1. PICK j \in 1 .. n : Runs(s[j], Eff)
        BY <1>1, <2>2, <2>5, <3>2 DEF On
      <4>2. QED
        BY <1>1, <1>2, <3>2, <4>1
    <3>3. QED
      BY <1>2, <3>1, <3>2
  <2>6. Verify(t) => ~On(t, Eff)
    BY <1>3, <2>1, <2>2, <2>3
  <2>7. ASSUME NEW i \in 1 .. n + 1, Verifies(t[i]), i < n + 1 PROVE Runs(t[i + 1], Gate)
    <3>1. i \in 1 .. n /\ Verifies(s[i])
      BY <1>1, <1>2, <2>7
    <3>2. CASE i # n
      BY <1>1, <1>2, <2>1, <3>1, <3>2
    <3>3. CASE i = n
      BY <1>1, <1>4, <1>5, <2>2, <3>1, <3>3
    <3>4. QED
      BY <3>2, <3>3
  <2>8. QED
    BY <1>1, <2>4, <2>5, <2>6, <2>7 DEF InPlace
<1>8. QED
  BY <1>6, <1>7 DEF t

-----------------------------------------------------------------------------
(* What the operations of Contexts keep.                                   *)

(* All that is put back when the top frame is dropped. *)
LEMMA ContextAppended ==
  ASSUME NEW s \in Seq(Frames), NEW f \in Frames, NEW c, NEW a, NEW r, NEW u \in Nat
  PROVE  /\ f.kind = "verify" =>
              (ContextFits(Append(s, f), c, a, r, u) <=> ContextFits(s, c, a, r, u))
         /\ f.kind = "enter" =>
              (ContextFits(Append(s, f), c, a, r, u) <=>
                 ContextFits(s, f.default, f.anchor, r, u) /\ c = f.reactor /\ a = f.reactor)
         /\ f.kind = "compute" =>
              (ContextFits(Append(s, f), c, a, r, u) <=>
                 ContextFits(s, c, a, f.outer, f.depth) /\ r = Home[f.node] /\ u = 0)
         /\ f.kind = "untrack" =>
              /\ ContextFits(s, c, a, r, u) => ContextFits(Append(s, f), c, a, r, u + 1)
              /\ ContextFits(Append(s, f), c, a, r, u) => u > 0 /\ ContextFits(s, c, a, r, u - 1)
<1>1. CASE f.kind = "verify"
  BY <1>1, DefaultsAppended, RunsAppended, DepthAppended DEF ContextFits
<1>2. CASE f.kind = "enter"
  BY <1>2, DefaultsAppended, RunsAppended, DepthAppended DEF ContextFits
<1>3. CASE f.kind = "compute"
  BY <1>3, DefaultsAppended, RunsAppended, DepthAppended DEF ContextFits
<1>4. CASE f.kind = "untrack"
  BY <1>4, DefaultsAppended, RunsAppended, DepthAppended DEF ContextFits
<1>5. QED
  BY <1>1, <1>2, <1>3, <1>4

(* The frames that are pushed. *)
LEMMA NewFrames ==
  /\ \A r \in Reactors, c, a \in Somewhere :
       [kind |-> "enter", reactor |-> r, default |-> c, anchor |-> a] \in Frames
  /\ \A x \in Views \cup Values \cup {None} : [kind |-> "untrack", for |-> x] \in Frames
  /\ \A n \in Computations, u \in Nat, r \in Somewhere :
       [kind |-> "compute", node |-> n, depth |-> u, outer |-> r] \in Frames
  /\ [kind |-> "verify"] \in Frames
BY DEF Frames

(* The top frame and what is beneath it. *)
LEMMA TopType ==
  ASSUME ContextType, ~Idle
  PROVE  /\ Top \in Frames /\ Front(stack) \in Seq(Frames) /\ stack = Append(Front(stack), Top)
         /\ Len(stack) \in Nat \ {0} /\ Len(Front(stack)) = Len(stack) - 1
BY Shortened, FrontAndLast DEF ContextType, Idle, Top

LEMMA EnterKeeps ==
  ASSUME ContextType, ContextInv, NEW r \in Reactors, Enter(r)
  PROVE  ContextType' /\ ContextInv'
<1>1. PICK f \in Frames : f = [kind |-> "enter", reactor |-> r, default |-> current, anchor |-> anchored]
  BY NewFrames DEF ContextType
<1>2. f.kind = "enter" /\ f.reactor = r /\ f.default = current /\ f.anchor = anchored
  BY <1>1
<1>3. /\ stack' = Append(stack, f) /\ current' = r /\ anchored' = r
      /\ untracked' = untracked /\ running' = running
  BY <1>1 DEF Enter, Push, tracking
<1>4. ContextFits(Append(stack, f), r, r, running, untracked)
  BY <1>2, ContextAppended DEF ContextType, ContextInv
<1>5. QED
  BY <1>3, <1>4, Appended DEF ContextType, ContextInv, Somewhere

LEMMA ExitKeeps ==
  ASSUME ContextType, ContextInv, Exit
  PROVE  ContextType' /\ ContextInv'
<1>1. PICK f \in Frames, s \in Seq(Frames) : f = Top /\ s = Front(stack) /\ stack = Append(s, f)
  BY TopType DEF Exit, OnTop
<1>2. /\ f.kind = "enter" /\ stack' = s /\ current' = f.default /\ anchored' = f.anchor
      /\ untracked' = untracked /\ running' = running
  BY <1>1 DEF Exit, OnTop, Pop, tracking
<1>3. ContextFits(s, f.default, f.anchor, running, untracked)
  BY <1>1, <1>2, ContextAppended DEF ContextType, ContextInv
<1>4. QED
  BY <1>2, <1>3, FrameType DEF ContextType, ContextInv

LEMMA UntrackKeeps ==
  ASSUME ContextType, ContextInv, NEW x \in Views \cup Values \cup {None}, Untrack(x)
  PROVE  ContextType' /\ ContextInv'
<1>1. PICK f \in Frames : f = [kind |-> "untrack", for |-> x]
  BY NewFrames
<1>2. f.kind = "untrack"
  BY <1>1
<1>3. /\ stack' = Append(stack, f) /\ current' = current /\ anchored' = anchored
      /\ untracked' = untracked + 1 /\ running' = running
  BY <1>1 DEF Untrack, Push, defaults
<1>4. ContextFits(Append(stack, f), current, anchored, running, untracked + 1)
  BY <1>2, ContextAppended DEF ContextType, ContextInv
<1>5. QED
  BY <1>3, <1>4, Appended DEF ContextType, ContextInv

LEMMA EndUntrackKeeps ==
  ASSUME ContextType, ContextInv, EndUntrack
  PROVE  ContextType' /\ ContextInv'
<1>1. PICK f \in Frames, s \in Seq(Frames) : f = Top /\ s = Front(stack) /\ stack = Append(s, f)
  BY TopType DEF EndUntrack, OnTop
<1>2. /\ f.kind = "untrack" /\ stack' = s /\ current' = current /\ anchored' = anchored
      /\ untracked' = (IF untracked = 0 THEN 0 ELSE untracked - 1) /\ running' = running
  BY <1>1 DEF EndUntrack, OnTop, Pop, defaults
<1>3. untracked > 0 /\ ContextFits(s, current, anchored, running, untracked - 1)
  BY <1>1, <1>2, ContextAppended DEF ContextType, ContextInv
<1>4. untracked' = untracked - 1 /\ untracked' \in Nat
  BY <1>2, <1>3 DEF ContextType
<1>5. QED
  BY <1>2, <1>3, <1>4 DEF ContextType, ContextInv

(* Also for the effect's frame in the place of the verification's. *)
LEMMA ComputeKeeps ==
  ASSUME ContextType, NEW s \in Seq(Frames), NEW n \in Computations,
         ContextFits(s, current, anchored, running, untracked),
         stack' = Append(s, ComputeFrame(n)), untracked' = 0, running' = Home[n],
         UNCHANGED <<current, anchored>>
  PROVE  ContextType' /\ ContextInv'
<1>1. PICK f \in Frames : f = ComputeFrame(n)
  BY NewFrames DEF ContextType, ComputeFrame
<1>2. f.kind = "compute" /\ f.node = n /\ f.depth = untracked /\ f.outer = running
  BY <1>1 DEF ComputeFrame
<1>3. ContextFits(Append(s, f), current, anchored, Home[n], 0)
  BY <1>2, ContextAppended
<1>4. Home[n] \in Somewhere
  BY ContextsAssumption DEF Somewhere
<1>5. QED
  BY <1>1, <1>3, <1>4, Appended DEF ContextType, ContextInv

LEMMA BeginComputeKeeps ==
  ASSUME ContextType, ContextInv, NEW n \in Computations, BeginCompute(n)
  PROVE  ContextType' /\ ContextInv'
<1>1. /\ stack' = Append(stack, ComputeFrame(n)) /\ untracked' = 0 /\ running' = Home[n]
      /\ UNCHANGED <<current, anchored>>
  BY DEF BeginCompute, Push, defaults
<1>2. QED
  BY <1>1, ComputeKeeps DEF ContextType, ContextInv

LEMMA EndComputeKeeps ==
  ASSUME ContextType, ContextInv, EndCompute
  PROVE  ContextType' /\ ContextInv'
<1>1. PICK f \in Frames, s \in Seq(Frames) : f = Top /\ s = Front(stack) /\ stack = Append(s, f)
  BY TopType DEF EndCompute, OnTop
<1>2. /\ f.kind = "compute" /\ stack' = s /\ current' = current /\ anchored' = anchored
      /\ untracked' = f.depth /\ running' = f.outer
  BY <1>1 DEF EndCompute, OnTop, Pop, defaults
<1>3. ContextFits(s, current, anchored, f.outer, f.depth)
  BY <1>1, <1>2, ContextAppended DEF ContextType, ContextInv
<1>4. QED
  BY <1>2, <1>3, FrameType DEF ContextType, ContextInv

LEMMA VerifyKeeps ==
  ASSUME ContextType, ContextInv, UNCHANGED <<current, anchored, untracked, running>>,
         \/ stack' = Append(stack, [kind |-> "verify"])
         \/ OnTop("verify") /\ stack' = Front(stack)
  PROVE  ContextType' /\ ContextInv'
<1>1. CASE stack' = Append(stack, [kind |-> "verify"])
  <2>1. PICK f \in Frames : f = [kind |-> "verify"] /\ f.kind = "verify"
    BY NewFrames
  <2>2. ContextFits(Append(stack, f), current, anchored, running, untracked)
    BY <2>1, ContextAppended DEF ContextType, ContextInv
  <2>3. QED
    BY <1>1, <2>1, <2>2, Appended DEF ContextType, ContextInv
<1>2. CASE OnTop("verify") /\ stack' = Front(stack)
  <2>1. PICK f \in Frames, s \in Seq(Frames) : f = Top /\ s = Front(stack) /\ stack = Append(s, f)
    BY <1>2, TopType DEF OnTop
  <2>2. ContextFits(s, current, anchored, running, untracked)
    BY <1>2, <2>1, ContextAppended DEF ContextType, ContextInv, OnTop
  <2>3. QED
    BY <1>2, <2>1, <2>2 DEF ContextType, ContextInv
<1>3. QED
  BY <1>1, <1>2

(* A guard's reactor is kept alive by the anchor, so that no other becomes  *)
(* the default while the guard is held.                                    *)
LEMMA AmbientKeeps ==
  ASSUME ContextType, ContextInv, Ambient
  PROVE  ContextType' /\ ContextInv'
<1>1. anchored' = anchored /\ untracked' = untracked /\ running' = running /\ stack' = stack
  BY DEF Ambient, tracking
<1>2. CASE try_current # None
  <2>1. current' = current
    BY <1>2 DEF Ambient
  <2>2. QED
    BY <1>1, <2>1 DEF ContextType, ContextInv
<1>3. CASE try_current = None
  <2>1. current' \in Reactors
    BY <1>3 DEF Ambient
  <2>2. \A j \in 1 .. Len(stack) : ~Nearest(stack, "enter", Len(stack), j)
    <3>1. SUFFICES ASSUME NEW j \in 1 .. Len(stack), Nearest(stack, "enter", Len(stack), j)
                   PROVE  FALSE
      OBVIOUS
    <3>2. current = stack[j].reactor /\ anchored = stack[j].reactor
      BY <3>1 DEF ContextInv, ContextFits, DefaultsFit, EnteredIs
    <3>3. stack[j] \in Frames /\ stack[j].kind = "enter"
      BY <3>1, ElementOfSeq DEF Nearest, ContextType
    <3>4. current \in Reactors
      BY <3>2, <3>3, FrameType
    <3>5. Alive(current)
      BY <3>2 DEF Alive
    <3>6. QED
      BY <1>3, <3>4, <3>5, ContextsAssumption DEF try_current
  <2>3. EnteredIs(stack, Len(stack), current', anchored)
    BY <2>2 DEF EnteredIs
  <2>4. DefaultsFit(stack, current', anchored)
    BY <2>3 DEF ContextInv, ContextFits, DefaultsFit
  <2>5. QED
    BY <1>1, <2>1, <2>4 DEF ContextType, ContextInv, ContextFits, Somewhere
<1>4. QED
  BY <1>2, <1>3

(* The rest leaves defaults, depth and stack alone. *)
LEMMA ContextStays ==
  ASSUME ContextType, ContextInv, UNCHANGED <<current, anchored, untracked, running, stack>>
  PROVE  ContextType' /\ ContextInv'
BY DEF ContextType, ContextInv

-----------------------------------------------------------------------------
(* Types and contexts along the steps of a watch.                          *)

LEMMA ViewNodes == Views \subseteq Sources /\ Views \subseteq Computations /\ {Gate, Eff} \subseteq Computations
BY ViewsAssumption, WatchAssumption

LEMMA GuardsContext ==
  ASSUME TypeOK, ContextInv, Guards
  PROVE  TypeOK' /\ ContextInv'
<1>1. MadeType' /\ WatchType'
  BY DEF Guards, TypeOK, MadeType, WatchType, watchVars, memo, effect
<1>2. ContextType' /\ ContextInv'
  <2>1. CASE \E r \in Reactors : New(r)
    BY <2>1, ContextStays DEF New, tracking, TypeOK
  <2>2. CASE \E r \in Reactors : Enter(r)
    BY <2>2, EnterKeeps DEF TypeOK
  <2>3. CASE \E r \in Reactors : Release(r)
    BY <2>3, ContextStays DEF Release, TypeOK
  <2>4. CASE Ambient
    BY <2>4, AmbientKeeps DEF TypeOK
  <2>5. CASE Untrack(None)
    BY <2>5, UntrackKeeps DEF TypeOK
  <2>6. CASE \E n \in Computations : BeginCompute(n)
    BY <2>6, BeginComputeKeeps DEF TypeOK
  <2>7. QED
    BY <2>1, <2>2, <2>3, <2>4, <2>5, <2>6 DEF Guards
<1>3. QED
  BY <1>1, <1>2 DEF TypeOK

(* What is mapped is an observable's node. *)
LEMMA ObservableNode == \A h \in Observables : h.node \in Sources \cup {None}
BY DEF Observables, Constant

LEMMA MakeType ==
  ASSUME MadeType, NEW v \in Views, NEW how \in {"map", "writable"}, NEW x \in Sources \cup {None},
         Make(v, how, x)
  PROVE  MadeType'
BY DEF MadeType, Make

LEMMA MakeOnCurrentKeeps ==
  ASSUME ContextType, ContextInv, NEW v, MakeOnCurrent(v) \/ UNCHANGED contextVars
  PROVE  ContextType' /\ ContextInv'
<1>1. CASE MakeOnCurrent(v)
  BY <1>1, AmbientKeeps DEF MakeOnCurrent
<1>2. CASE UNCHANGED contextVars
  BY <1>2, ContextStays DEF contextVars, defaults, tracking
<1>3. QED
  BY <1>1, <1>2

LEMMA DeriveContext ==
  ASSUME TypeOK, ContextInv, Derive
  PROVE  TypeOK' /\ ContextInv'
<1>1. WatchType'
  BY DEF Derive, TypeOK, WatchType, watchVars, memo, effect
<1>2. ASSUME NEW v \in Views, NEW h \in Observables, Map(v, h)
      PROVE  MadeType' /\ ContextType' /\ ContextInv'
  <2>1. MadeType'
    BY <1>2, MakeType, ObservableNode DEF Map, TypeOK
  <2>2. ContextType' /\ ContextInv'
    BY <1>2, MakeOnCurrentKeeps DEF Map, TypeOK
  <2>3. QED
    BY <2>1, <2>2
<1>3. ASSUME NEW v \in Views, NEW x \in Sources, MakeWritable(v, x)
      PROVE  MadeType' /\ ContextType' /\ ContextInv'
  <2>1. MadeType'
    BY <1>3, MakeType DEF MakeWritable, TypeOK
  <2>2. ContextType' /\ ContextInv'
    BY <1>3, MakeOnCurrentKeeps DEF MakeWritable, TypeOK
  <2>3. QED
    BY <2>1, <2>2
<1>4. ASSUME NEW v \in Views, CallSetter(v)
      PROVE  MadeType' /\ ContextType' /\ ContextInv'
  BY <1>4, UntrackKeeps DEF CallSetter, MadeType, TypeOK
<1>5. ASSUME NEW v \in Views, Refresh(v)
      PROVE  MadeType' /\ ContextType' /\ ContextInv'
  BY <1>5, BeginComputeKeeps, ViewNodes DEF Refresh, MadeType, TypeOK
<1>6. ASSUME NEW x, Observe(x) PROVE ContextType' /\ ContextInv'
  BY <1>6, ContextStays DEF Observe, defaults, TypeOK
<1>7. ASSUME NEW x, Read(x)
      PROVE  MadeType' /\ ContextType' /\ ContextInv'
  BY <1>6, <1>7 DEF Read, MadeType, TypeOK
<1>8. CASE ReadInput
  <2>1. MadeType'
    BY <1>8 DEF ReadInput, MadeType, TypeOK
  <2>2. PICK x : x = Input
    OBVIOUS
  <2>3. (x \in Views /\ BeginCompute(x)) \/ Observe(x)
    BY <1>8, <2>2 DEF ReadInput
  <2>4. ContextType' /\ ContextInv'
    BY <1>6, <2>3, BeginComputeKeeps, ViewNodes DEF TypeOK
  <2>5. QED
    BY <1>1, <2>1, <2>4 DEF TypeOK
<1>9. CASE Return
  BY <1>1, <1>9, EndComputeKeeps DEF Return, MadeType, TypeOK
<1>10. QED
  BY <1>1, <1>2, <1>3, <1>4, <1>5, <1>7, <1>8, <1>9 DEF Derive, TypeOK

LEMMA DropsContext ==
  ASSUME TypeOK, ContextInv, Drops
  PROVE  TypeOK' /\ ContextInv'
<1>1. MadeType' /\ WatchType'
  BY DEF Drops, TypeOK, MadeType, WatchType, watchVars, memo, effect
<1>2. ContextType' /\ ContextInv'
  BY ExitKeeps, EndUntrackKeeps, EndComputeKeeps DEF Drops, TypeOK
<1>3. QED
  BY <1>1, <1>2 DEF TypeOK

LEMMA StaysContext ==
  ASSUME TypeOK, ContextInv, (\E v \in Values : Set(v)) \/ Dispose \/ Panic \/ UNCHANGED vars
  PROVE  TypeOK' /\ ContextInv'
<1>1. ContextType' /\ ContextInv'
  <2>1. UNCHANGED <<current, anchored, untracked, running, stack>>
    BY DEF Set, Dispose, Panic, vars, contextVars, defaults, tracking
  <2>2. QED
    BY <2>1, ContextStays DEF TypeOK
<1>2. MadeType'
  BY DEF Set, Dispose, Panic, vars, TypeOK, MadeType
<1>3. CASE \E v \in Values : Set(v)
  <2>1. WatchType'
    BY <1>3 DEF Set, TypeOK, WatchType
  <2>2. QED
    BY <1>1, <1>2, <2>1 DEF TypeOK
<1>4. CASE Dispose \/ Panic \/ UNCHANGED vars
  <2>1. WatchType'
    BY <1>4 DEF Dispose, Panic, vars, watchVars, memo, effect, TypeOK, WatchType
  <2>2. QED
    BY <1>1, <1>2, <2>1 DEF TypeOK
<1>5. QED
  BY <1>3, <1>4

(* What a flush does, one case a conjunct. *)
LEMMA FlushCases ==
  ASSUME Flush, mark \in {"clean", "check", "dirty"}
  PROVE  \/ /\ Active(Eff) \/ mark = "clean"
            /\ owed' = (owed \/ Active(Eff)) /\ UNCHANGED <<mark, body, contextVars>>
         \/ /\ ~Active(Eff) /\ mark = "dirty" /\ mark' = "clean" /\ owed' = owed /\ StartEffect
         \/ /\ ~Active(Eff) /\ mark = "check" /\ mark' = "clean" /\ owed' = owed /\ body' = body
            /\ UNCHANGED <<defaults, tracking>> /\ Push([kind |-> "verify"])
<1>1. CASE Active(Eff) \/ mark = "clean"
  BY <1>1 DEF Flush
<1>2. CASE ~Active(Eff) /\ mark = "dirty"
  BY <1>2 DEF Flush
<1>3. CASE ~Active(Eff) /\ mark = "check"
  BY <1>3 DEF Flush
<1>4. QED
  BY <1>1, <1>2, <1>3

LEMMA FlushContext ==
  ASSUME TypeOK, ContextInv, Flush
  PROVE  TypeOK' /\ ContextInv'
<1>1. /\ made' = made /\ value' = value /\ gate' = gate /\ moved' = moved /\ disposed' = disposed
      /\ queued' = FALSE
  BY DEF Flush, memo
<1>2. MadeType'
  BY <1>1 DEF TypeOK, MadeType
<1>3. CASE owed' = (owed \/ Active(Eff)) /\ UNCHANGED <<mark, body, contextVars>>
  <2>1. WatchType'
    BY <1>1, <1>3 DEF TypeOK, WatchType, Active
  <2>2. ContextType' /\ ContextInv'
    BY <1>3, ContextStays DEF TypeOK, contextVars, defaults, tracking
  <2>3. QED
    BY <1>2, <2>1, <2>2 DEF TypeOK
<1>4. CASE mark' = "clean" /\ owed' = owed /\ StartEffect
  <2>1. WatchType'
    BY <1>1, <1>4 DEF TypeOK, WatchType
  <2>2. ContextType' /\ ContextInv'
    BY <1>4, BeginComputeKeeps, ViewNodes DEF TypeOK, StartEffect
  <2>3. QED
    BY <1>2, <2>1, <2>2 DEF TypeOK
<1>5. CASE mark' = "clean" /\ owed' = owed /\ UNCHANGED <<defaults, tracking>> /\ Push([kind |-> "verify"])
  <2>1. WatchType'
    BY <1>1, <1>5 DEF TypeOK, WatchType
  <2>2. ContextType' /\ ContextInv'
    BY <1>5, VerifyKeeps DEF TypeOK, defaults, tracking, Push
  <2>3. QED
    BY <1>2, <2>1, <2>2 DEF TypeOK
<1>6. QED
  BY <1>3, <1>4, <1>5, FlushCases DEF TypeOK, WatchType

LEMMA VerifiedContext ==
  ASSUME TypeOK, ContextInv, Verified
  PROVE  TypeOK' /\ ContextInv'
<1>1. MadeType' /\ WatchType'
  BY DEF Verified, memo, TypeOK, MadeType, WatchType
<1>2. CASE moved /\ ~disposed
  <2>1. PICK f \in Frames, s \in Seq(Frames) : f = Top /\ s = Front(stack) /\ stack = Append(s, f)
    BY TopType DEF Verified, OnTop, TypeOK
  <2>2. /\ f.kind = "verify" /\ stack' = Append(s, ComputeFrame(Eff)) /\ untracked' = 0
        /\ running' = Home[Eff] /\ UNCHANGED <<current, anchored>>
    BY <1>2, <2>1 DEF Verified, OnTop, defaults
  <2>3. ContextFits(s, current, anchored, running, untracked)
    BY <2>1, <2>2, ContextAppended DEF TypeOK, ContextType, ContextInv
  <2>4. QED
    BY <1>1, <2>2, <2>3, ComputeKeeps, ViewNodes DEF TypeOK
<1>3. CASE ~(moved /\ ~disposed)
  <2>1. OnTop("verify") /\ stack' = Front(stack) /\ UNCHANGED <<current, anchored, untracked, running>>
    BY <1>3 DEF Verified, Pop, defaults, tracking
  <2>2. QED
    BY <1>1, <2>1, VerifyKeeps DEF TypeOK
<1>4. QED
  BY <1>2, <1>3

LEMMA RunContext ==
  ASSUME TypeOK, ContextInv, ComputeGate \/ ReturnGate \/ Call \/ HandlerReturn \/ FinishEffect
  PROVE  TypeOK' /\ ContextInv'
<1>1. CASE ComputeGate
  <2>1. MadeType' /\ WatchType'
    BY <1>1 DEF ComputeGate, effect, TypeOK, MadeType, WatchType
  <2>2. QED
    BY <1>1, <2>1, BeginComputeKeeps, ViewNodes DEF ComputeGate, TypeOK
<1>2. CASE ReturnGate
  <2>1. MadeType' /\ WatchType'
    BY <1>2 DEF ReturnGate, effect, TypeOK, MadeType, WatchType
  <2>2. QED
    BY <1>2, <2>1, EndComputeKeeps DEF ReturnGate, TypeOK
<1>3. CASE Call
  <2>1. MadeType' /\ WatchType'
    BY <1>3 DEF Call, TypeOK, MadeType, WatchType
  <2>2. gate.val \in Views \cup Values \cup {None}
    BY DEF TypeOK, WatchType
  <2>3. QED
    BY <1>3, <2>1, <2>2, UntrackKeeps DEF Call, TypeOK
<1>4. CASE HandlerReturn
  <2>1. MadeType' /\ WatchType'
    BY <1>4 DEF HandlerReturn, memo, effect, TypeOK, MadeType, WatchType
  <2>2. QED
    BY <1>4, <2>1, EndUntrackKeeps DEF HandlerReturn, TypeOK
<1>5. CASE FinishEffect
  <2>1. MadeType' /\ WatchType'
    BY <1>5 DEF FinishEffect, memo, handler, TypeOK, MadeType, WatchType
  <2>2. QED
    BY <1>5, <2>1, EndComputeKeeps DEF FinishEffect, TypeOK
<1>6. QED
  BY <1>1, <1>2, <1>3, <1>4, <1>5

LEMMA UnwindContext ==
  ASSUME TypeOK, ContextInv, Unwind
  PROVE  TypeOK' /\ ContextInv'
<1>1. MadeType'
  BY DEF Unwind, TypeOK, MadeType
<1>2. WatchType'
  BY DEF Unwind, TypeOK, WatchType
<1>3. EndUntrack \/ EndCompute \/ (OnTop("verify") /\ Pop /\ UNCHANGED <<defaults, tracking>>)
  BY DEF Unwind
<1>4. ContextType' /\ ContextInv'
  <2>1. CASE OnTop("verify") /\ Pop /\ UNCHANGED <<defaults, tracking>>
    BY <2>1, VerifyKeeps DEF Pop, defaults, tracking, TypeOK
  <2>2. QED
    BY <1>3, <2>1, EndUntrackKeeps, EndComputeKeeps DEF TypeOK
<1>5. QED
  BY <1>1, <1>2, <1>4 DEF TypeOK

LEMMA ContextInit == Init => TypeOK /\ ContextInv
<1> SUFFICES ASSUME Init PROVE TypeOK /\ ContextInv
  OBVIOUS
<1>1. /\ current = None /\ anchored = None /\ untracked = 0 /\ running = None /\ stack = <<>>
      /\ made = [v \in Views |-> Unmade] /\ value \in Values /\ gate = [val |-> None, stale |-> TRUE]
      /\ mark = "dirty" /\ queued = TRUE /\ owed = FALSE /\ disposed = FALSE
  BY DEF Init
<1>2. TypeOK
  <2>1. ContextType
    BY <1>1 DEF ContextType, Somewhere
  <2>2. MadeType
    <3>1. Unmade \in [by : {"map", "writable", None}, of : Sources \cup {None}]
      BY DEF Unmade
    <3>2. QED
      BY <1>1, <3>1 DEF MadeType
  <2>3. WatchType
    BY <1>1 DEF WatchType
  <2>4. QED
    BY <2>1, <2>2, <2>3 DEF TypeOK
<1>3. Len(stack) = 0 /\ DOMAIN stack = {}
  BY <1>1
<1>4. DefaultsFit(stack, current, anchored)
  BY <1>3 DEF DefaultsFit, EnteredIs
<1>5. RunsFit(stack, running)
  BY <1>1, <1>3 DEF RunsFit, RunningIs
<1>6. DepthFits(stack, untracked)
  <2> DEFINE d == [i \in 0 .. 0 |-> 0]
  <2>1. d \in [0 .. 0 -> Nat] /\ d[0] = 0
    OBVIOUS
  <2> HIDE DEF d
  <2>2. Traces(d, stack)
    BY <1>3, <2>1 DEF Traces
  <2>3. QED
    BY <1>1, <1>3, <2>1, <2>2 DEF DepthFits
<1>7. QED
  BY <1>2, <1>4, <1>5, <1>6 DEF ContextInv, ContextFits

LEMMA ContextStep == TypeOK /\ ContextInv /\ [Next]_vars => TypeOK' /\ ContextInv'
<1> SUFFICES ASSUME TypeOK, ContextInv, [Next]_vars PROVE TypeOK' /\ ContextInv'
  OBVIOUS
<1>1. CASE Guards \/ Derive \/ Drops
  BY <1>1, GuardsContext, DeriveContext, DropsContext
<1>2. CASE (\E v \in Values : Set(v)) \/ Dispose \/ Panic \/ UNCHANGED vars
  BY <1>2, StaysContext
<1>3. CASE Flush \/ Verified \/ ComputeGate \/ ReturnGate
  BY <1>3, FlushContext, VerifiedContext, RunContext
<1>4. CASE Call \/ HandlerReturn \/ FinishEffect \/ Unwind
  BY <1>4, RunContext, UnwindContext
<1>5. QED
  BY <1>1, <1>2, <1>3, <1>4 DEF Next

-----------------------------------------------------------------------------
(* The innermost frame of a kind.                                          *)

(* A set of positions that is not empty has a largest one. *)
LEMMA InnermostIs ==
  ASSUME NEW n \in Nat, NEW S \in SUBSET (1 .. n), S # {}
  PROVE  Innermost(S) \in S /\ \A y \in S : y <= Innermost(S)
<1> DEFINE Above(x) == {y \in S : y > x}
           D == {Above(x) : x \in S}
<1>1. IsFiniteSet(S)
  BY FS_Interval, FS_Subset, 1 \in Int, n \in Int
<1>2. D \subseteq FiniteSubsetsOf(S) /\ D # {}
  <2>1. \A x \in S : Above(x) \in SUBSET S
    OBVIOUS
  <2>2. \A x \in S : IsFiniteSet(Above(x))
    BY <1>1, <2>1, FS_Subset
  <2>3. \A d \in D : d \in FiniteSubsetsOf(S)
    BY <2>1, <2>2 DEF FiniteSubsetsOf
  <2>4. QED
    BY <2>3
<1>3. PICK d \in D : \A e \in D : ~ (<<e, d>> \in StrictSubsetOrdering(S))
  BY <1>2, FS_StrictSubsetOrderingWellFounded, WFMin
<1>4. PICK x \in S : d = Above(x)
  OBVIOUS
<1>5. \A y \in S : y <= x
  <2> SUFFICES ASSUME NEW y \in S, y > x PROVE FALSE
    OBVIOUS
  <2>1. Above(y) \in D /\ Above(y) \subseteq S /\ d \subseteq S
    BY <1>4
  <2>2. Above(y) \subseteq d /\ Above(y) # d
    <3>1. y \in d /\ y \notin Above(y)
      BY <1>4
    <3>2. \A z \in Above(y) : z \in d
      BY <1>4
    <3>3. QED
      BY <3>1, <3>2
  <2>3. <<Above(y), d>> \in StrictSubsetOrdering(S)
    BY <2>1, <2>2 DEF StrictSubsetOrdering
  <2>4. QED
    BY <1>3, <2>1, <2>3
<1>6. QED
  BY <1>5 DEF Innermost

LEMMA InnermostIsNearest ==
  ASSUME stack \in Seq(Frames), NEW kind, Places(kind) # {}
  PROVE  /\ Innermost(Places(kind)) \in 1 .. Len(stack)
         /\ Nearest(stack, kind, Len(stack), Innermost(Places(kind)))
         /\ \A j \in Places(kind) : j <= Innermost(Places(kind))
<1> DEFINE n == Len(stack)
           i == Innermost(Places(kind))
<1>1. n \in Nat /\ DOMAIN stack = 1 .. n
  BY LenProperties
<1>2. Places(kind) \in SUBSET (1 .. n)
  BY <1>1 DEF Places
<1> HIDE DEF n
<1>3. i \in Places(kind) /\ \A y \in Places(kind) : y <= i
  BY <1>1, <1>2, InnermostIs
<1> HIDE DEF i
<1>4. i \in 1 .. n /\ stack[i].kind = kind
  BY <1>1, <1>3 DEF Places
<1>5. \A m \in i + 1 .. n : stack[m].kind # kind
  <2> SUFFICES ASSUME NEW m \in i + 1 .. n, stack[m].kind = kind PROVE FALSE
    OBVIOUS
  <2>1. m \in 1 .. n /\ ~(m <= i)
    BY <1>1, <1>4
  <2>2. m \in Places(kind)
    BY <1>1, <2>1 DEF Places
  <2>3. QED
    BY <1>3, <2>1, <2>2
<1>6. QED
  BY <1>3, <1>4, <1>5 DEF Nearest, i, n

(* While a guard of Reactor::enter is held, its reactor is the default, and *)
(* alive: also when user code drops its handles, makes nodes with the       *)
(* ambient constructors, and enters, leaves and panics further in.          *)
THEOREM EnteredIsDefaultCorrect == Spec => []EnteredIsDefault
<1>1. TypeOK /\ ContextInv => EnteredIsDefault
  <2> SUFFICES ASSUME TypeOK, ContextInv, Places("enter") # {}
               PROVE  try_current = stack[Innermost(Places("enter"))].reactor
    BY DEF EnteredIsDefault
  <2>1. PICK i \in 1 .. Len(stack) : i = Innermost(Places("enter")) /\ Nearest(stack, "enter", Len(stack), i)
    BY InnermostIsNearest DEF TypeOK, ContextType
  <2>2. current = stack[i].reactor /\ anchored = stack[i].reactor
    BY <2>1 DEF ContextInv, ContextFits, DefaultsFit, EnteredIs
  <2>3. QED
    BY <2>1, <2>2 DEF try_current, Alive
<1>2. QED
  BY <1>1, ContextInit, ContextStep, PTL DEF Spec

(* The depth of untracked regions is that of the innermost computation.     *)
LEMMA UntrackedFits == TypeOK /\ ContextInv => UntrackedMatches
<1> SUFFICES ASSUME TypeOK, ContextInv PROVE UntrackedMatches
  OBVIOUS
<1> DEFINE n == Len(stack)
           start == IF Places("compute") = {} THEN 0 ELSE Innermost(Places("compute"))
<1>1. n \in Nat /\ DOMAIN stack = 1 .. n /\ stack \in Seq(Frames)
  BY LenProperties DEF TypeOK, ContextType
<1>2. untracked > 0 <=> Untracked(stack, n)
  <2>1. PICK d \in [0 .. n -> Nat] : Traces(d, stack) /\ untracked = d[n]
    BY DEF ContextInv, ContextFits, DepthFits
  <2>2. d[0] = 0 /\ \A i \in 1 .. n : d[i] > 0 <=> Untracked(stack, i)
    BY <1>1, <2>1 DEF Traces
  <2>3. CASE n = 0
    <3>1. ~Untracked(stack, 0)
      BY DEF Untracked
    <3>2. QED
      BY <2>1, <2>2, <2>3, <3>1
  <2>4. CASE n # 0
    <3>1. n \in 1 .. n
      BY <1>1, <2>4
    <3>2. QED
      BY <2>1, <2>2, <3>1
  <2>5. QED
    BY <2>3, <2>4
<1>3. start \in 0 .. n /\ \A m \in 1 .. n : m > start => stack[m].kind # "compute"
  <2>1. CASE Places("compute") = {}
    BY <1>1, <2>1 DEF Places
  <2>2. CASE Places("compute") # {}
    <3>1. PICK i \in 1 .. n : i = start /\ \A j \in Places("compute") : j <= i
      BY <1>1, <2>2, InnermostIsNearest
    <3>2. ASSUME NEW m \in 1 .. n, m > i, stack[m].kind = "compute" PROVE FALSE
      BY <1>1, <3>1, <3>2 DEF Places
    <3>3. QED
      BY <1>1, <3>1, <3>2
  <2>3. QED
    BY <2>1, <2>2
<1>4. start > 0 => stack[start].kind = "compute"
  <2>1. CASE Places("compute") # {}
    BY <1>1, <2>1, InnermostIsNearest DEF Nearest
  <2>2. QED
    BY <2>1
<1> HIDE DEF n, start
<1>5. ASSUME Untracked(stack, n) PROVE \E i \in Places("untrack") : i > start
  <2>1. PICK k \in 1 .. n : stack[k].kind = "untrack" /\ \A m \in k .. n : stack[m].kind # "compute"
    BY <1>5 DEF Untracked
  <2>2. k > start
    BY <1>1, <1>3, <1>4, <2>1
  <2>3. QED
    BY <1>1, <2>1, <2>2 DEF Places
<1>6. ASSUME NEW k \in Places("untrack"), k > start PROVE Untracked(stack, n)
  <2>1. k \in 1 .. n /\ stack[k].kind = "untrack"
    BY <1>1 DEF Places
  <2>2. \A m \in k .. n : m \in 1 .. n /\ m > start
    BY <1>1, <1>3, <1>6, <2>1
  <2>3. QED
    BY <1>3, <2>1, <2>2 DEF Untracked
<1>7. (untracked > 0) <=> (\E i \in Places("untrack") : i > start)
  BY <1>2, <1>5, <1>6
<1>8. QED
  BY <1>7 DEF UntrackedMatches, start

(* Reads are recorded exactly when the innermost computation has not been   *)
(* left for an untracked region, for any nesting of computations, regions   *)
(* and panics.                                                              *)
THEOREM UntrackedMatchesCorrect == Spec => []UntrackedMatches
<1>1. QED
  BY UntrackedFits, ContextInit, ContextStep, PTL DEF Spec

(* The dependency <<n, x>> is recorded for the computation that reads. *)
ForInnermost(e) ==
  /\ Places("compute") # {}
  /\ LET i == Innermost(Places("compute"))
     IN stack[i].node = e[1] /\ \A j \in Places("untrack") : j < i

LEMMA UntrackedBefore ==
  ASSUME TypeOK, ContextInv, untracked = 0, Places("compute") # {}
  PROVE  \A j \in Places("untrack") : j < Innermost(Places("compute"))
<1>1. /\ Innermost(Places("compute")) \in 1 .. Len(stack)
      /\ stack[Innermost(Places("compute"))].kind = "compute"
  BY InnermostIsNearest DEF TypeOK, ContextType, Nearest
<1>2. ~ \E j \in Places("untrack") : j > Innermost(Places("compute"))
  BY UntrackedFits DEF UntrackedMatches
<1>3. ASSUME NEW j \in Places("untrack") PROVE j < Innermost(Places("compute"))
  <2>1. stack[j].kind = "untrack" /\ j \in 1 .. Len(stack)
    BY LenProperties DEF Places, TypeOK, ContextType
  <2>2. j # Innermost(Places("compute")) /\ ~(j > Innermost(Places("compute")))
    BY <1>1, <1>2, <2>1
  <2>3. QED
    BY <1>1, <2>1, <2>2
<1>4. QED
  BY <1>3

LEMMA ObserveRecords ==
  ASSUME TypeOK, ContextInv, NEW x, Observe(x), NEW e \in edges', e \notin edges
  PROVE  ForInnermost(e)
<1>1. /\ untracked = 0 /\ Observing(Home[x]) # None /\ running \in {None, Home[x]}
      /\ e = <<Observing(Home[x]), x>>
  BY DEF Observe
<1> DEFINE I == {i \in Places("compute") : Home[stack[i].node] = Home[x]}
           i == Innermost(Places("compute"))
           n == Len(stack)
<1>2. I # {} /\ e[1] = stack[Innermost(I)].node
  BY <1>1 DEF Observing
<1>3. Places("compute") # {} /\ stack \in Seq(Frames) /\ n \in Nat
  BY <1>2 DEF TypeOK, ContextType
<1>4. /\ i \in 1 .. n /\ Nearest(stack, "compute", n, i)
      /\ \A j \in Places("compute") : j <= i
  BY <1>3, InnermostIsNearest
<1> HIDE DEF i
<1>5. stack[i].kind = "compute" /\ i \in Places("compute")
  BY <1>3, <1>4, LenProperties DEF Nearest, Places
<1>6. running = Home[stack[i].node]
  BY <1>4 DEF ContextInv, ContextFits, RunsFit, RunningIs
<1>7. running # None
  <2>1. stack[i].node \in Computations
    BY <1>3, <1>4, <1>5, ElementOfSeq, FrameType
  <2>2. QED
    BY <1>6, <2>1, ContextsAssumption
<1>8. i \in I
  BY <1>1, <1>5, <1>6, <1>7
<1>9. I \in SUBSET (1 .. n)
  BY <1>3, LenProperties DEF Places
<1>10. Innermost(I) \in I /\ \A y \in I : y <= Innermost(I)
  <2> HIDE DEF I
  <2>1. QED
    BY <1>2, <1>3, <1>9, InnermostIs
<1>11. Innermost(I) = i
  <2>1. Innermost(I) <= i /\ i <= Innermost(I) /\ Innermost(I) \in 1 .. n
    BY <1>4, <1>8, <1>9, <1>10
  <2>2. QED
    BY <1>4, <2>1
<1>12. QED
  BY <1>1, <1>2, <1>3, <1>11, UntrackedBefore DEF ForInnermost, i

(* The effect that has the memo's value is the innermost computation. *)
LEMMA CallRecords ==
  ASSUME TypeOK, ContextInv, Call, NEW e \in edges', e \notin edges
  PROVE  ForInnermost(e)
<1> DEFINE n == Len(stack)
           i == Innermost(Places("compute"))
<1>1. e = <<Eff, Gate>> /\ ~Idle /\ Top.kind = "compute" /\ Top.node = Eff
  BY DEF Call, Watching, OnTop
<1>2. stack \in Seq(Frames) /\ stack # <<>>
  BY <1>1 DEF TypeOK, ContextType, Idle
<1>3. n \in Nat \ {0} /\ DOMAIN stack = 1 .. n /\ Top = stack[n]
  BY <1>2, Shortened DEF Top
<1>4. n \in Places("compute")
  BY <1>1, <1>3 DEF Places
<1>5. i \in 1 .. n /\ \A j \in Places("compute") : j <= i
  BY <1>2, <1>4, InnermostIsNearest
<1>6. i = n
  BY <1>3, <1>4, <1>5
<1>7. ASSUME NEW j \in Places("untrack") PROVE j < n
  <2>1. j \in 1 .. n /\ j # n
    BY <1>1, <1>3 DEF Places
  <2>2. n \in Nat
    BY <1>3
  <2> HIDE DEF n
  <2>3. QED
    BY <2>1, <2>2
<1>8. QED
  BY <1>1, <1>3, <1>4, <1>6, <1>7 DEF ForInnermost

(* A dependency is recorded only for the computation that is really         *)
(* reading, whatever reactors and guards are in between.                    *)
THEOREM RecordsInnermostCorrect == Spec => RecordsInnermost
<1>1. ASSUME TypeOK, ContextInv, [Next]_vars, NEW e \in edges', e \notin edges
      PROVE  ForInnermost(e)
  <2>1. CASE Guards
    <3>1. edges' \subseteq edges
      BY <2>1 DEF Guards, New, Enter, Release, Ambient, BeginCompute, tracking
    <3>2. QED
      BY <1>1, <3>1
  <2>2. CASE Derive
    <3>1. ASSUME NEW v, NEW h, Map(v, h) PROVE edges' = edges
      BY <3>1 DEF Map, MakeOnCurrent, Ambient, contextVars, tracking
    <3>2. ASSUME NEW v, NEW x, MakeWritable(v, x) PROVE edges' = edges
      BY <3>2 DEF MakeWritable, MakeOnCurrent, Ambient, contextVars, tracking
    <3>3. CASE \E v \in Views : CallSetter(v)
      BY <1>1, <3>3 DEF CallSetter
    <3>4. CASE \E v \in Views : Refresh(v)
      BY <1>1, <3>4 DEF Refresh, BeginCompute
    <3>5. CASE \E x \in Sources \ {Gate} : Read(x)
      BY <1>1, <3>5, ObserveRecords DEF Read
    <3>6. CASE ReadInput
      <4>1. PICK x : x = Input
        OBVIOUS
      <4>2. BeginCompute(x) \/ Observe(x)
        BY <3>6, <4>1 DEF ReadInput
      <4>3. BeginCompute(x) => e \in edges
        BY <1>1 DEF BeginCompute
      <4>4. QED
        BY <1>1, <4>2, <4>3, ObserveRecords
    <3>7. CASE Return
      BY <1>1, <3>7 DEF Return, EndCompute
    <3>8. QED
      BY <1>1, <2>2, <3>1, <3>2, <3>3, <3>4, <3>5, <3>6, <3>7 DEF Derive
  <2>3. CASE Drops
    BY <1>1, <2>3 DEF Drops, Exit, EndUntrack, EndCompute, tracking
  <2>4. CASE (\E v \in Values : Set(v)) \/ Dispose \/ Panic \/ UNCHANGED vars
    BY <1>1, <2>4 DEF Set, Dispose, Panic, vars, contextVars, tracking
  <2>5. CASE Flush
    <3>1. edges' \subseteq edges
      BY <1>1, <2>5, FlushCases
         DEF TypeOK, WatchType, StartEffect, BeginCompute, contextVars, tracking
    <3>2. QED
      BY <1>1, <3>1
  <2>6. CASE Verified
    BY <1>1, <2>6 DEF Verified, tracking
  <2>7. CASE ComputeGate \/ ReturnGate
    BY <1>1, <2>7 DEF ComputeGate, ReturnGate, BeginCompute, EndCompute
  <2>8. CASE Call
    BY <1>1, <2>8, CallRecords
  <2>9. CASE HandlerReturn \/ FinishEffect
    BY <1>1, <2>9 DEF HandlerReturn, FinishEffect, EndUntrack, EndCompute
  <2>10. CASE Unwind
    BY <1>1, <2>10 DEF Unwind, EndUntrack, EndCompute, tracking
  <2>11. QED
    BY <1>1, <2>1, <2>2, <2>3, <2>4, <2>5, <2>6, <2>7, <2>8, <2>9, <2>10 DEF Next
<1>2. TypeOK /\ ContextInv /\ [Next]_vars =>
        [\A e \in edges' \ edges :
           /\ Places("compute") # {}
           /\ LET i == Innermost(Places("compute"))
              IN stack[i].node = e[1] /\ \A j \in Places("untrack") : j < i]_contextVars
  BY <1>1 DEF ForInnermost
<1>3. QED
  BY <1>2, ContextInit, ContextStep, PTL DEF Spec, RecordsInnermost

-----------------------------------------------------------------------------
(* Mapped views.                                                           *)

LEMMA MappedStep == MadeType /\ MappedAtHome /\ [Next]_vars => MappedAtHome'
<1> SUFFICES ASSUME MadeType, MappedAtHome, [Next]_vars PROVE MappedAtHome'
  OBVIOUS
<1>1. ASSUME made' = made PROVE MappedAtHome'
  BY <1>1 DEF MappedAtHome, MadeBy
<1>2. ASSUME NEW v \in Views, NEW h \in Observables, Map(v, h) PROVE MappedAtHome'
  <2>1. made' = [made EXCEPT ![v] = [by |-> "map", of |-> h.node]]
    BY <1>2 DEF Map, Make
  <2>2. h.node # None => Home[h.node] = Home[v]
    <3>1. h.node # None => h.node \in Sources /\ Home[h.node] \in Reactors
      BY ObservableNode, ContextsAssumption
    <3>2. h.node # None => ReactorOf(h) = Home[h.node] /\ ReactorOf(h) # None
      BY <3>1, ContextsAssumption DEF ReactorOf
    <3>3. QED
      BY <1>2, <3>2 DEF Map
  <2>3. ASSUME NEW w \in Views, made'[w].by = "map", made'[w].of # None
        PROVE  Home[made'[w].of] = Home[w]
    <3>1. CASE w = v
      BY <2>1, <2>2, <2>3, <3>1 DEF MadeType
    <3>2. CASE w # v
      <4>1. made'[w] = made[w]
        BY <2>1, <3>2 DEF MadeType
      <4>2. QED
        BY <2>3, <4>1 DEF MappedAtHome, MadeBy
    <3>3. QED
      BY <3>1, <3>2
  <2>4. QED
    BY <2>3 DEF MappedAtHome, MadeBy
<1>3. ASSUME NEW v \in Views, NEW x, MakeWritable(v, x) PROVE MappedAtHome'
  <2>1. made' = [made EXCEPT ![v] = [by |-> "writable", of |-> x]]
    BY <1>3 DEF MakeWritable, Make
  <2>2. ASSUME NEW w \in Views, made'[w].by = "map", made'[w].of # None
        PROVE  Home[made'[w].of] = Home[w]
    <3>1. w # v
      BY <2>1, <2>2 DEF MadeType
    <3>2. made'[w] = made[w]
      BY <2>1, <3>1 DEF MadeType
    <3>3. QED
      BY <2>2, <3>2 DEF MappedAtHome, MadeBy
  <2>3. QED
    BY <2>2 DEF MappedAtHome, MadeBy
<1>4. CASE Derive
  <2>1. CASE \/ \E v \in Views : CallSetter(v) \/ Refresh(v)
             \/ \E x \in Sources : Read(x)
             \/ ReadInput \/ Return
    BY <1>1, <2>1 DEF CallSetter, Refresh, Read, ReadInput, Return
  <2>2. QED
    BY <1>2, <1>3, <1>4, <2>1 DEF Derive
<1>5. CASE Guards \/ Drops \/ (\E v \in Values : Set(v)) \/ Dispose \/ Panic \/ UNCHANGED vars
  BY <1>1, <1>5 DEF Guards, Drops, Set, Dispose, Panic, vars
<1>6. CASE Flush \/ Verified \/ ComputeGate \/ ReturnGate \/ Call \/ HandlerReturn \/ FinishEffect \/ Unwind
  BY <1>1, <1>6 DEF Flush, Verified, ComputeGate, ReturnGate, Call, HandlerReturn, FinishEffect, Unwind
<1>7. QED
  BY <1>4, <1>5, <1>6 DEF Next

LEMMA MappedInit == Init => MappedAtHome
<1> SUFFICES ASSUME Init, NEW v \in Views PROVE made[v].of = None
  BY DEF MappedAtHome, MadeBy
<1>1. made[v] = Unmade
  BY DEF Init
<1>2. QED
  BY <1>1 DEF Unmade

(* What computes at the top of the stack is the reactor's own. *)
LEMMA TopRuns ==
  ASSUME TypeOK, ContextInv, OnTop("compute")
  PROVE  running = Home[Top.node]
<1>1. PICK f \in Frames, s \in Seq(Frames) : f = Top /\ stack = Append(s, f) /\ f.kind = "compute"
  BY TopType DEF OnTop, TypeOK
<1>2. QED
  BY <1>1, ContextAppended DEF ContextInv, TypeOK, ContextType

(* A mapped view does not panic for reading another reactor, wherever it    *)
(* was made, through whatever erasures, and whoever makes it compute.       *)
THEOREM MapsStayHomeCorrect == Spec => MapsStayHome
<1>1. ASSUME TypeOK, ContextInv, MappedAtHome, Next, Viewing, Top.node \in MadeBy("map")
      PROVE  ~panicking'
  <2>1. ~panicking /\ ~Idle /\ Top.kind = "compute" /\ Top.node \in Views /\ ~UserCode /\ ~Acts
    BY <1>1 DEF Viewing, OnTop, UserCode, Acts
  <2>2. CASE ReadInput
    <3>1. Input # None /\ Home[Input] = Home[Top.node]
      BY <1>1, <2>2 DEF ReadInput, MappedAtHome, Input, MadeBy
    <3>2. running = Home[Input]
      BY <1>1, <2>1, <3>1, TopRuns DEF OnTop
    <3>3. Observe(Input) => ~panicking'
      BY <3>2 DEF Observe
    <3>4. BeginCompute(Input) => ~panicking'
      BY <2>1 DEF BeginCompute, Push
    <3>5. QED
      BY <2>2, <3>3, <3>4 DEF ReadInput
  <2>3. CASE Derive /\ ~ReadInput
    <3>1. Return
      BY <2>1, <2>3 DEF Derive, UserCode, Acts
    <3>2. QED
      BY <2>1, <3>1 DEF Return, EndCompute, Pop
  <2>4. CASE Drops
    BY <1>1, <2>1, <2>4 DEF Drops, Exit, EndUntrack, OnTop
  <2>5. CASE Guards \/ (\E v \in Values : Set(v)) \/ Dispose \/ Panic \/ Flush
    BY <2>1, <2>5 DEF Guards, Set, Dispose, Panic, Flush
  <2>6. CASE Verified \/ Unwind \/ HandlerReturn
    BY <2>1, <2>6 DEF Verified, Unwind, HandlerReturn, Handling, OnTop
  <2>7. CASE ComputeGate \/ Call
    BY <2>1, <2>7 DEF ComputeGate, Call, BeginCompute, Untrack, Push
  <2>8. CASE ReturnGate \/ FinishEffect
    BY <2>1, <2>8 DEF ReturnGate, FinishEffect, EndCompute, Pop
  <2>9. QED
    BY <1>1, <2>2, <2>3, <2>4, <2>5, <2>6, <2>7, <2>8 DEF Next
<1>2. TypeOK /\ ContextInv /\ MappedAtHome /\ [Next]_vars =>
        [Viewing /\ Top.node \in MadeBy("map") => ~panicking']_viewVars
  BY <1>1 DEF vars, viewVars
<1>3. TypeOK /\ MappedAtHome /\ [Next]_vars => MappedAtHome'
  BY MappedStep DEF TypeOK
<1>4. QED
  BY <1>2, <1>3, MappedInit, ContextInit, ContextStep, PTL DEF Spec, MapsStayHome

-----------------------------------------------------------------------------
(* The watch: steps of user code that have nothing to do with it.          *)

(* What the handlers were told, with one more frame. *)
LEMMA ToldOnStack ==
  ASSUME NEW s \in Seq(Frames), NEW f \in Frames
  PROVE  \A x : ToldIs(Append(s, f), x) <=> ToldIs(s, x) /\ (Handles(f) => f.for = x)
<1> DEFINE t == Append(s, f)
           n == Len(s)
<1>1. /\ n \in Nat /\ DOMAIN t = 1 .. n + 1 /\ DOMAIN s = 1 .. n
      /\ \A i \in 1 .. n : t[i] = s[i]
      /\ t[n + 1] = f
  BY Appended
<1> HIDE DEF t, n
<1>2. /\ \A i \in 1 .. n + 1 : i \in 1 .. n \/ i = n + 1
      /\ \A i \in 1 .. n : i \in 1 .. n + 1
      /\ n + 1 \in 1 .. n + 1
  BY <1>1
<1>3. ASSUME NEW x, ToldIs(t, x) PROVE ToldIs(s, x) /\ (Handles(f) => f.for = x)
  BY <1>1, <1>2, <1>3 DEF ToldIs
<1>4. ASSUME NEW x, ToldIs(s, x), Handles(f) => f.for = x PROVE ToldIs(t, x)
  BY <1>1, <1>2, <1>4 DEF ToldIs
<1>5. QED
  BY <1>3, <1>4 DEF t

(* The frames of user code, and stacks that differ in them only. *)
Ordinary(f) == ~Runs(f, Gate) /\ ~Runs(f, Eff) /\ ~Verifies(f) /\ ~Handles(f)
Alike(t, s) ==
  /\ InPlace(t)
  /\ (On(t, Gate) <=> On(s, Gate)) /\ (Verify(t) <=> Verify(s)) /\ (Handled(t) <=> Handled(s))
  /\ \A x : ToldIs(t, x) <=> ToldIs(s, x)

LEMMA OrdinaryPushed ==
  ASSUME ContextType, InPlace(stack), ~OnTop("verify"),
         NEW f \in Frames, Ordinary(f), stack' = Append(stack, f)
  PROVE  Alike(stack', stack)
<1>1. stack \in Seq(Frames)
  BY DEF ContextType
<1>2. FitsOn(stack, f)
  BY DEF FitsOn, Ordinary, OnTop, Top, Idle, Verifies
<1>3. PICK s \in Seq(Frames) : s = stack
  BY <1>1
<1>4. Alike(Append(s, f), s)
  BY <1>2, <1>3, OnStack, ToldOnStack, InPlaceAppended DEF Alike, Ordinary
<1>5. QED
  BY <1>3, <1>4

LEMMA OrdinaryPopped ==
  ASSUME ContextType, InPlace(stack), ~Idle, Ordinary(Top), stack' = Front(stack)
  PROVE  Alike(stack', stack)
<1>1. PICK f \in Frames, s \in Seq(Frames) : f = Top /\ s = Front(stack) /\ stack = Append(s, f)
  BY TopType
<1>2. InPlace(s)
  BY <1>1, InPlaceAppended
<1>3. Alike(s, Append(s, f))
  BY <1>1, <1>2, OnStack, ToldOnStack DEF Alike, Ordinary
<1>4. QED
  BY <1>1, <1>3

LEMMA OrdinarySame ==
  ASSUME InPlace(stack), stack' = stack
  PROVE  Alike(stack', stack)
BY DEF Alike

(* No step of user code makes a dependency on the memo, or takes one of the *)
(* memo and the effect.                                                    *)
EdgesKept ==
  /\ <<Eff, Gate>> \in edges' <=> <<Eff, Gate>> \in edges
  /\ <<Gate, Signal>> \in edges => <<Gate, Signal>> \in edges'

LEMMA AlikeKeeps ==
  ASSUME WatchInv, UNCHANGED watchVars, \A v \in Views : made'[v].of # Gate,
         Alike(stack', stack), EdgesKept
  PROVE  WatchInv'
<1>0. /\ value' = value /\ gate' = gate /\ moved' = moved
      /\ mark' = mark /\ queued' = queued /\ owed' = owed /\ disposed' = disposed /\ body' = body
      /\ previous' = previous /\ told' = told /\ failed' = failed
  BY DEF watchVars, memo, effect, handler
<1>1. InPlace(stack')
  BY DEF Alike
<1>2. HandlersTold'
  BY <1>0 DEF WatchInv, HandlersTold, Alike
<1>3. MemoFits'
  BY <1>0 DEF WatchInv, MemoFits, Alike, EdgesKept
<1>4. DependsOnTold'
  BY <1>0 DEF WatchInv, DependsOnTold, EdgesKept
<1>5. BehindIsOwed'
  BY <1>0 DEF WatchInv, BehindIsOwed, Alike, EdgesKept
<1>6. QED
  BY <1>1, <1>2, <1>3, <1>4, <1>5 DEF WatchInv

(* What the nodes of a watch are not. *)
LEMMA WatchNodes ==
  /\ Gate # Eff
  /\ Home[Eff] = Home[Gate] /\ None \notin Values /\ Values \cap Views = {}
  /\ \A v \in Views : v # Gate /\ v # Eff /\ v \notin Values
BY WatchAssumption

LEMMA BeginOther ==
  ASSUME TypeOK, WatchInv, ~OnTop("verify"), NEW n \in Computations \ {Gate, Eff}, BeginCompute(n)
  PROVE  Alike(stack', stack) /\ EdgesKept
<1>1. PICK f \in Frames : f = ComputeFrame(n)
  BY NewFrames DEF TypeOK, ContextType, ComputeFrame
<1>2. Ordinary(f) /\ stack' = Append(stack, f)
  BY <1>1 DEF BeginCompute, Push, ComputeFrame, Ordinary, Runs, Verifies, Handles
<1>3. EdgesKept
  BY DEF BeginCompute, EdgesKept
<1>4. QED
  BY <1>2, <1>3, OrdinaryPushed DEF TypeOK, WatchInv

LEMMA UntrackOther ==
  ASSUME TypeOK, WatchInv, ~OnTop("verify"), NEW x \in Views \cup {None}, Untrack(x), edges' = edges
  PROVE  Alike(stack', stack) /\ EdgesKept
<1>1. PICK f \in Frames : f = [kind |-> "untrack", for |-> x]
  BY NewFrames
<1>2. Ordinary(f) /\ stack' = Append(stack, f)
  BY <1>1, WatchNodes DEF Untrack, Push, Ordinary, Runs, Verifies, Handles
<1>3. EdgesKept
  BY DEF EdgesKept
<1>4. QED
  BY <1>2, <1>3, OrdinaryPushed DEF TypeOK, WatchInv

LEMMA ObserveOther ==
  ASSUME WatchInv, NEW x, x # Gate, Observe(x)
  PROVE  Alike(stack', stack) /\ EdgesKept
<1>1. stack' = stack /\ (edges' = edges \/ edges' = edges \cup {<<Observing(Home[x]), x>>})
  BY DEF Observe
<1>2. EdgesKept
  BY <1>1 DEF EdgesKept
<1>3. QED
  BY <1>1, <1>2, OrdinarySame DEF WatchInv

LEMMA SameContext ==
  ASSUME WatchInv, stack' = stack, edges' = edges
  PROVE  Alike(stack', stack) /\ EdgesKept
BY OrdinarySame DEF WatchInv, EdgesKept

LEMMA GuardsKeep ==
  ASSUME TypeOK, WatchInv, Guards
  PROVE  WatchInv'
<1>1. ~OnTop("verify") /\ made' = made /\ UNCHANGED watchVars
  BY DEF Guards, UserCode
<1>2. Alike(stack', stack) /\ EdgesKept
  <2>1. CASE \E r \in Reactors : New(r)
    BY <2>1, SameContext DEF New, tracking
  <2>2. ASSUME NEW r \in Reactors, Enter(r) PROVE Alike(stack', stack) /\ EdgesKept
    <3>1. PICK f \in Frames : f = [kind |-> "enter", reactor |-> r, default |-> current, anchor |-> anchored]
      BY NewFrames DEF TypeOK, ContextType
    <3>2. Ordinary(f) /\ stack' = Append(stack, f) /\ edges' = edges
      BY <2>2, <3>1 DEF Enter, Push, tracking, Ordinary, Runs, Verifies, Handles
    <3>3. QED
      BY <1>1, <3>2, OrdinaryPushed DEF TypeOK, WatchInv, EdgesKept
  <2>3. ASSUME NEW r \in Reactors \ {Home[Gate]}, Release(r) PROVE Alike(stack', stack) /\ EdgesKept
    <3>1. stack' = stack /\ edges' = {e \in edges : Home[e[1]] # r}
      BY <2>3 DEF Release
    <3>2. EdgesKept
      BY <2>3, <3>1, WatchNodes DEF EdgesKept
    <3>3. QED
      BY <3>1, <3>2, OrdinarySame DEF WatchInv
  <2>4. CASE Ambient
    BY <2>4, SameContext DEF Ambient, tracking
  <2>5. CASE Untrack(None) /\ UNCHANGED edges
    BY <1>1, <2>5, UntrackOther
  <2>6. CASE \E n \in Computations \ ({Gate, Eff} \cup Views) : BeginCompute(n)
    BY <1>1, <2>6, BeginOther
  <2>7. QED
    BY <2>1, <2>2, <2>3, <2>4, <2>5, <2>6 DEF Guards
<1>3. QED
  BY <1>1, <1>2, AlikeKeeps DEF WatchInv, MemoFits

LEMMA MadeOfOther ==
  ASSUME TypeOK, WatchInv, NEW v \in Views, NEW how, NEW x, x # Gate, Make(v, how, x)
  PROVE  \A w \in Views : made'[w].of # Gate
<1>1. made' = [made EXCEPT ![v] = [by |-> how, of |-> x]]
  BY DEF Make
<1>2. QED
  BY <1>1 DEF TypeOK, MadeType, WatchInv, MemoFits

LEMMA DeriveKeeps ==
  ASSUME TypeOK, WatchInv, Derive
  PROVE  WatchInv'
<1>1. UNCHANGED watchVars /\ ~OnTop("verify")
  BY DEF Derive, Acts, UserCode, ReadInput, Return, Viewing, OnTop
<1>2. \A v \in Views : made[v].of # Gate
  BY DEF WatchInv, MemoFits
<1>3. ASSUME NEW v, MakeOnCurrent(v) \/ UNCHANGED contextVars PROVE Alike(stack', stack) /\ EdgesKept
  BY <1>3, SameContext DEF MakeOnCurrent, Ambient, contextVars, tracking
<1>4. ASSUME NEW v \in Views, NEW h \in Observables, h.node # Gate, Map(v, h)
      PROVE  (\A w \in Views : made'[w].of # Gate) /\ Alike(stack', stack) /\ EdgesKept
  <2>1. MakeOnCurrent(v) \/ UNCHANGED contextVars
    BY <1>4 DEF Map
  <2>2. \A w \in Views : made'[w].of # Gate
    BY <1>4, MadeOfOther DEF Map
  <2>3. QED
    BY <1>3, <2>1, <2>2
<1>5. ASSUME NEW v \in Views, NEW x \in Sources \ {Gate}, MakeWritable(v, x)
      PROVE  (\A w \in Views : made'[w].of # Gate) /\ Alike(stack', stack) /\ EdgesKept
  <2>1. MakeOnCurrent(v) \/ UNCHANGED contextVars
    BY <1>5 DEF MakeWritable
  <2>2. \A w \in Views : made'[w].of # Gate
    BY <1>5, MadeOfOther DEF MakeWritable
  <2>3. QED
    BY <1>3, <2>1, <2>2
<1>6. CASE \/ \E v \in Views : CallSetter(v) \/ Refresh(v)
           \/ \E x \in Sources \ {Gate} : Read(x)
           \/ ReadInput \/ Return
  <2>1. made' = made
    BY <1>6 DEF CallSetter, Refresh, Read, ReadInput, Return
  <2>2. ASSUME NEW v \in Views, CallSetter(v) PROVE Alike(stack', stack) /\ EdgesKept
    BY <1>1, <2>2, UntrackOther DEF CallSetter
  <2>3. ASSUME NEW v \in Views, BeginCompute(v) PROVE Alike(stack', stack) /\ EdgesKept
    <3>1. v \in Computations \ {Gate, Eff}
      BY ViewNodes, WatchNodes
    <3>2. QED
      BY <1>1, <2>3, <3>1, BeginOther
  <2>4. ASSUME NEW x \in Sources \ {Gate}, Read(x) PROVE Alike(stack', stack) /\ EdgesKept
    BY <2>4, ObserveOther DEF Read
  <2>5. ASSUME ReadInput PROVE Alike(stack', stack) /\ EdgesKept
    <3>1. Input # Gate
      BY <1>2, <2>5 DEF ReadInput, Viewing, Input
    <3>2. PICK x : x = Input /\ x # Gate
      BY <3>1
    <3>3. (x \in Views /\ BeginCompute(x)) \/ Observe(x)
      BY <2>5, <3>2 DEF ReadInput
    <3>4. QED
      BY <2>3, <3>2, <3>3, ObserveOther
  <2>6. ASSUME Return PROVE Alike(stack', stack) /\ EdgesKept
    <3>1. ~Idle /\ Top.kind = "compute" /\ Top.node \in Views /\ stack' = Front(stack) /\ edges' = edges
      BY <2>6 DEF Return, Viewing, OnTop, EndCompute, Pop
    <3>2. Ordinary(Top)
      BY <3>1, WatchNodes DEF Ordinary, Runs, Verifies, Handles
    <3>3. QED
      BY <3>1, <3>2, OrdinaryPopped DEF TypeOK, WatchInv, EdgesKept
  <2>7. Alike(stack', stack) /\ EdgesKept
    BY <1>6, <2>2, <2>3, <2>4, <2>5, <2>6 DEF Refresh
  <2>8. QED
    BY <1>1, <1>2, <2>1, <2>7, AlikeKeeps
<1>7. (\A w \in Views : made'[w].of # Gate) /\ Alike(stack', stack) /\ EdgesKept => WatchInv'
  BY <1>1, AlikeKeeps
<1>8. QED
  BY <1>4, <1>5, <1>6, <1>7 DEF Derive

LEMMA DropsKeep ==
  ASSUME TypeOK, WatchInv, Drops
  PROVE  WatchInv'
<1>1. made' = made /\ UNCHANGED watchVars
  BY DEF Drops
<1>2. ~Idle /\ stack' = Front(stack) /\ edges' = edges
  BY DEF Drops, Exit, EndUntrack, EndCompute, Pop, OnTop, tracking
<1>3. Ordinary(Top)
  <2>1. CASE OnTop("enter")
    BY <2>1 DEF OnTop, Ordinary, Runs, Verifies, Handles
  <2>2. CASE OnTop("untrack") /\ ~Handling
    BY <2>2 DEF OnTop, Handling, Ordinary, Runs, Verifies, Handles
  <2>3. CASE OnTop("compute") /\ Top.node \notin {Gate, Eff}
    BY <2>3 DEF OnTop, Ordinary, Runs, Verifies, Handles
  <2>4. QED
    BY <2>1, <2>2, <2>3 DEF Drops, Exit, EndUntrack
<1>4. Alike(stack', stack) /\ EdgesKept
  BY <1>2, <1>3, OrdinaryPopped DEF TypeOK, WatchInv, EdgesKept
<1>5. QED
  BY <1>1, <1>4, AlikeKeeps DEF WatchInv, MemoFits

LEMMA StutterKeeps ==
  ASSUME WatchInv, Panic \/ UNCHANGED vars
  PROVE  WatchInv'
<1>1. stack' = stack /\ edges' = edges /\ made' = made /\ UNCHANGED watchVars
  BY DEF Panic, vars, contextVars, tracking
<1>2. QED
  BY <1>1, SameContext, AlikeKeeps DEF WatchInv, MemoFits

-----------------------------------------------------------------------------
(* The watch: its own steps.                                               *)

LEMMA ActiveOn == \A n : Active(n) <=> On(stack, n)
BY DEF Active, Places, On, Runs

(* The top frame, what is beneath it, and what is left when it goes. *)
LEMMA TopOnStack ==
  ASSUME TypeOK, InPlace(stack), ~Idle
  PROVE  /\ InPlace(Front(stack)) /\ FitsOn(Front(stack), Top)
         /\ \A n : On(stack, n) <=> On(Front(stack), n) \/ Runs(Top, n)
         /\ Verify(stack) <=> Verify(Front(stack)) \/ Verifies(Top)
         /\ Handled(stack) <=> Handled(Front(stack)) \/ Handles(Top)
         /\ \A x : ToldIs(stack, x) <=> ToldIs(Front(stack), x) /\ (Handles(Top) => Top.for = x)
<1>1. PICK f \in Frames, s \in Seq(Frames) : f = Top /\ s = Front(stack) /\ stack = Append(s, f)
  BY TopType DEF TypeOK
<1>2. InPlace(s) /\ FitsOn(s, f)
  BY <1>1, InPlaceAppended
<1>3. /\ \A n : On(Append(s, f), n) <=> On(s, n) \/ Runs(f, n)
      /\ Verify(Append(s, f)) <=> Verify(s) \/ Verifies(f)
      /\ Handled(Append(s, f)) <=> Handled(s) \/ Handles(f)
      /\ \A x : ToldIs(Append(s, f), x) <=> ToldIs(s, x) /\ (Handles(f) => f.for = x)
  BY OnStack, ToldOnStack
<1>4. PICK t : t = stack
  OBVIOUS
<1>5. /\ \A n : On(t, n) <=> On(s, n) \/ Runs(f, n)
      /\ Verify(t) <=> Verify(s) \/ Verifies(f)
      /\ Handled(t) <=> Handled(s) \/ Handles(f)
      /\ \A x : ToldIs(t, x) <=> ToldIs(s, x) /\ (Handles(f) => f.for = x)
  <2>1. t = Append(s, f)
    BY <1>1, <1>4
  <2>2. QED
    BY <1>3, <2>1, Zenon
<1>6. QED
  BY <1>1, <1>2, <1>4, <1>5, Zenon

LEMMA SetKeeps ==
  ASSUME TypeOK, WatchInv, NEW v \in Values, Set(v)
  PROVE  WatchInv'
<1> DEFINE reached == <<Gate, Signal>> \in edges /\ ~gate.stale
           marked == reached /\ <<Eff, Gate>> \in edges /\ ~disposed
<1>1. /\ stack' = stack /\ edges' = edges /\ made' = made /\ value' = v
      /\ gate' = [gate EXCEPT !.stale = @ \/ <<Gate, Signal>> \in edges]
      /\ mark' = (IF marked /\ mark = "clean" THEN "check" ELSE mark)
      /\ queued' = (queued \/ marked)
      /\ moved' = moved /\ owed' = owed /\ disposed' = disposed /\ body' = body
      /\ previous' = previous /\ told' = told /\ failed' = failed
      /\ ~Active(Gate)
  BY DEF Set, contextVars, tracking, handler, Acts
<1>2. gate'.val = gate.val /\ gate'.stale = (gate.stale \/ <<Gate, Signal>> \in edges) /\ gate.stale \in BOOLEAN
  BY <1>1 DEF TypeOK, WatchType
<1>3. ~On(stack, Gate)
  BY <1>1, ActiveOn
<1>4. InPlace(stack') /\ HandlersTold'
  BY <1>1 DEF WatchInv, HandlersTold
<1>5. ~gate.stale => gate.val = value /\ <<Gate, Signal>> \in edges
  BY <1>3 DEF WatchInv, MemoFits
<1>6. MemoFits'
  BY <1>1, <1>2, <1>3, <1>5 DEF WatchInv, MemoFits
<1>7. DependsOnTold'
  BY <1>1, <1>2 DEF WatchInv, DependsOnTold
<1>8. BehindIsOwed'
  <2>1. SUFFICES ASSUME ~disposed, <<Eff, Gate>> \in edges, ~Verify(stack)
                 PROVE  mark' # "clean" /\ (queued' \/ owed')
    BY <1>1 DEF BehindIsOwed
  <2>2. CASE gate.stale
    <3>1. mark # "clean" /\ (queued \/ owed)
      BY <2>1, <2>2 DEF WatchInv, BehindIsOwed
    <3>2. QED
      BY <1>1, <3>1
  <2>3. CASE ~gate.stale
    <3>1. marked
      BY <1>5, <2>1, <2>3
    <3>2. QED
      BY <1>1, <3>1
  <2>4. QED
    BY <2>2, <2>3
<1>9. QED
  BY <1>4, <1>6, <1>7, <1>8 DEF WatchInv

LEMMA DisposeKeeps ==
  ASSUME TypeOK, WatchInv, Dispose
  PROVE  WatchInv'
<1>1. /\ stack' = stack /\ made' = made /\ value' = value /\ gate' = gate /\ moved' = moved
      /\ mark' = mark /\ owed' = owed /\ body' = body
      /\ previous' = previous /\ told' = told /\ failed' = failed
      /\ disposed' = TRUE /\ edges' = {e \in edges : e[1] # Eff}
  BY DEF Dispose, memo, handler
<1>2. InPlace(stack') /\ HandlersTold'
  BY <1>1 DEF WatchInv, HandlersTold
<1>3. /\ <<Gate, Signal>> \in edges => <<Gate, Signal>> \in edges'
      /\ <<Eff, Gate>> \notin edges'
  BY <1>1, WatchNodes
<1>4. MemoFits'
  BY <1>1, <1>3 DEF WatchInv, MemoFits
<1>5. DependsOnTold' /\ BehindIsOwed'
  BY <1>1, <1>3 DEF DependsOnTold, BehindIsOwed
<1>6. QED
  BY <1>2, <1>4, <1>5 DEF WatchInv

(* The effect's frame is pushed where nothing of the watch is. *)
LEMMA StartKeeps ==
  ASSUME TypeOK, WatchInv, NEW s \in Seq(Frames), NEW f \in Frames,
         InPlace(s), ~On(s, Gate), ~On(s, Eff), ~Verify(s), Runs(f, Eff),
         stack' = Append(s, f), edges' = {e \in edges : e[1] # Eff}, body' = "reading",
         made' = made, value' = value, gate' = gate, moved' = moved,
         previous' = previous, told' = told, failed' = failed,
         ~On(stack, Gate), ~Handled(stack)
  PROVE  WatchInv'
<1>1. FitsOn(s, f)
  <2>1. s # <<>> => ~Verifies(Last(s))
    <3>1. SUFFICES ASSUME s # <<>>, Verifies(Last(s)) PROVE Verify(s)
      OBVIOUS
    <3>2. Len(s) \in DOMAIN s /\ Last(s) = s[Len(s)]
      <4>1. Len(s) \in Nat \ {0} /\ DOMAIN s = 1 .. Len(s) /\ Last(s) = s[Len(s)]
        BY <3>1, Shortened
      <4>2. Len(s) \in 1 .. Len(s)
        BY <4>1
      <4>3. QED
        BY <4>1, <4>2
    <3>3. QED
      BY <3>1, <3>2 DEF Verify
  <2>2. QED
    BY <2>1 DEF FitsOn, Runs, Verifies, Handles
<1>2. InPlace(stack')
  BY <1>1, InPlaceAppended
<1>3. ~Handled(s)
  <2>1. \A i \in DOMAIN s : ~Handles(s[i])
    <3>1. SUFFICES ASSUME NEW i \in DOMAIN s, Handles(s[i]) PROVE FALSE
      OBVIOUS
    <3>2. PICK j \in 1 .. i - 1 : Runs(s[j], Eff)
      BY <3>1 DEF InPlace
    <3>3. j \in DOMAIN s
      BY <3>2, LenProperties
    <3>4. QED
      BY <3>2, <3>3 DEF On
  <2>2. QED
    BY <2>1 DEF Handled
<1>4. /\ ~Handled(stack') /\ ~On(stack', Gate)
  <2>1. ~Handles(f) /\ ~Runs(f, Gate)
    BY WatchNodes DEF Runs, Handles
  <2>2. QED
    BY <1>3, <2>1, OnStack
<1>5. HandlersTold'
  <2>1. ToldIs(stack', told)
    BY <1>4 DEF ToldIs, Handled
  <2>2. failed \/ previous = told
    BY DEF WatchInv, HandlersTold
  <2>3. QED
    BY <1>4, <2>1, <2>2 DEF HandlersTold
<1>6. /\ <<Gate, Signal>> \in edges => <<Gate, Signal>> \in edges'
      /\ <<Eff, Gate>> \notin edges'
  BY WatchNodes
<1>7. MemoFits'
  BY <1>4, <1>6 DEF WatchInv, MemoFits
<1>8. DependsOnTold' /\ BehindIsOwed'
  BY <1>6 DEF DependsOnTold, BehindIsOwed
<1>9. QED
  BY <1>2, <1>5, <1>7, <1>8 DEF WatchInv

(* Without the memo and the effect on it a stack has no verification and no *)
(* handler, if none is on top.                                              *)
LEMMA NothingOpen ==
  ASSUME NEW s \in Seq(Frames), InPlace(s)
  PROVE  /\ ~On(s, Eff) => ~Handled(s)
         /\ ~On(s, Gate) /\ (s # <<>> => ~Verifies(Last(s))) => ~Verify(s)
<1>1. DOMAIN s = 1 .. Len(s) /\ Len(s) \in Nat
  BY LenProperties
<1>2. ASSUME ~On(s, Eff), Handled(s) PROVE FALSE
  <2>1. PICK i \in DOMAIN s : Handles(s[i])
    BY <1>2 DEF Handled
  <2>2. PICK j \in 1 .. i - 1 : Runs(s[j], Eff)
    BY <2>1 DEF InPlace
  <2>3. j \in DOMAIN s
    BY <1>1, <2>2
  <2>4. QED
    BY <1>2, <2>2, <2>3 DEF On
<1>3. ASSUME ~On(s, Gate), s # <<>> => ~Verifies(Last(s)), Verify(s) PROVE FALSE
  <2>1. PICK i \in DOMAIN s : Verifies(s[i])
    BY <1>3 DEF Verify
  <2>2. s # <<>> /\ Last(s) = s[Len(s)]
    <3>1. s # <<>>
      BY <1>1, <2>1
    <3>2. QED
      BY <3>1, Shortened
  <2>3. i < Len(s)
    BY <1>1, <1>3, <2>1, <2>2
  <2>4. i + 1 \in DOMAIN s /\ Runs(s[i + 1], Gate)
    BY <1>1, <2>1, <2>3 DEF InPlace
  <2>5. QED
    BY <1>3, <2>4 DEF On
<1>4. QED
  BY <1>2, <1>3

LEMMA FlushKeeps ==
  ASSUME TypeOK, WatchInv, Flush
  PROVE  WatchInv'
<1>1. /\ made' = made /\ value' = value /\ gate' = gate /\ moved' = moved /\ disposed' = disposed
      /\ previous' = previous /\ told' = told /\ failed' = failed /\ queued' = FALSE
      /\ ~OnTop("verify") /\ ~Active(Gate)
  BY DEF Flush, memo, handler, Acts, UserCode
<1>2. PICK s \in Seq(Frames) : s = stack
  BY DEF TypeOK, ContextType
<1>3. InPlace(s) /\ ~On(s, Gate) /\ ~Verify(s)
  <2>1. s # <<>> => ~Verifies(Last(s))
    BY <1>1, <1>2 DEF OnTop, Top, Idle, Verifies
  <2>2. QED
    BY <1>1, <1>2, <2>1, ActiveOn, NothingOpen DEF WatchInv
<1>4. CASE Active(Eff) \/ mark = "clean"
  <2>1. owed' = (owed \/ Active(Eff)) /\ mark' = mark /\ body' = body /\ stack' = stack /\ edges' = edges
    BY <1>4, FlushCases DEF TypeOK, WatchType, contextVars, tracking
  <2>2. InPlace(stack') /\ HandlersTold' /\ MemoFits' /\ DependsOnTold'
    BY <1>1, <2>1 DEF WatchInv, HandlersTold, MemoFits, DependsOnTold
  <2>3. BehindIsOwed'
    BY <1>1, <1>4, <2>1 DEF WatchInv, BehindIsOwed
  <2>4. QED
    BY <2>2, <2>3 DEF WatchInv
<1>5. CASE ~Active(Eff) /\ mark = "dirty"
  <2>1. BeginCompute(Eff) /\ body' = "reading"
    BY <1>5, FlushCases DEF TypeOK, WatchType, StartEffect
  <2>2. PICK f \in Frames : f = ComputeFrame(Eff)
    BY NewFrames, ViewNodes DEF TypeOK, ContextType, ComputeFrame
  <2>3. Runs(f, Eff) /\ stack' = Append(s, f) /\ edges' = {e \in edges : e[1] # Eff}
    BY <1>2, <2>1, <2>2 DEF BeginCompute, Push, ComputeFrame, Runs
  <2>4. ~On(s, Eff) /\ ~Handled(s)
    BY <1>2, <1>3, <1>5, ActiveOn, NothingOpen
  <2>5. QED
    BY <1>1, <1>2, <1>3, <2>1, <2>3, <2>4, StartKeeps
<1>6. CASE ~Active(Eff) /\ mark = "check"
  <2>1. body' = body /\ edges' = edges /\ stack' = Append(s, [kind |-> "verify"])
    BY <1>2, <1>6, FlushCases DEF TypeOK, WatchType, tracking, Push
  <2>2. PICK f \in Frames : f = [kind |-> "verify"]
    BY NewFrames
  <2>3. Verifies(f) /\ ~Runs(f, Gate) /\ ~Runs(f, Eff) /\ ~Handles(f)
    BY <2>2 DEF Verifies, Runs, Handles
  <2>4. s # <<>> => ~Verifies(Last(s))
    BY <1>1, <1>2 DEF OnTop, Top, Idle, Verifies
  <2>5. ~On(s, Eff)
    BY <1>2, <1>6, ActiveOn
  <2>6. FitsOn(s, f)
    BY <1>3, <2>3, <2>4, <2>5 DEF FitsOn
  <2>7. InPlace(stack')
    BY <1>3, <2>1, <2>2, <2>6, InPlaceAppended
  <2>8. /\ ~On(stack', Gate) /\ Verify(stack') /\ (Handled(stack') <=> Handled(s))
        /\ \A x : ToldIs(stack', x) <=> ToldIs(s, x)
    BY <1>3, <2>1, <2>2, <2>3, OnStack, ToldOnStack
  <2>9. HandlersTold'
    BY <1>1, <1>2, <2>1, <2>8 DEF WatchInv, HandlersTold
  <2>10. MemoFits'
    BY <1>1, <1>2, <1>3, <2>1, <2>8 DEF WatchInv, MemoFits
  <2>11. DependsOnTold' /\ BehindIsOwed'
    BY <1>1, <2>1, <2>8 DEF WatchInv, DependsOnTold, BehindIsOwed
  <2>12. QED
    BY <2>7, <2>9, <2>10, <2>11 DEF WatchInv
<1>7. QED
  BY <1>4, <1>5, <1>6 DEF TypeOK, WatchType

LEMMA VerifiedKeeps ==
  ASSUME TypeOK, WatchInv, Verified
  PROVE  WatchInv'
<1>1. /\ made' = made /\ value' = value /\ gate' = gate /\ moved' = moved /\ disposed' = disposed
      /\ mark' = mark /\ queued' = queued /\ owed' = owed
      /\ previous' = previous /\ told' = told /\ failed' = failed
      /\ ~Idle /\ Top.kind = "verify" /\ ~gate.stale
  BY DEF Verified, OnTop, memo, handler
<1>2. PICK s \in Seq(Frames) : s = Front(stack)
  BY <1>1, TopType DEF TypeOK
<1>3. Verifies(Top) /\ ~Runs(Top, Gate) /\ ~Runs(Top, Eff) /\ ~Handles(Top)
  BY <1>1 DEF Verifies, Runs, Handles
<1>4. /\ InPlace(s) /\ FitsOn(s, Top) /\ (Handled(stack) <=> Handled(s))
      /\ (On(stack, Gate) <=> On(s, Gate)) /\ \A x : ToldIs(stack, x) <=> ToldIs(s, x)
  BY <1>1, <1>2, <1>3, TopOnStack DEF WatchInv
<1>5. ~On(s, Gate) /\ ~On(s, Eff) /\ (s # <<>> => ~Verifies(Last(s)))
  BY <1>3, <1>4 DEF FitsOn
<1>6. ~Verify(s) /\ ~Handled(s)
  BY <1>4, <1>5, NothingOpen
<1>7. gate.val = value /\ <<Gate, Signal>> \in edges
  BY <1>1, <1>4, <1>5 DEF WatchInv, MemoFits
<1>8. CASE moved /\ ~disposed
  <2>1. PICK f \in Frames : f = ComputeFrame(Eff)
    BY NewFrames, ViewNodes DEF TypeOK, ContextType, ComputeFrame
  <2>2. /\ Runs(f, Eff) /\ stack' = Append(s, f) /\ edges' = {e \in edges : e[1] # Eff}
        /\ body' = "reading"
    BY <1>2, <1>8, <2>1 DEF Verified, ComputeFrame, Runs
  <2>3. QED
    BY <1>1, <1>4, <1>5, <1>6, <2>2, StartKeeps
<1>9. CASE ~(moved /\ ~disposed)
  <2>1. stack' = s /\ edges' = edges /\ body' = body
    BY <1>2, <1>9 DEF Verified, Pop, tracking
  <2>2. HandlersTold'
    BY <1>1, <1>4, <2>1 DEF WatchInv, HandlersTold
  <2>3. MemoFits'
    BY <1>1, <1>5, <1>7, <2>1 DEF WatchInv, MemoFits
  <2>4. DependsOnTold'
    BY <1>1, <2>1 DEF WatchInv, DependsOnTold
  <2>5. BehindIsOwed'
    BY <1>1, <1>7, <1>9, <2>1 DEF WatchInv, DependsOnTold, BehindIsOwed
  <2>6. QED
    BY <1>4, <2>1, <2>2, <2>3, <2>4, <2>5 DEF WatchInv
<1>10. QED
  BY <1>8, <1>9

LEMMA ComputeGateKeeps ==
  ASSUME TypeOK, WatchInv, ComputeGate
  PROVE  WatchInv'
<1>1. /\ made' = made /\ value' = value /\ moved' = moved /\ disposed' = disposed
      /\ mark' = mark /\ queued' = queued /\ owed' = owed /\ body' = body
      /\ previous' = previous /\ told' = told /\ failed' = failed
      /\ gate' = [gate EXCEPT !.stale = FALSE] /\ gate.stale
      /\ BeginCompute(Gate)
      /\ OnTop("verify") \/ (Watching /\ body = "reading")
  BY DEF ComputeGate, effect, handler
<1>2. gate'.stale = FALSE /\ gate'.val = gate.val
  BY <1>1 DEF TypeOK, WatchType
<1>3. PICK s \in Seq(Frames) : s = stack
  BY DEF TypeOK, ContextType
<1>4. PICK f \in Frames : f = ComputeFrame(Gate)
  BY NewFrames, ViewNodes DEF TypeOK, ContextType, ComputeFrame
<1>5. Runs(f, Gate) /\ ~Runs(f, Eff) /\ ~Verifies(f) /\ ~Handles(f)
  BY <1>4, WatchNodes DEF ComputeFrame, Runs, Verifies, Handles
<1>6. stack' = Append(s, f) /\ edges' = {e \in edges : e[1] # Gate}
  BY <1>1, <1>3, <1>4 DEF BeginCompute, Push
<1>7. FitsOn(s, f) /\ InPlace(s)
  BY <1>3, <1>5 DEF FitsOn, WatchInv
<1>8. InPlace(stack')
  BY <1>6, <1>7, InPlaceAppended
<1>9. /\ On(stack', Gate) /\ (Verify(stack') <=> Verify(s)) /\ (Handled(stack') <=> Handled(s))
      /\ \A x : ToldIs(stack', x) <=> ToldIs(s, x)
  BY <1>5, <1>6, OnStack, ToldOnStack
<1>10. Verify(s) \/ body = "reading"
  <2>1. CASE OnTop("verify")
    <3>1. Verifies(Top) /\ ~Idle
      BY <2>1 DEF OnTop, Verifies
    <3>2. QED
      BY <1>3, <3>1, TopOnStack DEF WatchInv
  <2>2. QED
    BY <1>1, <2>1
<1>11. <<Eff, Gate>> \in edges' <=> <<Eff, Gate>> \in edges
  BY <1>6, WatchNodes
<1>12. HandlersTold'
  BY <1>1, <1>3, <1>9 DEF WatchInv, HandlersTold
<1>13. MemoFits'
  BY <1>1, <1>2, <1>9, <1>10 DEF WatchInv, MemoFits
<1>14. DependsOnTold'
  BY <1>1, <1>2, <1>11 DEF WatchInv, DependsOnTold
<1>15. BehindIsOwed'
  BY <1>1, <1>2, <1>3, <1>9, <1>11 DEF WatchInv, BehindIsOwed
<1>16. QED
  BY <1>8, <1>12, <1>13, <1>14, <1>15 DEF WatchInv

LEMMA ReturnGateKeeps ==
  ASSUME TypeOK, WatchInv, ReturnGate
  PROVE  WatchInv'
<1>1. /\ made' = made /\ value' = value /\ moved' = (moved \/ gate.val # value) /\ disposed' = disposed
      /\ mark' = mark /\ queued' = queued /\ owed' = owed /\ body' = body
      /\ previous' = previous /\ told' = told /\ failed' = failed
      /\ gate' = [gate EXCEPT !.val = value]
      /\ EndCompute /\ ~Idle /\ Runs(Top, Gate) /\ <<Gate, Signal>> \in edges
  BY DEF ReturnGate, effect, handler, OnTop, Runs
<1>2. gate'.stale = gate.stale /\ gate'.val = value
  BY <1>1 DEF TypeOK, WatchType
<1>3. PICK s \in Seq(Frames) : s = Front(stack) /\ stack' = s /\ edges' = edges
  BY <1>1, TopType DEF TypeOK, EndCompute, Pop
<1>4. ~Runs(Top, Eff) /\ ~Verifies(Top) /\ ~Handles(Top)
  BY <1>1, WatchNodes DEF Runs, Verifies, Handles
<1>5. /\ InPlace(s) /\ (Verify(stack) <=> Verify(s)) /\ (Handled(stack) <=> Handled(s))
      /\ On(stack, Gate) /\ \A x : ToldIs(stack, x) <=> ToldIs(s, x)
  BY <1>1, <1>3, <1>4, TopOnStack DEF WatchInv
<1>6. HandlersTold'
  BY <1>1, <1>3, <1>5 DEF WatchInv, HandlersTold
<1>7. MemoFits'
  BY <1>1, <1>2, <1>3, <1>5 DEF WatchInv, MemoFits
<1>8. DependsOnTold'
  BY <1>1, <1>2, <1>3 DEF WatchInv, DependsOnTold
<1>9. BehindIsOwed'
  BY <1>1, <1>2, <1>3, <1>5 DEF WatchInv, BehindIsOwed
<1>10. QED
  BY <1>3, <1>5, <1>6, <1>7, <1>8, <1>9 DEF WatchInv

LEMMA CallKeeps ==
  ASSUME TypeOK, WatchInv, Call
  PROVE  WatchInv'
<1>1. /\ made' = made /\ value' = value /\ gate' = gate /\ moved' = FALSE /\ disposed' = disposed
      /\ mark' = mark /\ queued' = queued /\ owed' = owed
      /\ body = "reading" /\ body' = "handled" /\ ~gate.stale
      /\ previous' = previous /\ told' = gate.val /\ failed' = FALSE
      /\ edges' = edges \cup {<<Eff, Gate>>} /\ Untrack(gate.val) /\ Watching
  BY DEF Call
<1>2. PICK s \in Seq(Frames) : s = stack
  BY DEF TypeOK, ContextType
<1>3. ~Idle /\ Runs(Top, Eff) /\ ~Runs(Top, Gate) /\ ~Verifies(Top)
  BY <1>1, WatchNodes DEF Watching, OnTop, Runs, Verifies
<1>4. On(s, Eff) /\ ~On(s, Gate)
  BY <1>2, <1>3, TopOnStack DEF WatchInv, FitsOn
<1>5. gate.val = value /\ <<Gate, Signal>> \in edges
  BY <1>1, <1>2, <1>4 DEF WatchInv, MemoFits
<1>6. PICK f \in Frames : f = [kind |-> "untrack", for |-> gate.val]
  BY <1>5, NewFrames DEF TypeOK, WatchType
<1>7. Handles(f) /\ f.for = gate.val /\ ~Runs(f, Gate) /\ ~Runs(f, Eff) /\ ~Verifies(f) /\ stack' = Append(s, f)
  BY <1>1, <1>2, <1>5, <1>6 DEF Untrack, Push, Handles, Runs, Verifies, TypeOK, WatchType
<1>8. InPlace(stack')
  <2>1. FitsOn(s, f)
    BY <1>2, <1>3, <1>4, <1>7 DEF FitsOn, Top
  <2>2. QED
    BY <1>2, <1>7, <2>1, InPlaceAppended DEF WatchInv
<1>9. /\ Handled(stack') /\ ~On(stack', Gate) /\ (Verify(stack') <=> Verify(s))
      /\ ToldIs(stack', gate.val) <=> ToldIs(s, gate.val)
  BY <1>4, <1>7, OnStack, ToldOnStack
<1>10. HandlersTold'
  <2>1. ~Handled(s)
    BY <1>1, <1>2 DEF WatchInv, HandlersTold
  <2>2. ToldIs(s, gate.val)
    BY <2>1 DEF ToldIs, Handled
  <2>3. QED
    BY <1>1, <1>9, <2>2 DEF HandlersTold
<1>11. MemoFits'
  BY <1>1, <1>5, <1>9 DEF WatchInv, MemoFits
<1>12. DependsOnTold' /\ BehindIsOwed'
  BY <1>1, <1>5 DEF DependsOnTold, BehindIsOwed
<1>13. QED
  BY <1>8, <1>10, <1>11, <1>12 DEF WatchInv

LEMMA HandlerReturnKeeps ==
  ASSUME TypeOK, WatchInv, HandlerReturn
  PROVE  WatchInv'
<1>1. /\ made' = made /\ value' = value /\ gate' = gate /\ moved' = moved /\ disposed' = disposed
      /\ mark' = mark /\ queued' = queued /\ owed' = owed /\ body' = body
      /\ previous' = Top.for /\ told' = told /\ failed' = failed
      /\ EndUntrack /\ ~Idle /\ Handles(Top)
  BY DEF HandlerReturn, memo, effect, Handling, OnTop, Handles
<1>2. PICK s \in Seq(Frames) : s = Front(stack) /\ stack' = s /\ edges' = edges
  BY <1>1, TopType DEF TypeOK, EndUntrack, Pop
<1>3. ~Runs(Top, Gate) /\ ~Verifies(Top)
  BY <1>1 DEF Runs, Verifies, Handles
<1>4. /\ InPlace(s) /\ (Verify(stack) <=> Verify(s)) /\ (On(stack, Gate) <=> On(s, Gate))
      /\ Handled(stack) /\ \A x : ToldIs(stack, x) <=> ToldIs(s, x) /\ Top.for = x
  BY <1>1, <1>2, <1>3, TopOnStack DEF WatchInv
<1>5. HandlersTold'
  BY <1>1, <1>2, <1>4 DEF WatchInv, HandlersTold
<1>6. MemoFits' /\ DependsOnTold' /\ BehindIsOwed'
  BY <1>1, <1>2, <1>4 DEF WatchInv, MemoFits, DependsOnTold, BehindIsOwed
<1>7. QED
  BY <1>2, <1>4, <1>5, <1>6 DEF WatchInv

LEMMA FinishKeeps ==
  ASSUME TypeOK, WatchInv, FinishEffect
  PROVE  WatchInv'
<1>1. /\ made' = made /\ value' = value /\ gate' = gate /\ moved' = moved /\ disposed' = disposed
      /\ mark' = mark /\ queued' = (queued \/ (owed /\ ~disposed)) /\ owed' = FALSE /\ body' = body
      /\ previous' = previous /\ told' = told /\ failed' = failed
      /\ EndCompute /\ ~Idle /\ Runs(Top, Eff)
  BY DEF FinishEffect, memo, handler, Watching, OnTop, Runs
<1>2. PICK s \in Seq(Frames) : s = Front(stack) /\ stack' = s /\ edges' = edges
  BY <1>1, TopType DEF TypeOK, EndCompute, Pop
<1>3. ~Runs(Top, Gate) /\ ~Verifies(Top) /\ ~Handles(Top)
  BY <1>1, WatchNodes DEF Runs, Verifies, Handles
<1>4. /\ InPlace(s) /\ (Verify(stack) <=> Verify(s)) /\ (On(stack, Gate) <=> On(s, Gate))
      /\ (Handled(stack) <=> Handled(s)) /\ \A x : ToldIs(stack, x) <=> ToldIs(s, x)
  BY <1>1, <1>2, <1>3, TopOnStack DEF WatchInv
<1>5. HandlersTold'
  BY <1>1, <1>2, <1>4 DEF WatchInv, HandlersTold
<1>6. MemoFits' /\ DependsOnTold'
  BY <1>1, <1>2, <1>4 DEF WatchInv, MemoFits, DependsOnTold
<1>7. BehindIsOwed'
  BY <1>1, <1>2, <1>4 DEF WatchInv, BehindIsOwed
<1>8. QED
  BY <1>2, <1>4, <1>5, <1>6, <1>7 DEF WatchInv

(* A panic leaves the effect as it left the handler; the memo is stale      *)
(* again, and who verified the effect queues it.                           *)
LEMMA UnwindKeeps ==
  ASSUME TypeOK, WatchInv, Unwind
  PROVE  WatchInv'
<1>1. /\ made' = made /\ value' = value /\ moved' = moved /\ owed' = owed /\ disposed' = disposed
      /\ body' = body /\ previous' = previous /\ told' = told
  BY DEF Unwind
<1>2. ~Idle /\ stack' = Front(stack) /\ edges' = edges
  BY DEF Unwind, Handling, Watching, OnTop, EndUntrack, EndCompute, Pop, tracking
<1>3. PICK s \in Seq(Frames) : s = Front(stack) /\ stack' = s
  BY <1>2, TopType DEF TypeOK
<1>4. /\ InPlace(s) /\ FitsOn(s, Top)
      /\ On(stack, Gate) <=> On(s, Gate) \/ Runs(Top, Gate)
      /\ Verify(stack) <=> Verify(s) \/ Verifies(Top)
      /\ Handled(stack) <=> Handled(s) \/ Handles(Top)
      /\ \A x : ToldIs(stack, x) <=> ToldIs(s, x) /\ (Handles(Top) => Top.for = x)
  BY <1>2, <1>3, TopOnStack DEF WatchInv
<1>5. CASE Handling /\ failed' = TRUE /\ UNCHANGED <<gate, mark, queued>>
  <2>1. Handles(Top) /\ ~Runs(Top, Gate) /\ ~Verifies(Top)
    BY <1>5 DEF Handling, OnTop, Handles, Runs, Verifies
  <2>2. HandlersTold'
    BY <1>1, <1>3, <1>4, <1>5, <2>1 DEF WatchInv, HandlersTold
  <2>3. MemoFits' /\ DependsOnTold' /\ BehindIsOwed'
    BY <1>1, <1>2, <1>3, <1>4, <1>5, <2>1 DEF WatchInv, MemoFits, DependsOnTold, BehindIsOwed
  <2>4. QED
    BY <1>3, <1>4, <2>2, <2>3 DEF WatchInv
<1>6. CASE Watching /\ UNCHANGED <<gate, mark, queued, failed>>
  <2>1. ~Handles(Top) /\ ~Runs(Top, Gate) /\ ~Verifies(Top)
    BY <1>6, WatchNodes DEF Watching, OnTop, Handles, Runs, Verifies
  <2>2. HandlersTold'
    BY <1>1, <1>3, <1>4, <1>6, <2>1 DEF WatchInv, HandlersTold
  <2>3. MemoFits' /\ DependsOnTold' /\ BehindIsOwed'
    BY <1>1, <1>2, <1>3, <1>4, <1>6, <2>1 DEF WatchInv, MemoFits, DependsOnTold, BehindIsOwed
  <2>4. QED
    BY <1>3, <1>4, <2>2, <2>3 DEF WatchInv
<1>7. CASE /\ OnTop("compute") /\ Top.node = Gate
           /\ gate' = [gate EXCEPT !.stale = TRUE] /\ UNCHANGED <<mark, queued, failed>>
  <2>1. Runs(Top, Gate) /\ ~Handles(Top) /\ ~Verifies(Top)
    BY <1>7 DEF OnTop, Handles, Runs, Verifies
  <2>2. gate'.stale = TRUE /\ gate'.val = gate.val
    BY <1>7 DEF TypeOK, WatchType
  <2>3. Verify(s) \/ body = "reading"
    BY <1>4, <2>1 DEF WatchInv, MemoFits
  <2>4. HandlersTold'
    BY <1>1, <1>3, <1>4, <1>7, <2>1 DEF WatchInv, HandlersTold
  <2>5. MemoFits'
    BY <1>1, <1>3, <2>2, <2>3 DEF WatchInv, MemoFits
  <2>6. DependsOnTold'
    BY <1>1, <1>2, <2>2 DEF WatchInv, DependsOnTold
  <2>7. BehindIsOwed'
    BY <1>1, <1>2, <1>3, <2>3 DEF WatchInv, DependsOnTold, BehindIsOwed
  <2>8. QED
    BY <1>3, <1>4, <2>4, <2>5, <2>6, <2>7 DEF WatchInv
<1>8. CASE /\ OnTop("verify")
           /\ IF disposed THEN UNCHANGED <<mark, queued>> ELSE mark' = "dirty" /\ queued' = TRUE
           /\ UNCHANGED <<gate, failed>>
  <2>1. ~Runs(Top, Gate) /\ ~Handles(Top) /\ Verifies(Top)
    BY <1>8 DEF OnTop, Handles, Runs, Verifies
  <2>2. ~On(s, Gate)
    BY <1>4, <2>1 DEF FitsOn
  <2>3. HandlersTold'
    BY <1>1, <1>3, <1>4, <1>8, <2>1 DEF WatchInv, HandlersTold
  <2>4. MemoFits'
    BY <1>1, <1>2, <1>3, <1>4, <1>8, <2>1, <2>2 DEF WatchInv, MemoFits
  <2>5. DependsOnTold'
    BY <1>1, <1>2, <1>8 DEF WatchInv, DependsOnTold
  <2>6. BehindIsOwed'
    BY <1>1, <1>8 DEF BehindIsOwed
  <2>7. QED
    BY <1>3, <1>4, <2>3, <2>4, <2>5, <2>6 DEF WatchInv
<1>9. QED
  BY <1>5, <1>6, <1>7, <1>8 DEF Unwind

LEMMA WatchInit == Init => WatchInv
<1> SUFFICES ASSUME Init PROVE WatchInv
  OBVIOUS
<1>1. /\ stack = <<>> /\ edges = {} /\ gate.stale = TRUE /\ body = "reading"
      /\ previous = None /\ told = None
  BY DEF Init
<1>2. DOMAIN stack = {} /\ Len(stack) = 0
  BY <1>1
<1>3. InPlace(stack) /\ ~On(stack, Gate) /\ ~Handled(stack) /\ ToldIs(stack, told)
  BY <1>2 DEF InPlace, On, Verify, Handled, ToldIs
<1>4. MemoFits
  <2>1. \A v \in Views : made[v].of # Gate
    <3>1. SUFFICES ASSUME NEW v \in Views PROVE made[v].of = None /\ None # Gate
      OBVIOUS
    <3>2. made[v] = Unmade
      BY DEF Init
    <3>3. QED
      BY <3>2, WatchAssumption, ContextsAssumption DEF Unmade
  <2>2. QED
    BY <1>1, <1>3, <2>1 DEF MemoFits
<1>5. QED
  BY <1>1, <1>3, <1>4 DEF WatchInv, HandlersTold, DependsOnTold, BehindIsOwed

LEMMA WatchStep == TypeOK /\ WatchInv /\ [Next]_vars => WatchInv'
<1> SUFFICES ASSUME TypeOK, WatchInv, [Next]_vars PROVE WatchInv'
  OBVIOUS
<1>1. CASE Guards \/ Derive \/ Drops
  BY <1>1, GuardsKeep, DeriveKeeps, DropsKeep
<1>2. CASE (\E v \in Values : Set(v)) \/ Dispose
  BY <1>2, SetKeeps, DisposeKeeps
<1>3. CASE Panic \/ UNCHANGED vars
  BY <1>3, StutterKeeps
<1>4. CASE Flush \/ Verified
  BY <1>4, FlushKeeps, VerifiedKeeps
<1>5. CASE ComputeGate \/ ReturnGate
  BY <1>5, ComputeGateKeeps, ReturnGateKeeps
<1>6. CASE Call \/ HandlerReturn
  BY <1>6, CallKeeps, HandlerReturnKeeps
<1>7. CASE FinishEffect \/ Unwind
  BY <1>7, FinishKeeps, UnwindKeeps
<1>8. QED
  BY <1>1, <1>2, <1>3, <1>4, <1>5, <1>6, <1>7 DEF Next

(* What the handler is given as the previous value is the one it was given  *)
(* in its last call, whatever it wrote and flushed in that call, if it did  *)
(* not panic.                                                               *)
THEOREM PreviousIsToldCorrect == Spec => []PreviousIsTold
<1>1. WatchInv => PreviousIsTold
  <2>1. SUFFICES ASSUME WatchInv, ~failed, \A i \in Places("untrack") : stack[i].for \notin Values
                 PROVE  previous = told
    BY DEF PreviousIsTold
  <2>2. ~Handled(stack)
    BY <2>1 DEF Handled, Handles, Places
  <2>3. QED
    BY <2>1, <2>2 DEF WatchInv, HandlersTold
<1>2. QED
  BY <1>1, ContextInit, ContextStep, WatchInit, WatchStep, PTL DEF Spec

(* A watch that has read its source once misses no change: while the value  *)
(* is not the one the handler was given, the effect is queued and not       *)
(* clean, or is verified, also when sets and flushes come out of the        *)
(* handler and whatever panics, but for a deferred run that a panic of the  *)
(* handler loses.                                                           *)
THEOREM WatchIsOwedCorrect == Spec => []WatchIsOwed
<1>1. WatchInv => WatchIsOwed
  <2>1. SUFFICES ASSUME WatchInv, ~disposed, <<Eff, Gate>> \in edges, told # value, ~owed, Places("verify") = {}
                 PROVE  queued /\ mark # "clean"
    BY DEF WatchIsOwed
  <2>2. ~Verify(stack)
    BY <2>1 DEF Verify, Verifies, Places
  <2>3. QED
    BY <2>1, <2>2 DEF WatchInv, BehindIsOwed
<1>2. QED
  BY <1>1, ContextInit, ContextStep, WatchInit, WatchStep, PTL DEF Spec
=============================================================================
