-------------------------- MODULE OwnershipProofs --------------------------
(***************************************************************************)
(* Proofs about ownership for any scopes, effects and closures, whatever   *)
(* panics and however teardowns nest: type correctness, that a teardown is *)
(* a barrier, that an error handler hears of an effect when it is gone,    *)
(* that every cleanup is accounted for once, that no live owner is left    *)
(* behind and that the gauges agree with the lists.                        *)
(***************************************************************************)
EXTENDS Ownership, FiniteSetTheorems, SequenceTheorems, WellFoundedInduction, TLAPS

(* Only a teardown holds entries, notes a panic or lets one go on.          *)
FrameFits(f) ==
  /\ f.kind # "reset" => f = Frame(f.kind, f.owner)
  /\ f.kind \in {"unowned", "cleanup"} <=> f.owner = None
  /\ f.kind = "scope" => f.owner \in Scopes
  /\ f.kind \in {"rerun", "run", "caught", "handler"} => f.owner \in Effects
StackFits(stk) == \A i \in DOMAIN stk : FrameFits(stk[i])

(* A scope's closure runs where the scope was made, so the owner that is to *)
(* adopt it is its parent; it runs once, and nothing disposes it meanwhile. *)
ScopesInPlace(stk) ==
  \A i \in DOMAIN stk : stk[i].kind = "scope" =>
    /\ status[stk[i].owner] = "live"
    /\ parent[stk[i].owner] = CurrentOwner(SubSeq(stk, 1, i - 1))
    /\ \A j \in 1 .. i - 1 : stk[j].kind = "scope" => stk[j].owner # stk[i].owner

(* An owner is torn down because it is disposed, or between two runs.       *)
TeardownsHaveCause(stk) ==
  \A i \in DOMAIN stk : stk[i].kind = "reset" =>
    \/ Dead(stk[i].owner)
    \/ i > 1 /\ stk[i - 1] = Frame("rerun", stk[i].owner)

(* The handler hears of what is disposed.                                   *)
CaughtAreDead(stk) ==
  \A i \in DOMAIN stk : stk[i].kind \in {"caught", "handler"} => Dead(stk[i].owner)

(* While an effect is torn down it does not run again inside, and it is not *)
(* torn down any more when its handler is told.                             *)
NoRunInTeardown(stk) ==
  /\ \A j \in DOMAIN stk : stk[j].kind \in {"rerun", "run", "caught", "handler"} =>
       \A i \in 1 .. j - 1 : stk[i].kind = "reset" => stk[i].owner # stk[j].owner
  /\ \A j \in DOMAIN stk : stk[j].kind = "reset" =>
       \A i \in 1 .. j - 1 : stk[i].kind = "handler" => stk[i].owner # stk[j].owner

StackInv(stk) ==
  /\ StackFits(stk) /\ ScopesInPlace(stk) /\ TeardownsHaveCause(stk)
  /\ CaughtAreDead(stk) /\ NoRunInTeardown(stk)

(* What f has to be if it is pushed on stk.                                 *)
PushFits(stk, f) ==
  /\ FrameFits(f)
  /\ f.kind = "scope" =>
       /\ status[f.owner] = "live" /\ parent[f.owner] = CurrentOwner(stk)
       /\ \A i \in DOMAIN stk : stk[i].kind = "scope" => stk[i].owner # f.owner
  /\ f.kind = "reset" =>
       /\ Dead(f.owner) \/ (stk # <<>> /\ Last(stk) = Frame("rerun", f.owner))
       /\ \A i \in DOMAIN stk : stk[i].kind = "handler" => stk[i].owner # f.owner
  /\ f.kind \in {"caught", "handler"} => Dead(f.owner)
  /\ f.kind \in {"rerun", "run", "caught", "handler"} =>
       \A i \in DOMAIN stk : stk[i].kind = "reset" => stk[i].owner # f.owner

(* o is among the children of q, or a teardown of q has taken it.           *)
Holds(stk, q, o) == \E i \in DOMAIN stk : stk[i].owner = q /\ o \in InSequence(stk[i].children)
Lists(q, o) == o \in InSequence(children[q]) \/ Holds(stack, q, o)
OpenIn(stk, o) == \E i \in DOMAIN stk : stk[i].kind = "scope" /\ stk[i].owner = o

(* Whatever is listed has been made, and if it is a scope its closure is    *)
(* over.                                                                    *)
ListedAreClosed ==
  \A q \in Owners, o \in Owners : Lists(q, o) => status[o] # "absent" /\ ~OpenIn(stack, o)

OwnedInv == TypeOK /\ StackInv(stack) /\ ListedAreClosed

(* How often cleanup c occurs in a list, and in the frames of the stack stk. *)
Times(c, s) == Cardinality({i \in DOMAIN s : s[i] = c})
TakenBy(stk) == [i \in DOMAIN stk |-> stk[i].cleanups]
TakenSpots(c, stk) == Spots(c, TakenBy(stk))

(* Every cleanup that was registered was run or waits, once in all, and no  *)
(* other is anywhere.                                                       *)
CountedOnce ==
  \A c \in Cleanups :
    /\ IsFiniteSet(Spots(c, cleanups)) /\ IsFiniteSet(TakenSpots(c, stack))
    /\ ran[c] + Cardinality(Spots(c, cleanups)) + Cardinality(TakenSpots(c, stack))
         = IF c <= known THEN 1 ELSE 0

(* The gauges count the entries, of which there are finitely many.          *)
GaugesCount ==
  /\ IsFiniteSet(Entries(children)) /\ owned_children = Cardinality(Entries(children))
  /\ IsFiniteSet(Entries(cleanups)) /\ cleanup_registrations = Cardinality(Entries(cleanups))

-----------------------------------------------------------------------------

(* Sequences, stacks and sets of positions.                                *)

(* A set of positions that is not empty has a largest one. *)
LEMMA MaxOfPositions ==
  ASSUME NEW n \in Nat, NEW S \in SUBSET (1 .. n), S # {}
  PROVE Max(S) \in S /\ \A y \in S : y <= Max(S)
<1> DEFINE Above(x) == {y \in S : y > x}
<1> DEFINE D == {Above(x) : x \in S}
<1>1. IsFiniteSet(S)
  BY FS_Interval, FS_Subset, 1 \in Int, n \in Int
<1>2. D \subseteq FiniteSubsetsOf(S) /\ D # {}
  <2>1. \A x \in S : Above(x) \in SUBSET S
    OBVIOUS
  <2>2. \A x \in S : IsFiniteSet(Above(x))
    BY <1>1, <2>1, FS_Subset
  <2>3. \A d \in D : d \in FiniteSubsetsOf(S)
    BY <2>1, <2>2 DEF FiniteSubsetsOf
  <2>4. QED
    BY <2>3
<1>3. PICK d \in D : \A e \in D : ~ (<<e, d>> \in StrictSubsetOrdering(S))
  BY <1>2, FS_StrictSubsetOrderingWellFounded, WFMin
<1>4. PICK x \in S : d = Above(x)
  OBVIOUS
<1>5. \A y \in S : y <= x
  <2> SUFFICES ASSUME NEW y \in S, y > x PROVE FALSE
    OBVIOUS
  <2>1. Above(y) \in D /\ d \subseteq S /\ Above(y) \subseteq S
    BY <1>4
  <2>2. Above(y) \subseteq d /\ Above(y) # d
    <3>1. y \in d /\ y \notin Above(y)
      BY <1>4
    <3>2. \A z \in Above(y) : z \in d
      BY <1>4
    <3>3. QED
      BY <3>1, <3>2
  <2>3. <<Above(y), d>> \in StrictSubsetOrdering(S)
    BY <2>1, <2>2 DEF StrictSubsetOrdering
  <2>4. QED
    BY <1>3, <2>1, <2>3
<1>6. QED
  BY <1>5 DEF Max

(* What a list is after an entry is appended. *)
LEMMA Appended ==
  ASSUME NEW S, NEW s \in Seq(S), NEW x \in S
  PROVE  /\ Append(s, x) \in Seq(S) /\ Append(s, x) # <<>>
         /\ Len(Append(s, x)) = Len(s) + 1
         /\ DOMAIN Append(s, x) = 1 .. Len(s) + 1
         /\ DOMAIN s = 1 .. Len(s)
         /\ \A i \in 1 .. Len(s) : Append(s, x)[i] = s[i]
         /\ Append(s, x)[Len(s) + 1] = x
OBVIOUS

(* What is left of a list without its last entry. *)
LEMMA Shortened ==
  ASSUME NEW S, NEW s \in Seq(S), s # <<>>
  PROVE  /\ Front(s) \in Seq(S) /\ Len(Front(s)) = Len(s) - 1 /\ Len(s) \in Nat \ {0}
         /\ DOMAIN Front(s) = 1 .. Len(s) - 1 /\ DOMAIN s = 1 .. Len(s)
         /\ \A i \in 1 .. Len(s) - 1 : Front(s)[i] = s[i]
         /\ Last(s) \in S /\ Last(s) = s[Len(s)]
<1>1. Len(s) \in Nat \ {0}
  BY EmptySeq
<1>2. Len(s) - 1 \in 0 .. Len(s) /\ Len(s) \in 1 .. Len(s)
  BY <1>1
<1>3. /\ Front(s) \in Seq(S) /\ Len(Front(s)) = Len(s) - 1
      /\ \A i \in 1 .. Len(s) - 1 : Front(s)[i] = s[i]
  <2>1. ASSUME NEW n \in 0 .. Len(s)
        PROVE  /\ SubSeq(s, 1, n) \in Seq(S) /\ Len(SubSeq(s, 1, n)) = n
               /\ \A i \in 1 .. n : SubSeq(s, 1, n)[i] = s[i]
    OBVIOUS
  <2>2. QED
    BY <1>2, <2>1 DEF Front
<1>4. DOMAIN Front(s) = 1 .. Len(s) - 1 /\ DOMAIN s = 1 .. Len(s)
  BY <1>3, LenProperties
<1>5. Last(s) \in S /\ Last(s) = s[Len(s)]
  BY <1>2, ElementOfSeq DEF Last
<1>6. QED
  BY <1>1, <1>3, <1>4, <1>5

(* To replace the last entry is to append to what is left without it. *)
LEMMA Replaced ==
  ASSUME NEW S, NEW s \in Seq(S), s # <<>>, NEW x \in S
  PROVE  [s EXCEPT ![Len(s)] = x] = Append(Front(s), x)
<1>1. /\ Len(s) \in Nat \ {0} /\ Front(s) \in Seq(S)
      /\ Len(Front(s)) = Len(s) - 1
      /\ \A i \in 1 .. Len(s) - 1 : Front(s)[i] = s[i]
  BY Shortened
<1> DEFINE t == [s EXCEPT ![Len(s)] = x]
           u == Append(Front(s), x)
<1>2. t \in Seq(S) /\ Len(t) = Len(s) /\ \A i \in 1 .. Len(s) : t[i] = IF i = Len(s) THEN x ELSE s[i]
  BY <1>1, ExceptSeq, Len(s) \in 1 .. Len(s)
<1>3. u \in Seq(S) /\ Len(u) = Len(s) /\ \A i \in 1 .. Len(s) : u[i] = IF i = Len(s) THEN x ELSE s[i]
  BY <1>1, Appended
<1>4. QED
  BY <1>2, <1>3, SeqEqual

(* A list is what is left without the last entry, and that one. *)
LEMMA FrontAndLast ==
  ASSUME NEW S, NEW s \in Seq(S), s # <<>>
  PROVE  s = Append(Front(s), Last(s))
<1>1. PICK x \in S : x = Last(s) /\ x = s[Len(s)]
  BY Shortened
<1>2. [s EXCEPT ![Len(s)] = x] = Append(Front(s), x)
  BY Replaced
<1>3. [s EXCEPT ![Len(s)] = x] = s
  BY <1>1
<1>4. QED
  BY <1>1, <1>2, <1>3

(* The stack below a place does not change when a frame is pushed. *)
LEMMA Prefixes ==
  ASSUME NEW S, NEW s \in Seq(S), NEW x \in S
  PROVE  /\ \A i \in 1 .. Len(s) + 1 : SubSeq(Append(s, x), 1, i - 1) = SubSeq(s, 1, i - 1)
         /\ SubSeq(s, 1, Len(s)) = s
<1>1. ASSUME NEW i \in 1 .. Len(s) + 1
      PROVE  SubSeq(Append(s, x), 1, i - 1) = SubSeq(s, 1, i - 1)
  <2> DEFINE a == SubSeq(Append(s, x), 1, i - 1)
             b == SubSeq(s, 1, i - 1)
  <2>1. a \in Seq(S) /\ Len(a) = i - 1 /\ \A j \in 1 .. i - 1 : a[j] = s[j]
    BY Appended
  <2>2. b \in Seq(S) /\ Len(b) = i - 1 /\ \A j \in 1 .. i - 1 : b[j] = s[j]
    OBVIOUS
  <2>3. QED
    BY <2>1, <2>2, SeqEqual
<1>2. SubSeq(s, 1, Len(s)) = s
  OBVIOUS
<1>3. QED
  BY <1>1, <1>2

-----------------------------------------------------------------------------
(* Frames and stacks.                                                      *)

LEMMA FrameType ==
  /\ \A k \in Kinds, o \in Owners \cup {None} : Frame(k, o) \in Frames
  /\ \A f \in Frames : /\ f.kind \in Kinds /\ f.owner \in Owners \cup {None}
                       /\ f.cleanups \in Seq(Cleanups) /\ f.children \in Seq(Owners)
                       /\ f.failed \in BOOLEAN /\ f.unwinding \in BOOLEAN
  /\ \A k, o : Frame(k, o).kind = k /\ Frame(k, o).owner = o
  /\ \A k, o : Frame(k, o).cleanups = <<>> /\ Frame(k, o).children = <<>>
BY DEF Frames, Frame

(* The top of the stack, and the stack without it. *)
LEMMA TopType ==
  ASSUME stack \in Seq(Frames), ~Idle
  PROVE  /\ stack # <<>> /\ Top = Last(stack) /\ Pop = Front(stack)
         /\ Top \in Frames /\ Pop \in Seq(Frames) /\ Top = stack[Len(stack)]
         /\ Len(stack) \in Nat \ {0} /\ Len(Pop) = Len(stack) - 1
         /\ DOMAIN stack = 1 .. Len(stack) /\ DOMAIN Pop = 1 .. Len(stack) - 1
         /\ \A i \in 1 .. Len(stack) - 1 : Pop[i] = stack[i]
         /\ \A f \in Frames : Retop(f) = Append(Pop, f)
BY Shortened, Replaced DEF Idle, Top, Pop, Retop

(* A frame of one of the kinds is on the top of a stack that is not empty. *)
LEMMA OnTop == Top.kind \in Kinds => ~Idle
BY DEF Top, Frame, Kinds

LEMMA CurrentOwnerIsLast ==
  ASSUME NEW s \in Seq(Frames), CurrentOwner(s) # None
  PROVE  \E i \in DOMAIN s :
           /\ s[i].owner = CurrentOwner(s) /\ s[i].kind \in {"scope", "run", "run_in", "unowned"}
           /\ \A j \in i .. Len(s) : s[j].kind # "reset"
<1> DEFINE I == {i \in DOMAIN s : s[i].kind \in {"scope", "run", "run_in", "unowned", "reset"}}
<1>1. I # {} /\ s[Max(I)].kind # "reset" /\ CurrentOwner(s) = s[Max(I)].owner
  BY DEF CurrentOwner
<1>2. Len(s) \in Nat /\ DOMAIN s = 1 .. Len(s)
  OBVIOUS
<1>3. I \in SUBSET (1 .. Len(s))
  BY <1>2
<1>4. Max(I) \in I /\ \A y \in I : y <= Max(I)
  <2> HIDE DEF I
  <2> QED
    BY <1>1, <1>2, <1>3, MaxOfPositions
<1>5. \A j \in Max(I) .. Len(s) : s[j].kind # "reset"
  <2> SUFFICES ASSUME NEW j \in Max(I) .. Len(s), s[j].kind = "reset" PROVE FALSE
    OBVIOUS
  <2>1. Max(I) \in 1 .. Len(s)
    BY <1>3, <1>4
  <2>2. j \in I
    BY <1>2, <2>1
  <2>3. j <= Max(I)
    BY <1>4, <2>2
  <2>4. j = Max(I)
    BY <1>2, <2>1, <2>3
  <2>5. QED
    BY <1>1, <2>4
<1>6. QED
  BY <1>1, <1>4, <1>5

LEMMA CurrentOwnerType ==
  ASSUME NEW s \in Seq(Frames)
  PROVE  CurrentOwner(s) \in Owners \cup {None}
<1>1. CASE CurrentOwner(s) = None
  BY <1>1
<1>2. CASE CurrentOwner(s) # None
  <2>1. PICK i \in DOMAIN s : s[i].owner = CurrentOwner(s)
    BY <1>2, CurrentOwnerIsLast
  <2>2. s[i] \in Frames
    OBVIOUS
  <2>3. QED
    BY <2>1, <2>2, FrameType
<1>3. QED
  BY <1>1, <1>2

(* In a state whose stack is s, a frame that fits may be pushed. *)
LEMMA PushKeeps ==
  ASSUME NEW s \in Seq(Frames), NEW f \in Frames, StackInv(s)', PushFits(s, f)'
  PROVE  StackInv(Append(s, f))'
<1> DEFINE t == Append(s, f)
           n == Len(s) + 1
<1>1. /\ t \in Seq(Frames) /\ Len(t) = n /\ DOMAIN t = 1 .. n /\ DOMAIN s = 1 .. Len(s)
      /\ Len(s) \in Nat /\ \A i \in 1 .. Len(s) : t[i] = s[i]
      /\ t[n] = f
  BY Appended
<1>2. \A i \in 1 .. n : SubSeq(t, 1, i - 1) = SubSeq(s, 1, i - 1)
  BY Prefixes
<1>3. SubSeq(s, 1, n - 1) = s
  BY <1>1, Prefixes
<1> HIDE DEF t, n
<1>n. n = Len(s) + 1
  BY DEF n
<1>4. StackFits(t)'
  BY <1>1, <1>n DEF StackInv, StackFits, PushFits
<1>5. ScopesInPlace(t)'
  <2> SUFFICES ASSUME NEW i \in 1 .. n, t[i].kind = "scope"
               PROVE  /\ status'[t[i].owner] = "live"
                      /\ parent'[t[i].owner] = CurrentOwner(SubSeq(t, 1, i - 1))
                      /\ \A j \in 1 .. i - 1 : t[j].kind = "scope" => t[j].owner # t[i].owner
    BY <1>1 DEF ScopesInPlace
  <2>1. SubSeq(t, 1, i - 1) = SubSeq(s, 1, i - 1)
    BY <1>2
  <2>2. CASE i = n
    <3>1. SubSeq(t, 1, i - 1) = s
      BY <1>3, <2>1, <2>2
    <3>2. status'[f.owner] = "live" /\ parent'[f.owner] = CurrentOwner(s)
      BY <1>1, <2>2 DEF PushFits
    <3>3. \A j \in 1 .. Len(s) : s[j].kind = "scope" => s[j].owner # f.owner
      BY <1>1, <2>2 DEF PushFits
    <3>4. CurrentOwner(SubSeq(t, 1, i - 1)) = CurrentOwner(s)
      BY <3>1, Zenon
    <3>5. \A j \in 1 .. i - 1 : t[j].kind = "scope" => t[j].owner # f.owner
      BY <1>1, <1>n, <2>2, <3>3
    <3>6. QED
      BY <1>1, <2>2, <3>2, <3>4, <3>5, Zenon
  <2>3. CASE i # n
    <3>1. i \in DOMAIN s /\ t[i] = s[i] /\ \A j \in 1 .. i - 1 : t[j] = s[j]
      BY <1>1, <1>n, <2>3
    <3>2. /\ status'[s[i].owner] = "live"
          /\ parent'[s[i].owner] = CurrentOwner(SubSeq(s, 1, i - 1))
          /\ \A j \in 1 .. i - 1 : s[j].kind = "scope" => s[j].owner # s[i].owner
      BY <3>1 DEF StackInv, ScopesInPlace
    <3>3. QED
      BY <2>1, <3>1, <3>2
  <2>4. QED
    BY <2>2, <2>3
<1>6. TeardownsHaveCause(t)'
  <2> SUFFICES ASSUME NEW i \in 1 .. n, t[i].kind = "reset"
               PROVE  Dead(t[i].owner)' \/ (i > 1 /\ t[i - 1] = Frame("rerun", t[i].owner))
    BY <1>1 DEF TeardownsHaveCause
  <2>1. CASE i = n
    BY <2>1, <1>1, <1>n DEF PushFits, Last
  <2>2. CASE i # n
    BY <2>2, <1>1, <1>n DEF StackInv, TeardownsHaveCause
  <2>3. QED
    BY <2>1, <2>2
<1>7. CaughtAreDead(t)'
  BY <1>1, <1>n DEF StackInv, CaughtAreDead, PushFits
<1>8. NoRunInTeardown(t)'
  BY <1>1, <1>n DEF StackInv, NoRunInTeardown, PushFits
<1>9. QED
  BY <1>4, <1>5, <1>6, <1>7, <1>8 DEF StackInv, t

(* What is on the top fits what is below. *)
LEMMA TopFits ==
  ASSUME NEW s \in Seq(Frames), s # <<>>, StackInv(s)
  PROVE  StackInv(Front(s)) /\ PushFits(Front(s), Last(s))
<1> DEFINE t == Front(s)
           n == Len(s)
<1>1. /\ t \in Seq(Frames) /\ Len(t) = n - 1 /\ n \in Nat \ {0}
      /\ DOMAIN t = 1 .. n - 1 /\ DOMAIN s = 1 .. n
      /\ \A i \in 1 .. n - 1 : t[i] = s[i]
      /\ Last(s) = s[n] /\ s[n] \in Frames
  BY Shortened
<1>2. \A i \in 1 .. n : SubSeq(t, 1, i - 1) = SubSeq(s, 1, i - 1)
  <2>1. s = Append(t, s[n])
    BY <1>1, FrontAndLast
  <2>2. \A i \in 1 .. Len(t) + 1 : SubSeq(Append(t, s[n]), 1, i - 1) = SubSeq(t, 1, i - 1)
    BY <1>1, Prefixes
  <2>3. Len(t) + 1 = n
    BY <1>1
  <2>4. QED
    BY <2>1, <2>2, <2>3
<1>3. SubSeq(s, 1, n - 1) = t
  BY DEF Front
<1> HIDE DEF t, n
<1>4. StackFits(t)
  BY <1>1 DEF StackInv, StackFits
<1>5. ScopesInPlace(t)
  <2> SUFFICES ASSUME NEW i \in 1 .. n - 1, t[i].kind = "scope"
               PROVE  /\ status[t[i].owner] = "live"
                      /\ parent[t[i].owner] = CurrentOwner(SubSeq(t, 1, i - 1))
                      /\ \A j \in 1 .. i - 1 : t[j].kind = "scope" => t[j].owner # t[i].owner
    BY <1>1 DEF ScopesInPlace
  <2>1. i \in 1 .. n /\ t[i] = s[i] /\ \A j \in 1 .. i - 1 : t[j] = s[j]
    BY <1>1
  <2>2. SubSeq(t, 1, i - 1) = SubSeq(s, 1, i - 1)
    BY <1>2, <2>1
  <2>3. /\ status[s[i].owner] = "live"
        /\ parent[s[i].owner] = CurrentOwner(SubSeq(s, 1, i - 1))
        /\ \A j \in 1 .. i - 1 : s[j].kind = "scope" => s[j].owner # s[i].owner
    BY <1>1, <2>1 DEF StackInv, ScopesInPlace
  <2>4. QED
    BY <2>1, <2>2, <2>3
<1>6. TeardownsHaveCause(t) /\ CaughtAreDead(t) /\ NoRunInTeardown(t)
  BY <1>1 DEF StackInv, TeardownsHaveCause, CaughtAreDead, NoRunInTeardown
<1>7. PushFits(t, s[n])
  <2>1. FrameFits(s[n])
    BY <1>1 DEF StackInv, StackFits
  <2>2. s[n].kind = "scope" =>
          /\ status[s[n].owner] = "live" /\ parent[s[n].owner] = CurrentOwner(t)
          /\ \A i \in DOMAIN t : t[i].kind = "scope" => t[i].owner # s[n].owner
    <3> SUFFICES ASSUME s[n].kind = "scope"
                 PROVE  /\ status[s[n].owner] = "live" /\ parent[s[n].owner] = CurrentOwner(t)
                        /\ \A i \in DOMAIN t : t[i].kind = "scope" => t[i].owner # s[n].owner
      OBVIOUS
    <3>1. n \in DOMAIN s
      BY <1>1
    <3>2. /\ status[s[n].owner] = "live"
          /\ parent[s[n].owner] = CurrentOwner(SubSeq(s, 1, n - 1))
          /\ \A j \in 1 .. n - 1 : s[j].kind = "scope" => s[j].owner # s[n].owner
      BY <3>1 DEF StackInv, ScopesInPlace
    <3>3. CurrentOwner(SubSeq(s, 1, n - 1)) = CurrentOwner(t)
      BY <1>3, Zenon
    <3>4. \A j \in DOMAIN t : t[j].kind = "scope" => t[j].owner # s[n].owner
      BY <1>1, <3>2
    <3>5. QED
      BY <3>2, <3>3, <3>4, Zenon
  <2>r. s[n].kind = "reset" =>
          \A i \in DOMAIN t : t[i].kind = "handler" => t[i].owner # s[n].owner
    BY <1>1 DEF StackInv, NoRunInTeardown
  <2>3. s[n].kind = "reset" =>
          Dead(s[n].owner) \/ (t # <<>> /\ Last(t) = Frame("rerun", s[n].owner))
    <3> SUFFICES ASSUME s[n].kind = "reset", ~Dead(s[n].owner)
                 PROVE  t # <<>> /\ Last(t) = Frame("rerun", s[n].owner)
      OBVIOUS
    <3>1. n > 1 /\ s[n - 1] = Frame("rerun", s[n].owner)
      BY <1>1 DEF StackInv, TeardownsHaveCause
    <3>2. Len(t) # 0 /\ Last(t) = s[n - 1]
      BY <1>1, <3>1 DEF Last
    <3>3. QED
      BY <3>1, <3>2
  <2>4. /\ s[n].kind \in {"caught", "handler"} => Dead(s[n].owner)
        /\ s[n].kind \in {"rerun", "run", "caught", "handler"} =>
             \A i \in DOMAIN t : t[i].kind = "reset" => t[i].owner # s[n].owner
    BY <1>1 DEF StackInv, CaughtAreDead, NoRunInTeardown
  <2>5. QED
    BY <2>1, <2>2, <2>3, <2>4, <2>r DEF PushFits
<1>8. QED
  BY <1>1, <1>4, <1>5, <1>6, <1>7 DEF StackInv, t

-----------------------------------------------------------------------------
(* The lists of children.                                                  *)

(* A sweep releases the disposed children, and no others. *)
LEMMA SweptReleasesDisposed ==
  ASSUME TypeOK, NEW p \in Owners
  PROVE  /\ Swept(p) \in Seq(Owners) /\ Len(Swept(p)) <= Len(children[p])
         /\ \A o \in Owners : o \in InSequence(Swept(p)) <=>
              o \in InSequence(children[p]) /\ status[o] # "disposed"
<1> DEFINE left == {i \in DOMAIN children[p] : status[children[p][i]] # "disposed"}
           n == Cardinality(left)
           UpTo(i) == {j \in left : j <= i}
           At(k) == CHOOSE i \in left : Cardinality(UpTo(i)) = k
<1>1. /\ children[p] \in Seq(Owners) /\ Len(children[p]) \in Nat
      /\ DOMAIN children[p] = 1 .. Len(children[p])
      /\ \A i \in DOMAIN children[p] : children[p][i] \in Owners
  BY DEF TypeOK
<1>2. left \subseteq 1 .. Len(children[p])
  BY <1>1
<1>3. IsFiniteSet(left) /\ n \in Nat /\ n <= Len(children[p])
  <2>1. IsFiniteSet(1 .. Len(children[p])) /\ Cardinality(1 .. Len(children[p])) = Len(children[p])
    BY <1>1, FS_Interval, 1 \in Int, Len(children[p]) \in Int
  <2>2. QED
    BY <1>2, <2>1, FS_Subset, FS_CardinalityType
<1>4. \A i \in left : IsFiniteSet(UpTo(i)) /\ Cardinality(UpTo(i)) \in 1 .. n
  <2> SUFFICES ASSUME NEW i \in left
               PROVE  IsFiniteSet(UpTo(i)) /\ Cardinality(UpTo(i)) \in 1 .. n
    OBVIOUS
  <2>1. UpTo(i) \in SUBSET left /\ i \in UpTo(i)
    BY <1>2
  <2>2. IsFiniteSet(UpTo(i)) /\ Cardinality(UpTo(i)) <= n /\ Cardinality(UpTo(i)) \in Nat
    BY <1>3, <2>1, FS_Subset, FS_CardinalityType
  <2>3. Cardinality(UpTo(i)) # 0
    BY <2>1, <2>2, FS_EmptySet
  <2>4. QED
    BY <1>3, <2>2, <2>3
<1>5. \A i, k \in left : Cardinality(UpTo(i)) = Cardinality(UpTo(k)) => i = k
  <2>1. ASSUME NEW i \in left, NEW k \in left, i < k, Cardinality(UpTo(i)) = Cardinality(UpTo(k))
        PROVE  FALSE
    <3>1. UpTo(i) \in SUBSET UpTo(k)
      BY <1>2, <2>1
    <3>2. UpTo(i) = UpTo(k)
      BY <1>4, <2>1, <3>1, FS_Subset
    <3>3. k \in UpTo(k) /\ k \notin UpTo(i)
      BY <1>2, <2>1
    <3>4. QED
      BY <3>2, <3>3
  <2>2. \A i, k \in left : i < k \/ k < i \/ i = k
    BY <1>2
  <2>3. QED
    BY <2>1, <2>2
<1>6. \A k \in 1 .. n : \E i \in left : Cardinality(UpTo(i)) = k
  <2> DEFINE R == [i \in left |-> Cardinality(UpTo(i))]
  <2>1. R \in Injection(left, 1 .. n)
    BY <1>4, <1>5 DEF Injection, IsInjective
  <2>2. IsFiniteSet(1 .. n) /\ Cardinality(1 .. n) = n
    BY <1>3, FS_Interval, 1 \in Int, n \in Int
  <2>3. R \in Surjection(left, 1 .. n)
    <3> HIDE DEF R
    <3> QED
      BY <2>1, <2>2, FS_Injection
  <2>4. QED
    BY <2>3 DEF Surjection
<1>7. \A k \in 1 .. n : At(k) \in left /\ Cardinality(UpTo(At(k))) = k
  BY <1>6
<1>8. \A i \in left : At(Cardinality(UpTo(i))) = i
  BY <1>4, <1>5, <1>7
<1>9. Swept(p) = [k \in 1 .. n |-> children[p][At(k)]]
  BY DEF Swept
<1> HIDE DEF At, UpTo, n
<1>10. \A k \in 1 .. n : children[p][At(k)] \in Owners
  BY <1>1, <1>7
<1>11. Swept(p) \in Seq(Owners) /\ Len(Swept(p)) = n /\ DOMAIN Swept(p) = 1 .. n
  BY <1>3, <1>9, <1>10
<1>12. ASSUME NEW o \in Owners
       PROVE  o \in InSequence(Swept(p)) <=> o \in InSequence(children[p]) /\ status[o] # "disposed"
  <2>1. ASSUME o \in InSequence(Swept(p))
        PROVE  o \in InSequence(children[p]) /\ status[o] # "disposed"
    <3>1. PICK k \in 1 .. n : o = Swept(p)[k]
      BY <1>11, <2>1 DEF InSequence
    <3>2. At(k) \in left /\ o = children[p][At(k)]
      BY <1>7, <1>9, <3>1
    <3>3. QED
      BY <3>2 DEF InSequence
  <2>2. ASSUME o \in InSequence(children[p]), status[o] # "disposed"
        PROVE  o \in InSequence(Swept(p))
    <3>1. PICK i \in left : o = children[p][i]
      BY <2>2 DEF InSequence
    <3>2. Cardinality(UpTo(i)) \in 1 .. n /\ At(Cardinality(UpTo(i))) = i
      BY <1>4, <1>8
    <3>3. Swept(p)[Cardinality(UpTo(i))] = o
      BY <1>9, <3>1, <3>2
    <3>4. QED
      BY <1>11, <3>2, <3>3 DEF InSequence
  <2>3. QED
    BY <2>1, <2>2
<1>13. QED
  BY <1>3, <1>11, <1>12

(* Adoption puts the child behind those that are left. *)
LEMMA AdoptAppends ==
  ASSUME TypeOK, NEW p \in Owners, NEW o \in Owners, Adopt(p, o)
  PROVE  \E kept \in Seq(Owners) :
           /\ Len(kept) <= Len(children[p])
           /\ \A q \in Owners : q \in InSequence(kept) => q \in InSequence(children[p])
           /\ \A q \in Owners : q \in InSequence(children[p]) /\ status[q] # "disposed"
                                  => q \in InSequence(kept)
           /\ children' = [children EXCEPT ![p] = Append(kept, o)]
           /\ swept_at' \in [Owners -> Nat]
           /\ owned_children' =
                child_adopted(children_taken(owned_children, Len(children[p]) - Len(kept)))
<1> DEFINE kept == IF SweepDue(p) THEN Swept(p) ELSE children[p]
<1>1. children[p] \in Seq(Owners) /\ swept_at \in [Owners -> Nat]
  BY DEF TypeOK
<1>2. /\ kept \in Seq(Owners) /\ Len(kept) <= Len(children[p])
      /\ \A q \in Owners : q \in InSequence(kept) => q \in InSequence(children[p])
      /\ \A q \in Owners : q \in InSequence(children[p]) /\ status[q] # "disposed"
                             => q \in InSequence(kept)
  BY <1>1, SweptReleasesDisposed
<1>3. /\ children' = [children EXCEPT ![p] = Append(kept, o)]
      /\ owned_children' =
           child_adopted(children_taken(owned_children, Len(children[p]) - Len(kept)))
      /\ swept_at' = IF SweepDue(p) THEN [swept_at EXCEPT ![p] = Len(kept)] ELSE swept_at
  BY DEF Adopt
<1>4. swept_at' \in [Owners -> Nat]
  BY <1>1, <1>2, <1>3
<1> HIDE DEF kept
<1>5. QED
  BY <1>2, <1>3, <1>4

LEMMA AdoptType ==
  ASSUME TypeOK, NEW p \in Owners, NEW o \in Owners, Adopt(p, o)
  PROVE  /\ children' \in [Owners -> Seq(Owners)] /\ swept_at' \in [Owners -> Nat]
         /\ cleanups' \in [Owners -> Seq(Cleanups)]
         /\ cleanup_registrations' \in Nat /\ owned_children' \in Nat
<1>1. PICK kept \in Seq(Owners) :
        /\ Len(kept) <= Len(children[p])
        /\ children' = [children EXCEPT ![p] = Append(kept, o)]
        /\ swept_at' \in [Owners -> Nat]
        /\ owned_children' =
             child_adopted(children_taken(owned_children, Len(children[p]) - Len(kept)))
  BY AdoptAppends
<1>2. children' \in [Owners -> Seq(Owners)]
  BY <1>1, Appended DEF TypeOK
<1>3. owned_children' \in Nat
  <2>1. Len(children[p]) \in Nat /\ Len(kept) \in Nat /\ owned_children \in Nat
    BY DEF TypeOK
  <2>2. QED
    BY <1>1, <2>1 DEF child_adopted, children_taken, Minus
<1>4. UNCHANGED <<cleanups, cleanup_registrations>>
  BY DEF Adopt
<1>5. QED
  BY <1>1, <1>2, <1>3, <1>4 DEF TypeOK

-----------------------------------------------------------------------------
(* Disposals.                                                              *)

(* The frame of a teardown holds what the owner had. *)
LEMMA ResetType ==
  ASSUME TypeOK, NEW o \in Owners, NEW s \in Seq(Frames), NEW u \in BOOLEAN, Reset(o, s, u)
  PROVE  /\ children' \in [Owners -> Seq(Owners)] /\ swept_at' \in [Owners -> Nat]
         /\ cleanups' \in [Owners -> Seq(Cleanups)]
         /\ cleanup_registrations' \in Nat /\ owned_children' \in Nat
         /\ panicking' = FALSE
         /\ \E f \in Frames :
              /\ stack' = Append(s, f) /\ f.kind = "reset" /\ f.owner = o
              /\ f.cleanups = cleanups[o] /\ f.children = children[o]
<1>1. cleanups[o] \in Seq(Cleanups) /\ children[o] \in Seq(Owners)
  BY DEF TypeOK
<1> DEFINE f == [Frame("reset", o) EXCEPT
                  !.cleanups = cleanups[o], !.children = children[o], !.unwinding = u]
<1>2. /\ f \in Frames /\ f.kind = "reset" /\ f.owner = o
      /\ f.cleanups = cleanups[o] /\ f.children = children[o]
  BY <1>1 DEF Frames, Frame, Kinds
<1>3. stack' = Append(s, f) /\ panicking' = FALSE
  BY DEF Reset
<1> HIDE DEF f
<1>4. /\ children' \in [Owners -> Seq(Owners)] /\ swept_at' \in [Owners -> Nat]
      /\ cleanups' \in [Owners -> Seq(Cleanups)]
  BY DEF Reset, TypeOK
<1>5. cleanup_registrations' \in Nat /\ owned_children' \in Nat
  <2>1. /\ Len(cleanups[o]) \in Nat /\ Len(children[o]) \in Nat
        /\ cleanup_registrations \in Nat /\ owned_children \in Nat
    BY <1>1 DEF TypeOK
  <2>2. QED
    BY <2>1 DEF Reset, cleanups_taken, children_taken, Minus
<1>6. QED
  BY <1>2, <1>3, <1>4, <1>5

LEMMA ResetPushes ==
  ASSUME TypeOK, NEW o \in Owners, NEW s \in Seq(Frames), NEW u \in BOOLEAN, Reset(o, s, u)
  PROVE  \E f \in Frames :
           /\ stack' = Append(s, f) /\ f.kind = "reset" /\ f.owner = o
           /\ f.cleanups = cleanups[o] /\ f.children = children[o]
BY ResetType, Zenon

(* A step may only make owners and dispose them. *)
Aged ==
  \A o \in Owners : status[o] # "absent" =>
    parent'[o] = parent[o] /\ status'[o] \in {status[o], "disposed"}

LEMMA DisposeAges ==
  ASSUME TypeOK, NEW o \in Owners, NEW s, NEW u, DisposeOn(o, s, u), UNCHANGED parent
  PROVE  /\ Aged /\ status' = [status EXCEPT ![o] = "disposed"] /\ Dead(o)'
         /\ status' \in [Owners -> {"absent", "live", "disposed"}]
<1>1. status \in [Owners -> {"absent", "live", "disposed"}] /\ o # None
  BY OwnersAssumption DEF TypeOK
<1>2. status' = [status EXCEPT ![o] = "disposed"]
  BY <1>1 DEF DisposeOn
<1>3. QED
  BY <1>1, <1>2 DEF Aged, Dead

LEMMA StackInvAges ==
  ASSUME TypeOK, Aged, NEW s \in Seq(Frames), StackInv(s),
         \A i \in DOMAIN s : s[i].kind = "scope" => status'[s[i].owner] = "live"
  PROVE  StackInv(s)'
<1>0. /\ \A i \in DOMAIN s : s[i] \in Frames
      /\ \A i \in DOMAIN s : s[i].owner \in Owners \cup {None}
  BY FrameType
<1>1. \A o \in Owners \cup {None} : Dead(o) => Dead(o)'
  BY DEF Aged, Dead
<1>2. StackFits(s)' /\ NoRunInTeardown(s)'
  BY DEF StackInv, StackFits, NoRunInTeardown
<1>3. TeardownsHaveCause(s)' /\ CaughtAreDead(s)'
  <2>1. \A i \in DOMAIN s : Dead(s[i].owner) => Dead(s[i].owner)'
    BY <1>0 DEF Aged, Dead
  <2>2. TeardownsHaveCause(s)'
    BY <2>1 DEF StackInv, TeardownsHaveCause
  <2>3. CaughtAreDead(s)'
    BY <2>1 DEF StackInv, CaughtAreDead
  <2>4. QED
    BY <2>2, <2>3
<1>4. ScopesInPlace(s)'
  <2> SUFFICES ASSUME NEW i \in DOMAIN s, s[i].kind = "scope"
               PROVE  /\ status'[s[i].owner] = "live"
                      /\ parent'[s[i].owner] = CurrentOwner(SubSeq(s, 1, i - 1))
                      /\ \A j \in 1 .. i - 1 : s[j].kind = "scope" => s[j].owner # s[i].owner
    BY DEF ScopesInPlace
  <2>1. /\ status[s[i].owner] = "live"
        /\ parent[s[i].owner] = CurrentOwner(SubSeq(s, 1, i - 1))
        /\ \A j \in 1 .. i - 1 : s[j].kind = "scope" => s[j].owner # s[i].owner
    BY DEF StackInv, ScopesInPlace
  <2>2. s[i].owner \in Owners
    BY DEF StackInv, StackFits, FrameFits, Owners
  <2>3. parent'[s[i].owner] = parent[s[i].owner]
    BY <2>1, <2>2 DEF Aged
  <2>4. QED
    BY <2>1, <2>3, Zenon
<1>5. QED
  BY <1>2, <1>3, <1>4 DEF StackInv

LEMMA PushFitsAges ==
  ASSUME TypeOK, Aged, NEW s \in Seq(Frames), NEW f \in Frames, PushFits(s, f),
         f.kind = "scope" => status'[f.owner] = "live"
  PROVE  PushFits(s, f)'
<1>1. f.owner \in Owners \cup {None}
  BY FrameType
<1>2. Dead(f.owner) => Dead(f.owner)'
  BY <1>1 DEF Aged, Dead
<1>3. f.kind = "scope" => f.owner \in Owners
  BY DEF PushFits, FrameFits, Owners
<1>4. f.kind = "scope" => parent'[f.owner] = parent[f.owner]
  BY <1>3 DEF PushFits, Aged
<1>5. f.kind = "scope" =>
        /\ status'[f.owner] = "live" /\ parent'[f.owner] = CurrentOwner(s)
        /\ \A i \in DOMAIN s : s[i].kind = "scope" => s[i].owner # f.owner
  BY <1>4 DEF PushFits
<1>6. QED
  BY <1>2, <1>5 DEF PushFits

-----------------------------------------------------------------------------
(* Every step keeps the stack in order.                                    *)

LEMMA StackIs ==
  ASSUME NEW s \in Seq(Frames), stack' = s, StackInv(s)'
  PROVE  StackInv(stack)'
BY DEF StackInv, StackFits, ScopesInPlace, TeardownsHaveCause, CaughtAreDead, NoRunInTeardown

LEMMA Pushed ==
  ASSUME NEW s \in Seq(Frames), NEW f \in Frames, StackInv(s)', PushFits(s, f)',
         stack' = Append(s, f)
  PROVE  StackInv(stack)' /\ stack' \in Seq(Frames) /\ ~Idle'
<1>1. PICK t \in Seq(Frames) : t = Append(s, f) /\ t # <<>>
  BY Appended
<1>2. StackInv(Append(s, f))'
  BY PushKeeps
<1>3. StackInv(t)'
  BY <1>1, <1>2
      DEF StackInv, StackFits, ScopesInPlace, TeardownsHaveCause, CaughtAreDead, NoRunInTeardown
<1>4. QED
  BY <1>1, <1>3, StackIs DEF Idle

(* These frames may be pushed on any stack. *)
LEMMA PlainFits ==
  ASSUME NEW s \in Seq(Frames), NEW k, NEW o,
         \/ k = "run_in" /\ o \in Owners
         \/ k \in {"unowned", "cleanup"} /\ o = None
  PROVE  PushFits(s, Frame(k, o)) /\ Frame(k, o) \in Frames
<1>1. Frame(k, o) \in Frames
  BY FrameType DEF Kinds
<1>2. Frame(k, o).kind = k /\ Frame(k, o).owner = o
  BY DEF Frame
<1>3. FrameFits(Frame(k, o))
  BY <1>2, OwnersAssumption DEF FrameFits
<1>4. QED
  BY <1>1, <1>2, <1>3 DEF PushFits

(* The teardown's frame may be pushed where the owner is not about to run. *)
LEMMA DisposeKeeps ==
  ASSUME TypeOK, NEW o \in Owners, NEW s \in Seq(Frames), NEW u \in BOOLEAN,
         DisposeOn(o, s, u), UNCHANGED parent, StackInv(s)',
         panicking /\ status[o] = "disposed" => s # <<>>,
         status[o] # "disposed" =>
           \A i \in DOMAIN s : s[i].kind = "handler" => s[i].owner # o
  PROVE  /\ StackInv(stack)' /\ stack' \in Seq(Frames)
         /\ status' \in [Owners -> {"absent", "live", "disposed"}]
         /\ children' \in [Owners -> Seq(Owners)] /\ swept_at' \in [Owners -> Nat]
         /\ cleanups' \in [Owners -> Seq(Cleanups)]
         /\ cleanup_registrations' \in Nat /\ owned_children' \in Nat
         /\ panicking' \in BOOLEAN /\ (panicking' => ~Idle')
<1>1. status' \in [Owners -> {"absent", "live", "disposed"}] /\ Dead(o)'
  BY DisposeAges
<1>2. CASE status[o] = "disposed"
  <2>1. stack' = s /\ UNCHANGED <<lists, gauges, panicking>>
    BY <1>2 DEF DisposeOn
  <2>2. StackInv(stack)'
    BY <2>1, StackIs
  <2>3. QED
    BY <1>1, <1>2, <2>1, <2>2 DEF TypeOK, lists, gauges, Idle
<1>3. CASE status[o] # "disposed"
  <2>1. Reset(o, s, u)
    BY <1>3 DEF DisposeOn
  <2>2. PICK f \in Frames :
          /\ stack' = Append(s, f) /\ f.kind = "reset" /\ f.owner = o
          /\ f.cleanups = cleanups[o] /\ f.children = children[o]
    BY <2>1, ResetType
  <2>3. PushFits(s, f)'
    BY <1>1, <1>3, <2>2, OwnersAssumption DEF PushFits, FrameFits
  <2>4. StackInv(stack)' /\ stack' \in Seq(Frames) /\ ~Idle'
    BY <2>2, <2>3, Pushed
  <2>5. QED
    BY <1>1, <2>1, <2>4, ResetType
<1>4. QED
  BY <1>2, <1>3

(* A disposal on what is left when nothing or the top is taken away. *)
LEMMA BaseAges ==
  ASSUME OwnedInv, NEW o \in Owners, NEW s \in Seq(Frames), NEW b, NEW u,
         DisposeOn(o, b, u), UNCHANGED parent, StackInv(s),
         \A i \in DOMAIN s : s[i].kind = "scope" => s[i].owner # o
  PROVE  StackInv(s)'
<1>1. Aged /\ status' = [status EXCEPT ![o] = "disposed"]
  BY DisposeAges DEF OwnedInv
<1>2. \A i \in DOMAIN s : s[i].kind = "scope" => status'[s[i].owner] = "live"
  <2> SUFFICES ASSUME NEW i \in DOMAIN s, s[i].kind = "scope"
               PROVE  status'[s[i].owner] = "live"
    OBVIOUS
  <2>1. status[s[i].owner] = "live" /\ s[i].owner # o
    BY DEF StackInv, ScopesInPlace
  <2>2. s[i].owner \in Owners
    BY DEF StackInv, StackFits, FrameFits, Owners
  <2>3. QED
    BY <1>1, <2>1, <2>2 DEF OwnedInv, TypeOK
<1>3. QED
  BY <1>1, <1>2, StackInvAges DEF OwnedInv

LEMMA SameTreeAges ==
  ASSUME TypeOK, UNCHANGED tree, NEW s \in Seq(Frames)
  PROVE  /\ StackInv(s) => StackInv(s)'
         /\ \A f \in Frames : PushFits(s, f) => PushFits(s, f)'
<1>1. Aged /\ status' = status
  BY DEF Aged, tree
<1>2. ASSUME StackInv(s) PROVE StackInv(s)'
  <2>1. \A i \in DOMAIN s : s[i].kind = "scope" => status'[s[i].owner] = "live"
    BY <1>1, <1>2 DEF StackInv, ScopesInPlace
  <2>2. QED
    BY <1>1, <1>2, <2>1, StackInvAges
<1>3. ASSUME NEW f \in Frames, PushFits(s, f) PROVE PushFits(s, f)'
  <2>1. f.kind = "scope" => status'[f.owner] = "live"
    BY <1>1, <1>3 DEF PushFits
  <2>2. QED
    BY <1>1, <1>3, <2>1, PushFitsAges
<1>4. QED
  BY <1>2, <1>3

(* A new owner changes nothing for those there are. *)
LEMMA NewOwnerAges ==
  ASSUME OwnedInv, NEW o \in Owners, NEW st \in {"live", "disposed"},
         status[o] = "absent", NewOwner(o, st), NEW s \in Seq(Frames)
  PROVE  /\ StackInv(s) => StackInv(s)'
         /\ status' \in [Owners -> {"absent", "live", "disposed"}] /\ status'[o] = st
         /\ parent' \in [Owners -> Owners \cup {None}] /\ parent'[o] = CurrentOwner(stack)
         /\ guarded' \in SUBSET Owners
         /\ \A q \in Owners : q # o => status'[q] = status[q] /\ parent'[q] = parent[q]
<1>1. /\ status \in [Owners -> {"absent", "live", "disposed"}]
      /\ parent \in [Owners -> Owners \cup {None}] /\ guarded \subseteq Owners
      /\ CurrentOwner(stack) \in Owners \cup {None}
  BY CurrentOwnerType DEF OwnedInv, TypeOK
<1>2. /\ status' = [status EXCEPT ![o] = st] /\ parent' = [parent EXCEPT ![o] = CurrentOwner(stack)]
      /\ guarded' \in {guarded, guarded \cup {o}}
  BY DEF NewOwner
<1>3. Aged
  BY <1>1, <1>2 DEF Aged
<1>4. ASSUME StackInv(s) PROVE StackInv(s)'
  <2>1. ASSUME NEW i \in DOMAIN s, s[i].kind = "scope"
        PROVE  status'[s[i].owner] = "live"
    <3>1. status[s[i].owner] = "live"
      BY <1>4, <2>1 DEF StackInv, ScopesInPlace
    <3>2. s[i].owner \in Owners
      BY <1>4, <2>1 DEF StackInv, StackFits, FrameFits, Owners
    <3>3. QED
      BY <1>1, <1>2, <3>1, <3>2
  <2>2. QED
    BY <1>3, <1>4, <2>1, StackInvAges DEF OwnedInv
<1>5. QED
  BY <1>1, <1>2, <1>4

LEMMA StartScopeKeeps ==
  ASSUME OwnedInv, NEW o \in Scopes, StartScope(o)
  PROVE  TypeOK' /\ StackInv(stack)'
<1>1. PICK s \in Seq(Frames) : s = stack /\ StackInv(s)
  BY DEF OwnedInv, TypeOK
<1>2. o \in Owners /\ status[o] = "absent" /\ NewOwner(o, "live")
  BY DEF StartScope, Owners
<1>3. /\ StackInv(s)'
      /\ status' \in [Owners -> {"absent", "live", "disposed"}] /\ status'[o] = "live"
      /\ parent' \in [Owners -> Owners \cup {None}] /\ parent'[o] = CurrentOwner(s)
      /\ guarded' \in SUBSET Owners
  BY <1>1, <1>2, NewOwnerAges
<1>4. PICK f \in Frames : f = Frame("scope", o) /\ f.kind = "scope" /\ f.owner = o
  BY <1>2, FrameType, "scope" \in Kinds DEF Kinds
<1>5. PushFits(s, f)'
  <2>1. FrameFits(f)
    BY <1>2, <1>4, OwnersAssumption DEF FrameFits
  <2>2. ASSUME NEW i \in DOMAIN s, s[i].kind = "scope" PROVE s[i].owner # o
    BY <1>1, <1>2, <2>2 DEF StackInv, ScopesInPlace
  <2>3. status'[f.owner] = "live" /\ parent'[f.owner] = CurrentOwner(s)
    BY <1>3, <1>4
  <2>4. \A i \in DOMAIN s : s[i].kind = "scope" => s[i].owner # f.owner
    BY <1>4, <2>2
  <2>5. QED
    BY <1>4, <2>1, <2>3, <2>4 DEF PushFits
<1>6. stack' = Append(s, f)
  BY <1>1, <1>4 DEF StartScope
<1>7. StackInv(stack)' /\ stack' \in Seq(Frames) /\ ~Idle'
  BY <1>3, <1>5, <1>6, Pushed
<1>8. UNCHANGED <<lists, gauges, history, panicking>>
  BY DEF StartScope
<1>9. QED
  BY <1>3, <1>7, <1>8 DEF OwnedInv, TypeOK, lists, gauges, history

LEMMA CreateEffectKeeps ==
  ASSUME OwnedInv, NEW e \in Effects, CreateEffect(e)
  PROVE  TypeOK' /\ StackInv(stack)'
<1> DEFINE p == CurrentOwner(stack)
<1>1. PICK s \in Seq(Frames) : s = stack /\ StackInv(s)
  BY DEF OwnedInv, TypeOK
<1>2. /\ e \in Owners /\ status[e] = "absent" /\ p \in Owners \cup {None}
      /\ NewOwner(e, IF Dead(p) THEN "disposed" ELSE "live")
  BY <1>1, CurrentOwnerType DEF CreateEffect, Owners
<1>3. /\ StackInv(s)'
      /\ status' \in [Owners -> {"absent", "live", "disposed"}]
      /\ parent' \in [Owners -> Owners \cup {None}]
      /\ guarded' \in SUBSET Owners
  <2>1. PICK st \in {"live", "disposed"} : NewOwner(e, st)
    BY <1>2
  <2>2. QED
    BY <1>1, <1>2, <2>1, NewOwnerAges
<1>4. UNCHANGED <<known, ran, stack, panicking>>
  BY DEF CreateEffect, history, control
<1>5. StackInv(stack)'
  BY <1>1, <1>3, <1>4, StackIs
<1>6. /\ children' \in [Owners -> Seq(Owners)] /\ swept_at' \in [Owners -> Nat]
      /\ cleanups' \in [Owners -> Seq(Cleanups)]
      /\ cleanup_registrations' \in Nat /\ owned_children' \in Nat
  <2>1. CASE p = None \/ Dead(p)
    BY <2>1 DEF CreateEffect, OwnedInv, TypeOK, lists, gauges
  <2>2. CASE ~(p = None \/ Dead(p))
    <3>1. p \in Owners /\ Adopt(p, e)
      BY <1>2, <2>2 DEF CreateEffect
    <3>2. QED
      BY <1>2, <3>1, AdoptType DEF OwnedInv
  <2>3. QED
    BY <2>1, <2>2
<1>7. QED
  BY <1>3, <1>4, <1>5, <1>6 DEF OwnedInv, TypeOK, Idle

LEMMA RunEffectKeeps ==
  ASSUME OwnedInv, NEW e \in Effects, RunEffect(e)
  PROVE  TypeOK' /\ StackInv(stack)'
<1>1. PICK s \in Seq(Frames) : s = stack /\ StackInv(s)
  BY DEF OwnedInv, TypeOK
<1>2. /\ e \in Owners /\ status[e] = "live" /\ ~Running(e) /\ e # None
      /\ UNCHANGED <<status, parent, guarded, known, ran>>
      /\ UNCHANGED tree
  BY OwnersAssumption DEF RunEffect, Owners, tree, history
<1>3. StackInv(s)'
  BY <1>1, <1>2, SameTreeAges DEF OwnedInv
<1>4. PICK f \in Frames : f = Frame("rerun", e) /\ f.kind = "rerun" /\ f.owner = e
  BY <1>2, FrameType, "rerun" \in Kinds DEF Kinds
<1>5. PushFits(s, f)'
  <2>1. FrameFits(f)
    BY <1>2, <1>4 DEF FrameFits
  <2>2. ASSUME NEW i \in DOMAIN s, s[i].kind = "reset", s[i].owner = e PROVE FALSE
    <3>1. ~Dead(e)
      BY <1>2 DEF Dead
    <3>2. i > 1 /\ s[i - 1] = f
      BY <1>1, <1>4, <2>2, <3>1 DEF StackInv, TeardownsHaveCause
    <3>3. i - 1 \in DOMAIN s
      BY <3>2
    <3>4. QED
      BY <1>1, <1>2, <1>4, <3>2, <3>3 DEF Running
  <2>3. QED
    BY <1>4, <2>1, <2>2 DEF PushFits
<1>6. PICK t \in Seq(Frames) : t = Append(s, f) /\ t # <<>> /\ Last(t) = f
  <2>1. /\ Append(s, f) \in Seq(Frames) /\ Append(s, f) # <<>>
        /\ Len(Append(s, f)) = Len(s) + 1 /\ Append(s, f)[Len(s) + 1] = f
    BY Appended
  <2>2. Last(Append(s, f)) = f
    BY <2>1 DEF Last
  <2>3. QED
    BY <2>1, <2>2
<1>7. StackInv(t)'
  <2>1. StackInv(Append(s, f))'
    BY <1>3, <1>5, PushKeeps
  <2>2. QED
    BY <1>6, <2>1
      DEF StackInv, StackFits, ScopesInPlace, TeardownsHaveCause, CaughtAreDead, NoRunInTeardown
<1>8. Reset(e, t, FALSE)
  BY <1>1, <1>4, <1>6 DEF RunEffect
<1>9. PICK g \in Frames :
        /\ stack' = Append(t, g) /\ g.kind = "reset" /\ g.owner = e
        /\ g.cleanups = cleanups[e] /\ g.children = children[e]
  BY <1>2, <1>8, ResetType DEF OwnedInv
<1>10. PushFits(t, g)'
  <2>1. \A i \in DOMAIN s : s[i].kind = "handler" => s[i].owner # e
    BY <1>1, <1>2 DEF StackInv, CaughtAreDead, Dead
  <2>2. \A i \in DOMAIN t : t[i].kind = "handler" => t[i].owner # e
    <3>1. /\ DOMAIN t = 1 .. Len(s) + 1 /\ DOMAIN s = 1 .. Len(s) /\ Len(s) \in Nat
          /\ \A i \in 1 .. Len(s) : t[i] = s[i]
          /\ t[Len(s) + 1] = f
      BY <1>6, Appended
    <3>2. \A i \in DOMAIN t : i \in DOMAIN s \/ i = Len(s) + 1
      BY <3>1
    <3>3. QED
      BY <1>4, <2>1, <3>1, <3>2
  <2>3. QED
    BY <1>2, <1>4, <1>6, <1>9, <2>2 DEF PushFits, FrameFits
<1>11. StackInv(stack)' /\ stack' \in Seq(Frames) /\ ~Idle'
  BY <1>7, <1>9, <1>10, Pushed
<1>12. /\ children' \in [Owners -> Seq(Owners)] /\ swept_at' \in [Owners -> Nat]
       /\ cleanups' \in [Owners -> Seq(Cleanups)]
       /\ cleanup_registrations' \in Nat /\ owned_children' \in Nat
       /\ panicking' = FALSE
  BY <1>2, <1>8, ResetType DEF OwnedInv
<1>13. QED
  BY <1>2, <1>11, <1>12 DEF OwnedInv, TypeOK

(* Pushing, popping and replacing a frame while no owner changes. *)
LEMMA SameTreePush ==
  ASSUME OwnedInv, UNCHANGED tree, NEW f \in Frames, PushFits(stack, f),
         stack' = Append(stack, f)
  PROVE  StackInv(stack)' /\ stack' \in Seq(Frames) /\ ~Idle'
<1>1. PICK s \in Seq(Frames) : s = stack /\ StackInv(s) /\ PushFits(s, f)
  BY DEF OwnedInv, TypeOK
<1>2. StackInv(s)' /\ PushFits(s, f)'
  BY <1>1, SameTreeAges DEF OwnedInv
<1>3. QED
  BY <1>1, <1>2, Pushed

LEMMA SameTreeRetop ==
  ASSUME OwnedInv, ~Idle, UNCHANGED tree, NEW f \in Frames, PushFits(Pop, f),
         stack' = Retop(f)
  PROVE  StackInv(stack)' /\ stack' \in Seq(Frames) /\ ~Idle'
<1>1. /\ stack # <<>> /\ Pop \in Seq(Frames) /\ Pop = Front(stack) /\ stack' = Append(Pop, f)
      /\ StackInv(stack) /\ stack \in Seq(Frames)
  BY TopType DEF OwnedInv, TypeOK
<1>2. StackInv(Pop)
  BY <1>1, TopFits
<1>3. PICK s \in Seq(Frames) : s = Pop /\ StackInv(s) /\ PushFits(s, f)
  BY <1>1, <1>2
<1>4. StackInv(s)' /\ PushFits(s, f)'
  BY <1>3, SameTreeAges DEF OwnedInv
<1>5. QED
  BY <1>1, <1>3, <1>4, Pushed

LEMMA SameTreePop ==
  ASSUME OwnedInv, ~Idle, UNCHANGED tree, stack' = Pop
  PROVE  /\ StackInv(stack)' /\ stack' \in Seq(Frames)
         /\ Len(stack) > 1 <=> ~Idle'
<1>1. /\ stack # <<>> /\ Pop \in Seq(Frames) /\ Pop = Front(stack)
      /\ StackInv(stack) /\ stack \in Seq(Frames)
      /\ Len(Pop) = Len(stack) - 1 /\ Len(stack) \in Nat
  BY TopType DEF OwnedInv, TypeOK
<1>2. StackInv(Pop)
  BY <1>1, TopFits
<1>3. PICK s \in Seq(Frames) : s = Pop /\ StackInv(s)
  BY <1>1, <1>2
<1>4. StackInv(s)'
  BY <1>3, SameTreeAges DEF OwnedInv
<1>5. StackInv(stack)'
  BY <1>3, <1>4, StackIs
<1>6. Len(stack) > 1 <=> Pop # <<>>
  BY <1>1
<1>7. QED
  BY <1>1, <1>5, <1>6 DEF Idle

LEMMA SameTreeStays ==
  ASSUME OwnedInv, UNCHANGED tree, UNCHANGED stack
  PROVE  StackInv(stack)' /\ stack' \in Seq(Frames)
<1>1. PICK s \in Seq(Frames) : s = stack /\ StackInv(s)
  BY DEF OwnedInv, TypeOK
<1>2. StackInv(s)'
  BY <1>1, SameTreeAges DEF OwnedInv
<1>3. QED
  BY <1>1, <1>2, StackIs

(* What is on the top now may stay there with less to do. *)
LEMMA TopMayStay ==
  ASSUME OwnedInv, ~Idle, NEW f \in Frames,
         f.kind = "reset", On("reset"), f.owner = Top.owner
  PROVE  PushFits(Pop, f)
<1>1. /\ stack # <<>> /\ Pop = Front(stack) /\ Top = Last(stack) /\ Top \in Frames
      /\ StackInv(stack) /\ stack \in Seq(Frames)
  BY TopType DEF OwnedInv, TypeOK
<1>2. PushFits(Pop, Top)
  BY <1>1, TopFits
<1>3. QED
  BY <1>2 DEF PushFits, FrameFits, On

(* User code that neither makes nor disposes owners. *)
LEMMA UserKeeps ==
  ASSUME OwnedInv, OnCleanup \/ Unowned \/ Panic \/ \E o \in Owners : RunIn(o)
  PROVE  TypeOK' /\ StackInv(stack)'
<1>1. TypeOK /\ stack \in Seq(Frames)
  BY DEF OwnedInv, TypeOK
<1>2. ASSUME UNCHANGED <<tree, lists, gauges, history, panicking>>,
             NEW f \in Frames, PushFits(stack, f), stack' = Append(stack, f)
      PROVE  TypeOK' /\ StackInv(stack)'
  <2>1. StackInv(stack)' /\ stack' \in Seq(Frames) /\ ~Idle'
    BY <1>2, SameTreePush
  <2>2. QED
    BY <1>1, <1>2, <2>1 DEF TypeOK, tree, lists, gauges, history
<1>u. CASE Unowned
  <2>1. /\ UNCHANGED <<tree, lists, gauges, history, panicking>>
        /\ stack' = Append(stack, Frame("unowned", None))
    BY <1>u DEF Unowned
  <2>2. Frame("unowned", None) \in Frames /\ PushFits(stack, Frame("unowned", None))
    BY <1>1, PlainFits
  <2>3. QED
    BY <1>2, <2>1, <2>2
<1>r. ASSUME NEW o \in Owners, RunIn(o) PROVE TypeOK' /\ StackInv(stack)'
  <2>1. /\ UNCHANGED <<tree, lists, gauges, history, panicking>>
        /\ stack' = Append(stack, Frame("run_in", o))
    BY <1>r DEF RunIn
  <2>2. Frame("run_in", o) \in Frames /\ PushFits(stack, Frame("run_in", o))
    BY <1>1, PlainFits
  <2>3. QED
    BY <1>2, <2>1, <2>2
<1>3. CASE Panic
  <2>1. UNCHANGED <<tree, lists, gauges, history, stack>> /\ panicking' = TRUE
    BY <1>3 DEF Panic
  <2>2. ~Idle
    BY <1>3, OnTop DEF Panic, Closures, Kinds
  <2>3. StackInv(stack)'
    BY <2>1, SameTreeStays
  <2>4. QED
    BY <1>1, <2>1, <2>2, <2>3 DEF TypeOK, tree, lists, gauges, history, Idle
<1>4. CASE OnCleanup
  <2> DEFINE p == CurrentOwner(stack)
             c == known + 1
  <2>1. /\ UNCHANGED tree /\ ~Idle /\ c \in Cleanups /\ c \in 0 .. MaxCleanups
        /\ p \in Owners \cup {None}
    BY <1>1, <1>4, CurrentOwnerType, BoundsAssumption DEF OnCleanup, TypeOK, Cleanups
  <2>2. CASE p = None
    <3>1. UNCHANGED <<lists, gauges, history, stack>> /\ panicking' = TRUE
      BY <1>4, <2>2 DEF OnCleanup
    <3>2. StackInv(stack)'
      BY <2>1, <3>1, SameTreeStays
    <3>3. QED
      BY <1>1, <2>1, <3>1, <3>2 DEF TypeOK, tree, lists, gauges, history, Idle
  <2>3. CASE p # None /\ Dead(p)
    <3>1. /\ known' = c /\ ran' = [ran EXCEPT ![c] = 1]
          /\ stack' = Append(stack, Frame("cleanup", None))
          /\ UNCHANGED <<lists, gauges, panicking>>
      BY <1>4, <2>3 DEF OnCleanup, AddCleanup
    <3>2. Frame("cleanup", None) \in Frames /\ PushFits(stack, Frame("cleanup", None))
      BY <1>1, PlainFits
    <3>3. StackInv(stack)' /\ stack' \in Seq(Frames) /\ ~Idle'
      BY <2>1, <3>1, <3>2, SameTreePush
    <3>4. QED
      BY <1>1, <2>1, <3>1, <3>3 DEF TypeOK, tree, lists, gauges
  <2>4. CASE p # None /\ ~Dead(p)
    <3>1. /\ known' = c /\ cleanups' = [cleanups EXCEPT ![p] = Append(@, c)]
          /\ cleanup_registrations' = cleanup_registered(cleanup_registrations)
          /\ UNCHANGED <<children, swept_at, owned_children, ran, stack, panicking>>
      BY <1>4, <2>4 DEF OnCleanup, AddCleanup, control
    <3>2. StackInv(stack)'
      BY <2>1, <3>1, SameTreeStays
    <3>3. cleanups' \in [Owners -> Seq(Cleanups)]
      BY <1>1, <2>1, <2>4, <3>1 DEF TypeOK
    <3>4. cleanup_registrations' \in Nat
      BY <1>1, <3>1 DEF TypeOK, cleanup_registered
    <3>5. QED
      BY <1>1, <2>1, <3>1, <3>2, <3>3, <3>4 DEF TypeOK, tree, Idle
  <2>5. QED
    BY <2>2, <2>3, <2>4
<1>5. QED
  BY <1>u, <1>r, <1>3, <1>4

(* Disposals, by a handle or by what unwinds. *)
LEMMA DisposeTypes ==
  ASSUME OwnedInv, NEW o \in Owners, NEW s \in Seq(Frames), NEW u \in BOOLEAN,
         DisposeOn(o, s, u), UNCHANGED <<parent, guarded, history>>, StackInv(s)',
         panicking /\ status[o] = "disposed" => s # <<>>,
         status[o] # "disposed" =>
           \A i \in DOMAIN s : s[i].kind = "handler" => s[i].owner # o
  PROVE  TypeOK' /\ StackInv(stack)'
<1>1. TypeOK /\ UNCHANGED parent /\ UNCHANGED <<guarded, known, ran>>
  BY DEF OwnedInv, history
<1>2. /\ StackInv(stack)' /\ stack' \in Seq(Frames)
      /\ status' \in [Owners -> {"absent", "live", "disposed"}]
      /\ children' \in [Owners -> Seq(Owners)] /\ swept_at' \in [Owners -> Nat]
      /\ cleanups' \in [Owners -> Seq(Cleanups)]
      /\ cleanup_registrations' \in Nat /\ owned_children' \in Nat
      /\ panicking' \in BOOLEAN /\ (panicking' => ~Idle')
  BY <1>1, DisposeKeeps
<1>3. QED
  BY <1>1, <1>2 DEF TypeOK

LEMMA DisposalKeeps ==
  ASSUME OwnedInv, NEW o \in Owners, Dispose(o) \/ DropUnwinding(o)
  PROVE  TypeOK' /\ StackInv(stack)'
<1>1. PICK s \in Seq(Frames) : s = stack /\ StackInv(s)
  BY DEF OwnedInv, TypeOK
<1>2. PICK u \in BOOLEAN : DisposeOn(o, stack, u)
  BY DEF Dispose, DropUnwinding
<1>3. HasHandle(o) /\ UNCHANGED <<parent, guarded, history>>
  BY DEF Dispose, DropUnwinding
<1>4. DisposeOn(o, s, u)
  BY <1>1, <1>2
<1>5. \A i \in DOMAIN s : s[i].kind = "scope" => s[i].owner # o
  BY <1>1, <1>3 DEF HasHandle, StackInv, StackFits, FrameFits
<1>6. StackInv(s)'
  BY <1>1, <1>3, <1>4, <1>5, BaseAges
<1>7. panicking => s # <<>>
  BY <1>1 DEF OwnedInv, TypeOK, Idle
<1>8. status[o] # "disposed" => \A i \in DOMAIN s : s[i].kind = "handler" => s[i].owner # o
  BY <1>1 DEF StackInv, CaughtAreDead, Dead
<1>9. QED
  BY <1>3, <1>4, <1>6, <1>7, <1>8, DisposeTypes

(* What there is to know of the frame on top. *)
LEMMA TopKnown ==
  ASSUME OwnedInv, Top.kind \in Kinds
  PROVE  /\ ~Idle /\ stack # <<>> /\ Pop = Front(stack) /\ Top = Last(stack)
         /\ Top \in Frames /\ Pop \in Seq(Frames)
         /\ StackInv(Pop) /\ PushFits(Pop, Top) /\ FrameFits(Top)
<1>1. /\ ~Idle /\ stack # <<>> /\ Pop = Front(stack) /\ Top = Last(stack)
      /\ Top \in Frames /\ Pop \in Seq(Frames) /\ stack \in Seq(Frames)
  BY OnTop, TopType DEF OwnedInv, TypeOK
<1>2. StackInv(Pop) /\ PushFits(Pop, Top)
  BY <1>1, TopFits DEF OwnedInv
<1>3. QED
  BY <1>1, <1>2 DEF PushFits

(* A scope's closure is over, and something disposes it. *)
LEMMA ScopeDisposeKeeps ==
  ASSUME OwnedInv, On("scope"), NEW u \in BOOLEAN, DisposeOn(Top.owner, Pop, u),
         UNCHANGED <<parent, guarded, history>>
  PROVE  TypeOK' /\ StackInv(stack)'
<1>1. Top.kind = "scope" /\ Top.kind \in Kinds
  BY DEF On, Kinds
<1>2. PICK s \in Seq(Frames) : s = Pop /\ StackInv(s) /\ PushFits(s, Top)
  BY <1>1, TopKnown
<1>3. PICK o \in Owners : o = Top.owner
  BY <1>1, <1>2 DEF PushFits, FrameFits, Owners
<1>4. /\ status[o] = "live"
      /\ \A i \in DOMAIN s : s[i].kind = "scope" => s[i].owner # o
  BY <1>1, <1>2, <1>3 DEF PushFits
<1>5. DisposeOn(o, s, u)
  BY <1>2, <1>3
<1>6. StackInv(s)'
  BY <1>2, <1>4, <1>5, BaseAges
<1>7. \A i \in DOMAIN s : s[i].kind = "handler" => s[i].owner # o
  BY <1>2, <1>4 DEF StackInv, CaughtAreDead, Dead
<1>8. QED
  BY <1>4, <1>5, <1>6, <1>7, DisposeTypes

(* A panic goes on while frames are left. *)
LEMMA GoesOn ==
  ASSUME panicking' = (Len(stack) > 1)
  PROVE  panicking' \in BOOLEAN /\ (panicking' => Len(stack) > 1)
<1>1. CASE Len(stack) > 1
  <2>1. panicking' = TRUE
    BY <1>1, Zenon
  <2>2. QED
    BY <1>1, <2>1
<1>2. CASE ~(Len(stack) > 1)
  <2>1. (Len(stack) > 1) = FALSE
    BY <1>2
  <2>2. panicking' = FALSE
    BY <2>1
  <2>3. QED
    BY <2>2
<1>3. QED
  BY <1>1, <1>2, Zenon

LEMMA PopKeeps ==
  ASSUME OwnedInv, Return \/ FinishReset \/ Unwind
  PROVE  TypeOK' /\ StackInv(stack)'
<1>1. UNCHANGED <<tree, lists, gauges, history>> /\ stack' = Pop
  BY DEF Return, FinishReset, Unwind
<1>2. Top.kind \in Kinds
  BY DEF Return, FinishReset, Unwind, Closures, Kinds, On
<1>3. ~Idle
  BY <1>2, TopKnown
<1>4. StackInv(stack)' /\ stack' \in Seq(Frames) /\ (Len(stack) > 1 <=> ~Idle')
  BY <1>1, <1>3, SameTreePop
<1>5. panicking' \in BOOLEAN /\ (panicking' => Len(stack) > 1)
  <2>1. CASE Return
    <3>1. panicking' = panicking /\ panicking = FALSE
      BY <2>1 DEF Return, OwnedInv, TypeOK
    <3>2. QED
      BY <3>1
  <2>2. CASE FinishReset
    BY <2>2 DEF FinishReset
  <2>3. CASE Unwind
    <3>1. panicking' = (Len(stack) > 1)
      BY <2>3 DEF Unwind
    <3>2. QED
      BY <3>1, GoesOn
  <2>4. QED
    BY <2>1, <2>2, <2>3
<1>6. QED
  BY <1>1, <1>4, <1>5 DEF OwnedInv, TypeOK, tree, lists, gauges, history

LEMMA ScopeReturnKeeps ==
  ASSUME OwnedInv, ScopeReturn
  PROVE  TypeOK' /\ StackInv(stack)'
<1> DEFINE p == CurrentOwner(Pop)
<1>1. /\ ~panicking /\ On("scope") /\ UNCHANGED <<parent, guarded, history>>
  BY DEF ScopeReturn
<1>2. /\ Top.kind = "scope" /\ ~Idle /\ Pop \in Seq(Frames) /\ FrameFits(Top)
  BY <1>1, TopKnown DEF On, Kinds
<1>3. Top.owner \in Owners /\ p \in Owners \cup {None}
  BY <1>2, CurrentOwnerType DEF FrameFits, Owners
<1>4. CASE Dead(p) /\ DisposeOn(Top.owner, Pop, FALSE)
  BY <1>1, <1>4, ScopeDisposeKeeps
<1>5. CASE /\ stack' = Pop /\ UNCHANGED <<status, panicking>>
           /\ \/ UNCHANGED <<lists, gauges>>
              \/ p # None /\ Adopt(p, Top.owner)
  <2>1. UNCHANGED tree
    BY <1>1, <1>5 DEF tree
  <2>2. StackInv(stack)' /\ stack' \in Seq(Frames)
    BY <1>2, <1>5, <2>1, SameTreePop
  <2>3. /\ children' \in [Owners -> Seq(Owners)] /\ swept_at' \in [Owners -> Nat]
        /\ cleanups' \in [Owners -> Seq(Cleanups)]
        /\ cleanup_registrations' \in Nat /\ owned_children' \in Nat
    <3>1. CASE UNCHANGED <<lists, gauges>>
      BY <3>1 DEF OwnedInv, TypeOK, lists, gauges
    <3>2. CASE p # None /\ Adopt(p, Top.owner)
      BY <1>3, <3>2, AdoptType DEF OwnedInv
    <3>3. QED
      BY <1>5, <3>1, <3>2
  <2>4. QED
    BY <1>1, <1>5, <2>1, <2>2, <2>3 DEF OwnedInv, TypeOK, tree, history
<1>6. QED
  BY <1>4, <1>5 DEF ScopeReturn

LEMMA UnwindScopeKeeps ==
  ASSUME OwnedInv, UnwindScope
  PROVE  TypeOK' /\ StackInv(stack)'
<1>1. /\ On("scope") /\ UNCHANGED <<parent, guarded, history>>
  BY DEF UnwindScope
<1>2. ~Idle
  BY <1>1, TopKnown DEF On, Kinds
<1>3. CASE Top.owner \notin Kept
  <2>1. DisposeOn(Top.owner, Pop, TRUE)
    BY <1>3 DEF UnwindScope
  <2>2. QED
    BY <1>1, <2>1, ScopeDisposeKeeps, TRUE \in BOOLEAN
<1>4. CASE Top.owner \in Kept
  <2>1. /\ stack' = Pop /\ panicking' = (Len(stack) > 1)
        /\ UNCHANGED <<status, lists, gauges>> /\ UNCHANGED tree
    BY <1>1, <1>4 DEF UnwindScope, tree
  <2>2. StackInv(stack)' /\ stack' \in Seq(Frames) /\ (Len(stack) > 1 <=> ~Idle')
    BY <1>2, <2>1, SameTreePop
  <2>3. panicking' \in BOOLEAN /\ (panicking' => Len(stack) > 1)
    BY <2>1, GoesOn
  <2>4. QED
    BY <1>1, <2>1, <2>2, <2>3 DEF OwnedInv, TypeOK, tree, lists, gauges, history
<1>5. QED
  BY <1>3, <1>4

(* Steps of a teardown and of an effect's run: the top is replaced. *)
LEMMA CaptureKeeps ==
  ASSUME OwnedInv, Capture
  PROVE  TypeOK' /\ StackInv(stack)'
<1> DEFINE f == [Top EXCEPT !.failed = TRUE]
<1>1. /\ On("reset") /\ stack' = Retop(f) /\ panicking' = FALSE
      /\ UNCHANGED <<tree, lists, gauges, history>>
  BY DEF Capture
<1>2. ~Idle /\ Top \in Frames /\ Top.kind = "reset"
  BY <1>1, TopKnown DEF On, Kinds
<1>3. f \in Frames /\ f.kind = "reset" /\ f.owner = Top.owner
  BY <1>2 DEF Frames
<1> HIDE DEF f
<1>4. PushFits(Pop, f)
  BY <1>1, <1>2, <1>3, TopMayStay
<1>5. StackInv(stack)' /\ stack' \in Seq(Frames)
  BY <1>1, <1>2, <1>3, <1>4, SameTreeRetop
<1>6. QED
  BY <1>1, <1>5 DEF OwnedInv, TypeOK, tree, lists, gauges, history

LEMMA RunCleanupKeeps ==
  ASSUME OwnedInv, RunCleanup
  PROVE  TypeOK' /\ StackInv(stack)'
<1> DEFINE g == [Top EXCEPT !.cleanups = Front(@)]
           c == Last(Top.cleanups)
           k == Frame("cleanup", None)
<1>1. /\ On("reset") /\ ~panicking /\ Top.cleanups # <<>>
      /\ stack' = Append(Retop(g), k) /\ ran' = [ran EXCEPT ![c] = @ + 1]
      /\ UNCHANGED <<lists, gauges, known, panicking>> /\ UNCHANGED tree
  BY DEF RunCleanup
<1>2. ~Idle /\ Top \in Frames /\ Top.kind = "reset" /\ Pop \in Seq(Frames) /\ StackInv(Pop)
  BY <1>1, TopKnown DEF On, Kinds
<1>3. Front(Top.cleanups) \in Seq(Cleanups) /\ c \in Cleanups
  BY <1>1, <1>2, FrameType, Shortened
<1>4. g \in Frames /\ g.kind = "reset" /\ g.owner = Top.owner
  BY <1>2, <1>3 DEF Frames
<1> HIDE DEF g
<1>5. PushFits(Pop, g)
  BY <1>1, <1>2, <1>4, TopMayStay
<1>6. PICK s \in Seq(Frames) : s = Pop /\ StackInv(s) /\ PushFits(s, g) /\ stack' = Append(Append(s, g), k)
  BY <1>1, <1>2, <1>4, <1>5, TopType DEF OwnedInv, TypeOK
<1>7. PICK h \in Frames : h = g
  BY <1>4
<1>8. StackInv(s)' /\ PushFits(s, h)'
  BY <1>1, <1>6, <1>7, SameTreeAges DEF OwnedInv
<1>9. PICK t \in Seq(Frames) : t = Append(s, h)
  BY Appended
<1>10. StackInv(t)'
  <2>1. StackInv(Append(s, h))'
    BY <1>8, PushKeeps
  <2>2. QED
    BY <1>9, <2>1
      DEF StackInv, StackFits, ScopesInPlace, TeardownsHaveCause, CaughtAreDead, NoRunInTeardown
<1>11. k \in Frames /\ PushFits(t, k)
  BY PlainFits
<1>12. PushFits(t, k)'
  BY <1>1, <1>11, SameTreeAges DEF OwnedInv
<1>13. stack' = Append(t, k)
  BY <1>6, <1>7, <1>9
<1> HIDE DEF k
<1>14. StackInv(stack)' /\ stack' \in Seq(Frames)
  BY <1>10, <1>11, <1>12, <1>13, Pushed
<1>15. ran' \in [Cleanups -> Nat]
  BY <1>1, <1>3 DEF OwnedInv, TypeOK
<1>16. QED
  BY <1>1, <1>14, <1>15 DEF OwnedInv, TypeOK, tree, lists, gauges

LEMMA DisposeChildKeeps ==
  ASSUME OwnedInv, DisposeChild
  PROVE  TypeOK' /\ StackInv(stack)'
<1> DEFINE g == [Top EXCEPT !.children = Front(@)]
           o == Last(Top.children)
<1>1. /\ On("reset") /\ ~panicking /\ Top.children # <<>>
      /\ DisposeOn(o, Retop(g), FALSE) /\ UNCHANGED <<parent, guarded, history>>
  BY DEF DisposeChild
<1>2. ~Idle /\ Top \in Frames /\ Top.kind = "reset" /\ Pop \in Seq(Frames) /\ StackInv(Pop)
  BY <1>1, TopKnown DEF On, Kinds
<1>3. Front(Top.children) \in Seq(Owners) /\ o \in Owners /\ o \in InSequence(Top.children)
  <2>1. Top.children \in Seq(Owners)
    BY <1>2, FrameType
  <2>2. QED
    BY <1>1, <2>1, Shortened DEF InSequence
<1>4. g \in Frames /\ g.kind = "reset" /\ g.owner = Top.owner
  BY <1>2, <1>3 DEF Frames
<1> HIDE DEF g
<1>5. PushFits(Pop, g)
  BY <1>1, <1>2, <1>4, TopMayStay
<1>6. PICK s \in Seq(Frames) : s = Pop /\ StackInv(s) /\ PushFits(s, g) /\ Retop(g) = Append(s, g)
  BY <1>2, <1>4, <1>5, TopType DEF OwnedInv, TypeOK
<1>7. PICK h \in Frames : h = g
  BY <1>4
<1>8. \A i \in DOMAIN s : s[i].kind = "scope" => s[i].owner # o
  <2>1. /\ Top = stack[Len(stack)] /\ Len(stack) \in DOMAIN stack
        /\ DOMAIN Pop = 1 .. Len(stack) - 1 /\ DOMAIN stack = 1 .. Len(stack)
        /\ \A i \in 1 .. Len(stack) - 1 : Pop[i] = stack[i]
    BY <1>2, TopType DEF OwnedInv, TypeOK
  <2>2. Lists(Top.owner, o)
    BY <1>3, <2>1 DEF Lists, Holds
  <2>3. \A i \in DOMAIN stack : stack[i].kind = "scope" => stack[i].owner # o
    <3>1. Top.owner \in Owners
      BY <1>2, TopKnown, FrameType DEF FrameFits, Kinds
    <3>2. QED
      BY <1>3, <2>2, <3>1 DEF OwnedInv, ListedAreClosed, OpenIn
  <2>4. QED
    BY <1>6, <2>1, <2>3
<1> HIDE DEF o
<1>9. UNCHANGED parent /\ Aged
  BY <1>1, <1>3, DisposeAges DEF OwnedInv
<1>10. StackInv(s)'
  BY <1>1, <1>3, <1>6, <1>8, <1>9, BaseAges
<1>11. PushFits(s, h)'
  <2>1. PushFits(s, h) /\ h.kind # "scope"
    BY <1>4, <1>6, <1>7
  <2>2. QED
    BY <1>9, <2>1, PushFitsAges DEF OwnedInv
<1>12. PICK t \in Seq(Frames) : t = Append(s, h)
  BY Appended
<1>13. StackInv(t)'
  <2>1. StackInv(Append(s, h))'
    BY <1>10, <1>11, PushKeeps
  <2>2. QED
    BY <1>12, <2>1
      DEF StackInv, StackFits, ScopesInPlace, TeardownsHaveCause, CaughtAreDead, NoRunInTeardown
<1>14. DisposeOn(o, t, FALSE)
  BY <1>1, <1>6, <1>7, <1>12
<1>15. status[o] # "disposed" => \A i \in DOMAIN t : t[i].kind = "handler" => t[i].owner # o
  <2>1. status[o] # "disposed" => \A i \in DOMAIN s : s[i].kind = "handler" => s[i].owner # o
    BY <1>6 DEF StackInv, CaughtAreDead, Dead
  <2>2. h.kind = "reset"
    BY <1>4, <1>7
  <2>3. /\ DOMAIN t = 1 .. Len(s) + 1 /\ DOMAIN s = 1 .. Len(s) /\ Len(s) \in Nat
        /\ \A i \in 1 .. Len(s) : t[i] = s[i]
        /\ t[Len(s) + 1] = h
    BY <1>12, Appended
  <2>4. \A i \in DOMAIN t : i \in DOMAIN s \/ i = Len(s) + 1
    BY <2>3
  <2>5. QED
    BY <2>1, <2>2, <2>3, <2>4
<1>16. QED
  BY <1>1, <1>3, <1>13, <1>14, <1>15, DisposeTypes

LEMMA StartBodyKeeps ==
  ASSUME OwnedInv, StartBody
  PROVE  TypeOK' /\ StackInv(stack)'
<1> DEFINE f == Frame("run", Top.owner)
<1>1. /\ On("rerun") /\ UNCHANGED <<lists, gauges, history, panicking>> /\ UNCHANGED tree
      /\ panicking' = FALSE
  BY DEF StartBody, OwnedInv, TypeOK
<1>2. /\ ~Idle /\ Top \in Frames /\ Top.kind = "rerun" /\ Pop \in Seq(Frames)
      /\ PushFits(Pop, Top) /\ FrameFits(Top)
  BY <1>1, TopKnown DEF On, Kinds
<1>3. CASE stack' = Pop
  <2>1. StackInv(stack)' /\ stack' \in Seq(Frames)
    BY <1>1, <1>2, <1>3, SameTreePop
  <2>2. QED
    BY <1>1, <2>1 DEF OwnedInv, TypeOK, tree, lists, gauges, history
<1>4. CASE stack' = Retop(f)
  <2>1. Top.owner \in Effects /\ Top.owner \in Owners
    BY <1>2 DEF FrameFits, Owners
  <2>2. f \in Frames /\ f.kind = "run" /\ f.owner = Top.owner
    BY <2>1, FrameType, "run" \in Kinds DEF Kinds
  <2>3. FrameFits(f)
    BY <2>1, <2>2, OwnersAssumption DEF FrameFits
  <2> HIDE DEF f
  <2>4. PushFits(Pop, f)
    BY <1>2, <2>2, <2>3 DEF PushFits
  <2>5. StackInv(stack)' /\ stack' \in Seq(Frames)
    BY <1>1, <1>2, <1>4, <2>2, <2>4, SameTreeRetop
  <2>6. QED
    BY <1>1, <2>5 DEF OwnedInv, TypeOK, tree, lists, gauges, history
<1>5. QED
  BY <1>3, <1>4 DEF StartBody

LEMMA HandleKeeps ==
  ASSUME OwnedInv, Handle
  PROVE  TypeOK' /\ StackInv(stack)'
<1> DEFINE f == Frame("handler", Top.owner)
<1>1. /\ On("caught") /\ UNCHANGED <<lists, gauges, history, panicking>> /\ UNCHANGED tree
      /\ panicking' = FALSE /\ stack' = Retop(f)
  BY DEF Handle, OwnedInv, TypeOK
<1>2. /\ ~Idle /\ Top \in Frames /\ Top.kind = "caught" /\ Pop \in Seq(Frames)
      /\ PushFits(Pop, Top) /\ FrameFits(Top)
  BY <1>1, TopKnown DEF On, Kinds
<1>3. Top.owner \in Effects /\ Top.owner \in Owners
  BY <1>2 DEF FrameFits, Owners
<1>4. f \in Frames /\ f.kind = "handler" /\ f.owner = Top.owner
  BY <1>3, FrameType, "handler" \in Kinds DEF Kinds
<1>5. FrameFits(f)
  BY <1>3, <1>4, OwnersAssumption DEF FrameFits
<1> HIDE DEF f
<1>6. PushFits(Pop, f)
  BY <1>2, <1>4, <1>5 DEF PushFits
<1>7. StackInv(stack)' /\ stack' \in Seq(Frames)
  BY <1>1, <1>2, <1>4, <1>6, SameTreeRetop
<1>8. QED
  BY <1>1, <1>7 DEF OwnedInv, TypeOK, tree, lists, gauges, history

LEMMA CatchKeeps ==
  ASSUME OwnedInv, Catch
  PROVE  TypeOK' /\ StackInv(stack)'
<1> DEFINE f == Frame("caught", Top.owner)
<1>1. Top.kind \in {"rerun", "run"} /\ UNCHANGED <<parent, guarded, history>>
  BY DEF Catch
<1>2. /\ ~Idle /\ Top \in Frames /\ Pop \in Seq(Frames) /\ StackInv(Pop)
      /\ PushFits(Pop, Top) /\ FrameFits(Top)
  BY <1>1, TopKnown DEF Kinds
<1>3. Top.owner \in Effects /\ Top.owner \in Owners
  BY <1>1, <1>2 DEF FrameFits, Owners
<1>4. f \in Frames /\ f.kind = "caught" /\ f.owner = Top.owner
  BY <1>3, FrameType, "caught" \in Kinds DEF Kinds
<1>5. FrameFits(f)
  BY <1>3, <1>4, OwnersAssumption DEF FrameFits
<1>6. Retop(f) = Append(Pop, f)
  BY <1>2, <1>4, TopType DEF OwnedInv, TypeOK
<1>7. CASE Dead(Top.owner)
  <2>1. /\ stack' = Retop(f) /\ panicking' = FALSE /\ UNCHANGED <<status, lists, gauges>>
        /\ UNCHANGED tree
    BY <1>1, <1>7 DEF Catch, tree
  <2> HIDE DEF f
  <2>2. PushFits(Pop, f)
    BY <1>1, <1>2, <1>4, <1>5, <1>7 DEF PushFits
  <2>3. StackInv(stack)' /\ stack' \in Seq(Frames)
    BY <1>2, <1>4, <2>1, <2>2, SameTreeRetop
  <2>4. QED
    BY <1>1, <2>1, <2>3 DEF OwnedInv, TypeOK, tree, lists, gauges, history
<1>8. CASE ~Dead(Top.owner)
  <2>1. DisposeOn(Top.owner, Retop(f), FALSE)
    BY <1>8 DEF Catch
  <2> HIDE DEF f
  <2>2. PICK s \in Seq(Frames) : s = Pop /\ StackInv(s) /\ PushFits(s, Top)
    BY <1>2
  <2>3. PICK o \in Owners : o = Top.owner /\ o \in Effects
    BY <1>3
  <2>4. \A i \in DOMAIN s : s[i].kind = "scope" => s[i].owner # o
    BY <2>2, <2>3, OwnersAssumption DEF StackInv, StackFits, FrameFits
  <2>5. DisposeOn(o, Retop(f), FALSE) /\ UNCHANGED parent
    BY <1>1, <2>1, <2>3
  <2>6. StackInv(s)' /\ Dead(o)'
    BY <2>2, <2>4, <2>5, BaseAges, DisposeAges DEF OwnedInv
  <2>7. PICK h \in Frames : h = f /\ h.kind = "caught" /\ h.owner = o
    BY <1>4, <2>3
  <2>8. PushFits(s, h)'
    <3>1. FrameFits(h)
      BY <1>5, <2>7
    <3>2. \A i \in DOMAIN s : s[i].kind = "reset" => s[i].owner # o
      BY <1>1, <2>2, <2>3 DEF PushFits
    <3>3. QED
      BY <2>6, <2>7, <3>1, <3>2 DEF PushFits
  <2>9. PICK t \in Seq(Frames) : t = Append(s, h) /\ t # <<>>
    BY Appended
  <2>10. StackInv(t)'
    <3>1. StackInv(Append(s, h))'
      BY <2>6, <2>8, PushKeeps
    <3>2. QED
      BY <2>9, <3>1
        DEF StackInv, StackFits, ScopesInPlace, TeardownsHaveCause, CaughtAreDead, NoRunInTeardown
  <2>11. DisposeOn(o, t, FALSE)
    BY <1>6, <2>2, <2>5, <2>7, <2>9
  <2>12. status[o] # "disposed" => \A i \in DOMAIN t : t[i].kind = "handler" => t[i].owner # o
    <3>1. status[o] # "disposed" => \A i \in DOMAIN s : s[i].kind = "handler" => s[i].owner # o
      BY <2>2 DEF StackInv, CaughtAreDead, Dead
    <3>2. /\ DOMAIN t = 1 .. Len(s) + 1 /\ DOMAIN s = 1 .. Len(s) /\ Len(s) \in Nat
          /\ \A i \in 1 .. Len(s) : t[i] = s[i]
          /\ t[Len(s) + 1] = h
      BY <2>9, Appended
    <3>3. \A i \in DOMAIN t : i \in DOMAIN s \/ i = Len(s) + 1
      BY <3>2
    <3>4. QED
      BY <2>7, <3>1, <3>2, <3>3
  <2>13. QED
    BY <1>1, <2>9, <2>10, <2>11, <2>12, DisposeTypes
<1>9. QED
  BY <1>7, <1>8

(* Every step keeps types and stack in order. *)
LEMMA StackStep ==
  ASSUME OwnedInv, Next
  PROVE  TypeOK' /\ StackInv(stack)'
<1>1. CASE \E o \in Scopes : StartScope(o)
  BY <1>1, StartScopeKeeps
<1>2. CASE \E e \in Effects : CreateEffect(e) \/ RunEffect(e)
  BY <1>2, CreateEffectKeeps, RunEffectKeeps
<1>3. CASE \E o \in Owners : Dispose(o) \/ DropUnwinding(o)
  BY <1>3, DisposalKeeps
<1>4. CASE OnCleanup \/ Unowned \/ Panic \/ \E o \in Owners : RunIn(o)
  BY <1>4, UserKeeps
<1>5. CASE ScopeReturn \/ Return \/ FinishReset \/ UnwindScope \/ Unwind
  BY <1>5, ScopeReturnKeeps, PopKeeps, UnwindScopeKeeps
<1>6. CASE RunCleanup \/ DisposeChild \/ Capture \/ StartBody \/ Catch \/ Handle
  BY <1>6, RunCleanupKeeps, DisposeChildKeeps, CaptureKeeps, StartBodyKeeps, CatchKeeps,
     HandleKeeps
<1>7. QED
  BY <1>1, <1>2, <1>3, <1>4, <1>5, <1>6 DEF Next

-----------------------------------------------------------------------------
(* What is listed, and which scopes are open.                              *)

LEMMA HoldsPush ==
  ASSUME NEW s \in Seq(Frames), NEW f \in Frames, NEW q, NEW o
  PROVE  /\ Holds(Append(s, f), q, o) <=>
              Holds(s, q, o) \/ (f.owner = q /\ o \in InSequence(f.children))
         /\ OpenIn(Append(s, f), o) <=> OpenIn(s, o) \/ (f.kind = "scope" /\ f.owner = o)
<1> DEFINE t == Append(s, f)
<1>1. /\ DOMAIN t = 1 .. Len(s) + 1 /\ DOMAIN s = 1 .. Len(s) /\ Len(s) \in Nat
      /\ \A i \in 1 .. Len(s) : t[i] = s[i]
      /\ t[Len(s) + 1] = f
  BY Appended
<1> HIDE DEF t
<1>2. \A i \in DOMAIN t : i \in DOMAIN s \/ i = Len(s) + 1
  BY <1>1
<1>3. \A i \in DOMAIN s : i \in DOMAIN t
  BY <1>1
<1>4. Len(s) + 1 \in DOMAIN t
  BY <1>1
<1>5. Holds(t, q, o) <=> Holds(s, q, o) \/ (f.owner = q /\ o \in InSequence(f.children))
  BY <1>1, <1>2, <1>3, <1>4 DEF Holds
<1>6. OpenIn(t, o) <=> OpenIn(s, o) \/ (f.kind = "scope" /\ f.owner = o)
  BY <1>1, <1>2, <1>3, <1>4 DEF OpenIn
<1>7. QED
  BY <1>5, <1>6 DEF t

LEMMA HoldsPop ==
  ASSUME NEW s \in Seq(Frames), s # <<>>, NEW q, NEW o
  PROVE  /\ Holds(s, q, o) <=>
              Holds(Front(s), q, o) \/ (Last(s).owner = q /\ o \in InSequence(Last(s).children))
         /\ OpenIn(s, o) <=> OpenIn(Front(s), o) \/ (Last(s).kind = "scope" /\ Last(s).owner = o)
<1>1. PICK t \in Seq(Frames) : t = Front(s)
  BY Shortened
<1>2. PICK f \in Frames : f = Last(s)
  BY Shortened
<1>3. s = Append(t, f)
  BY <1>1, <1>2, FrontAndLast
<1>4. QED
  BY <1>1, <1>2, <1>3, HoldsPush

LEMMA NoEntries == InSequence(<<>>) = {}
BY DEF InSequence

(* What the frame on top holds, and what is held below. *)
LEMMA TopHolds ==
  ASSUME OwnedInv, Top.kind \in Kinds, NEW q, NEW o
  PROVE  /\ Holds(stack, q, o) <=>
              Holds(Pop, q, o) \/ (Top.owner = q /\ o \in InSequence(Top.children))
         /\ OpenIn(stack, o) <=> OpenIn(Pop, o) \/ (Top.kind = "scope" /\ Top.owner = o)
         /\ Top.kind # "reset" => Top.children = <<>>
<1>1. /\ stack # <<>> /\ Pop = Front(stack) /\ Top = Last(stack) /\ FrameFits(Top)
      /\ stack \in Seq(Frames)
  BY TopKnown DEF OwnedInv, TypeOK
<1>2. Top.kind # "reset" => Top.children = <<>>
  BY <1>1, FrameType DEF FrameFits
<1>3. QED
  BY <1>1, <1>2, HoldsPop

(* A disposal moves what is listed, and loses nothing. *)
LEMMA DisposeHolds ==
  ASSUME TypeOK, NEW p \in Owners, NEW s \in Seq(Frames), NEW u \in BOOLEAN,
         DisposeOn(p, s, u) \/ Reset(p, s, u), NEW q \in Owners, NEW o \in Owners
  PROVE  /\ Lists(q, o)' <=> o \in InSequence(children[q]) \/ Holds(s, q, o)
         /\ OpenIn(stack, o)' <=> OpenIn(s, o)
<1>1. CASE stack' = s /\ UNCHANGED lists
  BY <1>1 DEF lists, Lists, Holds, OpenIn
<1>2. CASE Reset(p, s, u)
  <2>1. PICK f \in Frames :
          /\ stack' = Append(s, f) /\ f.kind = "reset" /\ f.owner = p
          /\ f.cleanups = cleanups[p] /\ f.children = children[p]
    BY <1>2, ResetPushes, Zenon
  <2>2. children' = [children EXCEPT ![p] = <<>>]
    BY <1>2 DEF Reset
  <2>3. o \in InSequence(children'[q]) <=> q # p /\ o \in InSequence(children[q])
    BY <2>2, NoEntries DEF TypeOK
  <2>4. Holds(stack', q, o) <=> Holds(s, q, o) \/ (p = q /\ o \in InSequence(children[p]))
    BY <2>1, HoldsPush
  <2>5. OpenIn(stack', o) <=> OpenIn(s, o)
    BY <2>1, HoldsPush
  <2>6. Lists(q, o)' <=> o \in InSequence(children'[q]) \/ Holds(stack', q, o)
    BY DEF Lists, Holds
  <2>7. OpenIn(stack, o)' <=> OpenIn(stack', o)
    BY DEF OpenIn
  <2>8. QED
    BY <2>3, <2>4, <2>5, <2>6, <2>7
<1>3. QED
  BY <1>1, <1>2 DEF DisposeOn

(* How a step may change what q lists, and whether o is an open scope.      *)
Moves(q, o) ==
  /\ Lists(q, o) /\ status'[o] # "disposed" => Lists(q, o)'
  /\ Lists(q, o)' => \/ Lists(q, o)
                     \/ CreateEffect(o)
                     \/ ScopeReturn /\ Top.owner = o /\ stack' = Pop
  /\ OpenIn(stack, o)' => OpenIn(stack, o) \/ StartScope(o)
  /\ OpenIn(stack, o) => OpenIn(stack, o)' \/ ((ScopeReturn \/ UnwindScope) /\ Top.owner = o)

LEMMA MovesNothing ==
  ASSUME UNCHANGED children, NEW s \in Seq(Frames), stack' = s, NEW q, NEW o,
         Holds(s, q, o) <=> Holds(stack, q, o), OpenIn(s, o) <=> OpenIn(stack, o)
  PROVE  Moves(q, o)
<1>1. Lists(q, o)' <=> Lists(q, o)
  <2>1. Lists(q, o)' <=> o \in InSequence(children'[q]) \/ Holds(s, q, o)
    BY DEF Lists, Holds
  <2>2. QED
    BY <2>1 DEF Lists
<1>2. OpenIn(stack, o)' <=> OpenIn(stack, o)
  <2>1. OpenIn(stack, o)' <=> OpenIn(s, o)
    BY DEF OpenIn
  <2>2. QED
    BY <2>1
<1>3. QED
  BY <1>1, <1>2 DEF Moves

(* Frames that are pushed hold nothing. *)
LEMMA PushMoves ==
  ASSUME OwnedInv, NEW q \in Owners, NEW o \in Owners,
         \/ \E x \in Scopes : StartScope(x)
         \/ \E x \in Owners : RunIn(x)
         \/ Unowned \/ OnCleanup \/ Panic
  PROVE  Moves(q, o)
<1>1. stack \in Seq(Frames)
  BY DEF OwnedInv, TypeOK
<1>2. ASSUME UNCHANGED children, NEW k, NEW x, Frame(k, x) \in Frames,
             stack' = Append(stack, Frame(k, x)), k # "scope"
      PROVE  Moves(q, o)
  <2> DEFINE f == Frame(k, x)
  <2>1. f \in Frames /\ f.kind = k /\ f.children = <<>>
    BY <1>2, FrameType
  <2>2. stack' = Append(stack, f)
    BY <1>2
  <2> HIDE DEF f
  <2>3. PICK s \in Seq(Frames) : s = Append(stack, f)
    BY <1>1, <2>1, Appended
  <2>4. (Holds(s, q, o) <=> Holds(stack, q, o)) /\ (OpenIn(s, o) <=> OpenIn(stack, o))
    BY <1>1, <1>2, <2>1, <2>3, HoldsPush, NoEntries
  <2>5. QED
    BY <1>2, <2>2, <2>3, <2>4, MovesNothing
<1>3. ASSUME UNCHANGED children, UNCHANGED stack
      PROVE  Moves(q, o)
  <2>1. PICK s \in Seq(Frames) : s = stack
    BY <1>1
  <2>2. QED
    BY <1>3, <2>1, MovesNothing
<1>4. ASSUME NEW x \in Scopes, StartScope(x)
      PROVE  Moves(q, o)
  <2> DEFINE f == Frame("scope", x)
  <2>1. /\ f \in Frames /\ f.kind = "scope" /\ f.children = <<>> /\ f.owner = x
        /\ stack' = Append(stack, f) /\ UNCHANGED children
    BY <1>4, FrameType, "scope" \in Kinds DEF Owners, StartScope, lists, Kinds
  <2> HIDE DEF f
  <2>2. PICK s \in Seq(Frames) : s = Append(stack, f)
    BY <1>1, <2>1, Appended
  <2>3. /\ Holds(s, q, o) <=> Holds(stack, q, o)
        /\ OpenIn(s, o) <=> OpenIn(stack, o) \/ o = x
    BY <1>1, <2>1, <2>2, HoldsPush, NoEntries
  <2>4. Lists(q, o)' <=> Lists(q, o)
    <3>1. Lists(q, o)' <=> o \in InSequence(children'[q]) \/ Holds(s, q, o)
      BY <2>1, <2>2 DEF Lists, Holds
    <3>2. QED
      BY <2>1, <2>3, <3>1 DEF Lists
  <2>5. OpenIn(stack, o)' <=> OpenIn(stack, o) \/ o = x
    <3>1. OpenIn(stack, o)' <=> OpenIn(s, o)
      BY <2>1, <2>2 DEF OpenIn
    <3>2. QED
      BY <2>3, <3>1
  <2>6. QED
    BY <1>4, <2>4, <2>5 DEF Moves
<1>5. ASSUME NEW x \in Owners, RunIn(x)
      PROVE  Moves(q, o)
  <2>1. UNCHANGED children /\ stack' = Append(stack, Frame("run_in", x))
    BY <1>5 DEF RunIn, lists
  <2>2. Frame("run_in", x) \in Frames
    BY FrameType, "run_in" \in Kinds DEF Kinds
  <2>3. QED
    BY <1>2, <2>1, <2>2
<1>6. CASE Unowned
  <2>1. UNCHANGED children /\ stack' = Append(stack, Frame("unowned", None))
    BY <1>6 DEF Unowned, lists
  <2>2. Frame("unowned", None) \in Frames
    BY FrameType, "unowned" \in Kinds DEF Kinds
  <2>3. QED
    BY <1>2, <2>1, <2>2
<1>7. CASE OnCleanup
  <2>1. /\ UNCHANGED children
        /\ stack' = stack \/ stack' = Append(stack, Frame("cleanup", None))
    BY <1>7 DEF OnCleanup, AddCleanup, lists, control
  <2>2. Frame("cleanup", None) \in Frames
    BY FrameType, "cleanup" \in Kinds DEF Kinds
  <2>3. CASE stack' = stack
    BY <1>3, <2>1, <2>3
  <2>4. CASE stack' = Append(stack, Frame("cleanup", None))
    BY <1>2, <2>1, <2>2, <2>4
  <2>5. QED
    BY <2>1, <2>3, <2>4
<1>8. CASE Panic
  <2>1. UNCHANGED children /\ UNCHANGED stack
    BY <1>8 DEF Panic, lists
  <2>2. QED
    BY <1>3, <2>1
<1>9. QED
  BY <1>4, <1>5, <1>6, <1>7, <1>8

(* Frames that are left hold nothing; those that stay keep what they hold. *)
LEMMA TopMoves ==
  ASSUME OwnedInv, NEW q \in Owners, NEW o \in Owners,
         \/ Return \/ FinishReset \/ Unwind
         \/ Capture \/ RunCleanup \/ StartBody \/ Handle
  PROVE  Moves(q, o)
<1>1. Top.kind \in Kinds \ {"scope"} /\ UNCHANGED children
  BY DEF Return, FinishReset, Unwind, Capture, RunCleanup, StartBody, Handle,
         Closures, Kinds, On, lists
<1>2. /\ stack \in Seq(Frames) /\ Pop \in Seq(Frames) /\ Top \in Frames /\ ~Idle
      /\ \A f \in Frames : Retop(f) = Append(Pop, f)
  BY <1>1, TopKnown, TopType DEF OwnedInv, TypeOK
<1>3. /\ Holds(stack, q, o) <=>
           Holds(Pop, q, o) \/ (Top.owner = q /\ o \in InSequence(Top.children))
      /\ OpenIn(stack, o) <=> OpenIn(Pop, o)
      /\ Top.kind # "reset" => Top.children = <<>>
  BY <1>1, TopHolds
<1>4. ASSUME stack' = Pop, Top.children = <<>>
      PROVE  Moves(q, o)
  <2>1. PICK s \in Seq(Frames) : s = Pop
    BY <1>2
  <2>2. QED
    BY <1>1, <1>3, <1>4, <2>1, NoEntries, MovesNothing
<1>5. ASSUME NEW f \in Frames, stack' = Retop(f), f.kind # "scope",
             f.owner = Top.owner, f.children = Top.children
      PROVE  Moves(q, o)
  <2>1. PICK s \in Seq(Frames) : s = Append(Pop, f)
    BY <1>2, Appended
  <2>2. (Holds(s, q, o) <=> Holds(stack, q, o)) /\ (OpenIn(s, o) <=> OpenIn(stack, o))
    BY <1>2, <1>3, <1>5, <2>1, HoldsPush
  <2>3. QED
    BY <1>1, <1>2, <1>5, <2>1, <2>2, MovesNothing
<1>6. CASE Return \/ FinishReset \/ Unwind
  <2>1. stack' = Pop
    BY <1>6 DEF Return, FinishReset, Unwind
  <2>2. Top.children = <<>>
    BY <1>3, <1>6 DEF Return, FinishReset, Unwind, Closures
  <2>3. QED
    BY <1>4, <2>1, <2>2
<1>7. CASE Capture
  <2> DEFINE f == [Top EXCEPT !.failed = TRUE]
  <2>1. f \in Frames /\ f.kind = Top.kind /\ f.owner = Top.owner /\ f.children = Top.children
    BY <1>2 DEF Frames
  <2>2. stack' = Retop(f) /\ Top.kind = "reset"
    BY <1>7 DEF Capture, On
  <2> HIDE DEF f
  <2>3. QED
    BY <1>5, <2>1, <2>2
<1>8. CASE RunCleanup
  <2> DEFINE g == [Top EXCEPT !.cleanups = Front(@)]
             k == Frame("cleanup", None)
  <2>1. Top.cleanups # <<>> /\ Top.kind = "reset" /\ stack' = Append(Retop(g), k)
    BY <1>8 DEF RunCleanup, On
  <2>2. Front(Top.cleanups) \in Seq(Cleanups)
    BY <1>2, <2>1, FrameType, Shortened
  <2>3. g \in Frames /\ g.kind = "reset" /\ g.owner = Top.owner /\ g.children = Top.children
    BY <1>2, <2>1, <2>2 DEF Frames
  <2>4. k \in Frames /\ k.kind = "cleanup" /\ k.children = <<>>
    BY FrameType, "cleanup" \in Kinds DEF Kinds
  <2> HIDE DEF g, k
  <2>5. PICK t \in Seq(Frames) : t = Append(Pop, g)
    BY <1>2, <2>3, Appended
  <2>6. PICK s \in Seq(Frames) : s = Append(t, k)
    BY <2>4, Appended
  <2>7. (Holds(t, q, o) <=> Holds(stack, q, o)) /\ (OpenIn(t, o) <=> OpenIn(stack, o))
    BY <1>2, <1>3, <2>3, <2>5, HoldsPush
  <2>8. (Holds(s, q, o) <=> Holds(t, q, o)) /\ (OpenIn(s, o) <=> OpenIn(t, o))
    BY <2>4, <2>6, HoldsPush, NoEntries
  <2>9. stack' = s
    BY <1>2, <2>1, <2>3, <2>5, <2>6
  <2>10. QED
    BY <1>1, <2>7, <2>8, <2>9, MovesNothing
<1>9. CASE StartBody \/ Handle
  <2>1. Top.kind # "reset"
    BY <1>9 DEF StartBody, Handle, On
  <2>2. PICK k \in {"run", "handler"} : stack' = Pop \/ stack' = Retop(Frame(k, Top.owner))
    BY <1>9 DEF StartBody, Handle
  <2> DEFINE f == Frame(k, Top.owner)
  <2>3. /\ f \in Frames /\ f.kind = k /\ f.owner = Top.owner /\ f.children = <<>>
        /\ k # "scope"
    <3>1. k \in Kinds /\ k # "scope"
      BY <2>2 DEF Kinds
    <3>2. Top.owner \in Owners \cup {None}
      BY <1>2, FrameType
    <3>3. QED
      BY <3>1, <3>2, FrameType
  <2> HIDE DEF f
  <2>4. CASE stack' = Pop
    BY <1>3, <1>4, <2>1, <2>4
  <2>5. CASE stack' = Retop(f)
    BY <1>3, <1>5, <2>1, <2>3, <2>5
  <2>6. QED
    BY <2>2, <2>4, <2>5 DEF f
<1>10. QED
  BY <1>6, <1>7, <1>8, <1>9

(* Adoption adds the child, and releases only what is disposed. *)
LEMMA AdoptLists ==
  ASSUME TypeOK, NEW p \in Owners, NEW c \in Owners, Adopt(p, c),
         NEW q \in Owners, NEW o \in Owners
  PROVE  /\ o \in InSequence(children[q]) /\ status[o] # "disposed"
              => o \in InSequence(children'[q])
         /\ o \in InSequence(children'[q]) => o \in InSequence(children[q]) \/ o = c
         /\ c \in InSequence(children'[p])
<1>1. PICK kept \in Seq(Owners) :
        /\ \A x \in Owners : x \in InSequence(kept) => x \in InSequence(children[p])
        /\ \A x \in Owners : x \in InSequence(children[p]) /\ status[x] # "disposed"
                               => x \in InSequence(kept)
        /\ children' = [children EXCEPT ![p] = Append(kept, c)]
  BY AdoptAppends
<1>2. \A x : x \in InSequence(Append(kept, c)) <=> x \in InSequence(kept) \/ x = c
  <2>1. /\ DOMAIN Append(kept, c) = 1 .. Len(kept) + 1 /\ DOMAIN kept = 1 .. Len(kept)
        /\ \A i \in 1 .. Len(kept) : Append(kept, c)[i] = kept[i]
        /\ Append(kept, c)[Len(kept) + 1] = c /\ Len(kept) \in Nat
    BY Appended
  <2>2. /\ \A i \in DOMAIN Append(kept, c) : i \in DOMAIN kept \/ i = Len(kept) + 1
        /\ \A i \in DOMAIN kept : i \in DOMAIN Append(kept, c)
        /\ Len(kept) + 1 \in DOMAIN Append(kept, c)
    BY <2>1
  <2>3. QED
    BY <2>1, <2>2 DEF InSequence
<1>3. /\ q = p => children'[q] = Append(kept, c)
      /\ q # p => children'[q] = children[q]
      /\ children'[p] = Append(kept, c)
  BY <1>1 DEF TypeOK
<1>4. QED
  BY <1>1, <1>2, <1>3

LEMMA DisposalMoves ==
  ASSUME OwnedInv, NEW q \in Owners, NEW o \in Owners,
         \/ \E x \in Owners : Dispose(x) \/ DropUnwinding(x)
         \/ \E x \in Effects : RunEffect(x)
  PROVE  Moves(q, o)
<1>1. TypeOK /\ stack \in Seq(Frames)
  BY DEF OwnedInv, TypeOK
<1>2. CASE \E x \in Owners : Dispose(x) \/ DropUnwinding(x)
  <2>1. PICK x \in Owners, u \in BOOLEAN : DisposeOn(x, stack, u)
    BY <1>2 DEF Dispose, DropUnwinding
  <2>2. /\ Lists(q, o)' <=> o \in InSequence(children[q]) \/ Holds(stack, q, o)
        /\ OpenIn(stack, o)' <=> OpenIn(stack, o)
    BY <1>1, <2>1, DisposeHolds
  <2>3. QED
    BY <2>2 DEF Moves, Lists
<1>3. CASE \E x \in Effects : RunEffect(x)
  <2>1. PICK x \in Effects : RunEffect(x)
    BY <1>3
  <2> DEFINE f == Frame("rerun", x)
  <2>2. /\ f \in Frames /\ f.kind = "rerun" /\ f.children = <<>> /\ x \in Owners
    BY FrameType, "rerun" \in Kinds DEF Owners, Kinds
  <2>3. Reset(x, Append(stack, f), FALSE)
    BY <2>1 DEF RunEffect
  <2> HIDE DEF f
  <2>4. PICK s \in Seq(Frames) : s = Append(stack, f)
    BY <1>1, <2>2, Appended
  <2>5. (Holds(s, q, o) <=> Holds(stack, q, o)) /\ (OpenIn(s, o) <=> OpenIn(stack, o))
    BY <1>1, <2>2, <2>4, HoldsPush, NoEntries
  <2>6. Reset(x, s, FALSE)
    BY <2>3, <2>4
  <2>7. /\ Lists(q, o)' <=> o \in InSequence(children[q]) \/ Holds(s, q, o)
        /\ OpenIn(stack, o)' <=> OpenIn(s, o)
    BY <1>1, <2>2, <2>6, DisposeHolds
  <2>8. QED
    BY <2>5, <2>7 DEF Moves, Lists
<1>4. QED
  BY <1>2, <1>3

LEMMA DisposeChildMoves ==
  ASSUME OwnedInv, NEW q \in Owners, NEW o \in Owners, DisposeChild
  PROVE  Moves(q, o)
<1> DEFINE g == [Top EXCEPT !.children = Front(@)]
           x == Last(Top.children)
<1>1. /\ On("reset") /\ Top.children # <<>> /\ DisposeOn(x, Retop(g), FALSE)
      /\ UNCHANGED <<parent, guarded, history>>
  BY DEF DisposeChild
<1>2. ~Idle /\ Top \in Frames /\ Top.kind = "reset" /\ Pop \in Seq(Frames) /\ Top.kind \in Kinds
  BY <1>1, TopKnown DEF On, Kinds
<1>3. /\ Front(Top.children) \in Seq(Owners) /\ x \in Owners
      /\ \A y : y \in InSequence(Top.children) <=> y \in InSequence(Front(Top.children)) \/ y = x
  <2>1. PICK ch \in Seq(Owners) : ch = Top.children
    BY <1>2, FrameType
  <2>2. /\ Front(ch) \in Seq(Owners) /\ Last(ch) \in Owners /\ Last(ch) = ch[Len(ch)]
        /\ DOMAIN Front(ch) = 1 .. Len(ch) - 1 /\ DOMAIN ch = 1 .. Len(ch) /\ Len(ch) \in Nat \ {0}
        /\ \A i \in 1 .. Len(ch) - 1 : Front(ch)[i] = ch[i]
    BY <1>1, <2>1, Shortened
  <2>3. /\ \A i \in DOMAIN ch : i \in DOMAIN Front(ch) \/ i = Len(ch)
        /\ \A i \in DOMAIN Front(ch) : i \in DOMAIN ch /\ Front(ch)[i] = ch[i]
        /\ Len(ch) \in DOMAIN ch
    BY <2>2
  <2>4. \A y : y \in InSequence(ch) <=> y \in InSequence(Front(ch)) \/ y = Last(ch)
    BY <2>2, <2>3 DEF InSequence
  <2>5. QED
    BY <2>1, <2>2, <2>4
<1>4. /\ g \in Frames /\ g.kind = "reset" /\ g.owner = Top.owner
      /\ g.children = Front(Top.children)
  BY <1>2, <1>3 DEF Frames
<1> HIDE DEF g, x
<1>c. PICK c \in Owners : c = x
  BY <1>3
<1>5. PICK s \in Seq(Frames) : s = Append(Pop, g)
  BY <1>2, <1>4, Appended
<1>r. s = Retop(g)
  BY <1>2, <1>4, <1>5, TopType DEF OwnedInv, TypeOK
<1>6. /\ Holds(s, q, o) => Holds(stack, q, o)
      /\ Holds(stack, q, o) => Holds(s, q, o) \/ o = c
      /\ OpenIn(s, o) <=> OpenIn(stack, o)
  <2>1. /\ Holds(stack, q, o) <=>
             Holds(Pop, q, o) \/ (Top.owner = q /\ o \in InSequence(Top.children))
        /\ OpenIn(stack, o) <=> OpenIn(Pop, o)
    BY <1>2, TopHolds
  <2>2. /\ Holds(s, q, o) <=>
             Holds(Pop, q, o) \/ (g.owner = q /\ o \in InSequence(g.children))
        /\ OpenIn(s, o) <=> OpenIn(Pop, o)
    BY <1>2, <1>4, <1>5, HoldsPush
  <2>3. QED
    BY <1>3, <1>4, <1>c, <2>1, <2>2
<1>7. DisposeOn(c, s, FALSE)
  BY <1>1, <1>c, <1>r
<1>8. /\ Lists(q, o)' <=> o \in InSequence(children[q]) \/ Holds(s, q, o)
      /\ OpenIn(stack, o)' <=> OpenIn(s, o)
  BY <1>7, DisposeHolds DEF OwnedInv
<1>9. o = c => status'[o] = "disposed"
  <2>1. UNCHANGED parent
    BY <1>1
  <2>2. Dead(c)'
    BY <1>7, <2>1, DisposeAges DEF OwnedInv
  <2>3. QED
    BY <2>2 DEF Dead
<1>10. QED
  BY <1>6, <1>8, <1>9 DEF Moves, Lists

LEMMA CatchMoves ==
  ASSUME OwnedInv, NEW q \in Owners, NEW o \in Owners, Catch
  PROVE  Moves(q, o)
<1> DEFINE f == Frame("caught", Top.owner)
<1>1. Top.kind \in {"rerun", "run"} /\ Top.kind \in Kinds
  BY DEF Catch, Kinds
<1>2. /\ ~Idle /\ Top \in Frames /\ Pop \in Seq(Frames) /\ FrameFits(Top)
  BY <1>1, TopKnown
<1>3. Top.owner \in Owners
  BY <1>1, <1>2 DEF FrameFits, Owners
<1>4. f \in Frames /\ f.kind = "caught" /\ f.children = <<>>
  BY <1>3, FrameType, "caught" \in Kinds DEF Kinds
<1>5. PICK s \in Seq(Frames) : s = Append(Pop, f)
  BY <1>2, <1>4, Appended
<1>6. s = Retop(f)
  BY <1>2, <1>4, <1>5, TopType DEF OwnedInv, TypeOK
<1>7. (Holds(s, q, o) <=> Holds(stack, q, o)) /\ (OpenIn(s, o) <=> OpenIn(stack, o))
  <2>1. /\ Holds(stack, q, o) <=> Holds(Pop, q, o)
        /\ OpenIn(stack, o) <=> OpenIn(Pop, o)
    BY <1>1, TopHolds, NoEntries
  <2> HIDE DEF f
  <2>2. /\ Holds(s, q, o) <=> Holds(Pop, q, o)
        /\ OpenIn(s, o) <=> OpenIn(Pop, o)
    BY <1>2, <1>4, <1>5, HoldsPush, NoEntries
  <2>3. QED
    BY <2>1, <2>2
<1> HIDE DEF f
<1>8. CASE Dead(Top.owner)
  <2>1. stack' = s /\ UNCHANGED children
    BY <1>6, <1>8 DEF Catch, lists, f
  <2>2. QED
    BY <1>7, <2>1, MovesNothing
<1>9. CASE ~Dead(Top.owner)
  <2>1. DisposeOn(Top.owner, s, FALSE)
    BY <1>6, <1>9 DEF Catch, f
  <2>2. /\ Lists(q, o)' <=> o \in InSequence(children[q]) \/ Holds(s, q, o)
        /\ OpenIn(stack, o)' <=> OpenIn(s, o)
    BY <1>3, <2>1, DisposeHolds DEF OwnedInv
  <2>3. QED
    BY <1>7, <2>2 DEF Moves, Lists
<1>10. QED
  BY <1>8, <1>9

LEMMA CreateEffectMoves ==
  ASSUME OwnedInv, NEW q \in Owners, NEW o \in Owners, NEW e \in Effects, CreateEffect(e)
  PROVE  Moves(q, o)
<1> DEFINE p == CurrentOwner(stack)
<1>1. UNCHANGED stack /\ e \in Owners /\ p \in Owners \cup {None} /\ stack \in Seq(Frames)
  BY CurrentOwnerType DEF CreateEffect, control, Owners, OwnedInv, TypeOK
<1>2. PICK s \in Seq(Frames) : s = stack
  BY <1>1
<1>3. /\ o \in InSequence(children[q]) /\ status'[o] # "disposed" => o \in InSequence(children'[q])
      /\ o \in InSequence(children'[q]) => o \in InSequence(children[q]) \/ o = e
  <2>1. CASE p = None \/ Dead(p)
    BY <2>1 DEF CreateEffect, lists
  <2>2. CASE ~(p = None \/ Dead(p))
    <3>1. p \in Owners /\ Adopt(p, e)
      BY <1>1, <2>2 DEF CreateEffect
    <3>2. /\ o \in InSequence(children[q]) /\ status[o] # "disposed" => o \in InSequence(children'[q])
          /\ o \in InSequence(children'[q]) => o \in InSequence(children[q]) \/ o = e
      BY <1>1, <3>1, AdoptLists DEF OwnedInv
    <3>3. status'[o] # "disposed" => status[o] # "disposed"
      <4>1. status' = [status EXCEPT ![e] = IF Dead(p) THEN "disposed" ELSE "live"]
            /\ status[e] = "absent"
        BY DEF CreateEffect, NewOwner
      <4>2. QED
        BY <1>1, <4>1 DEF OwnedInv, TypeOK
    <3>4. QED
      BY <3>2, <3>3
  <2>3. QED
    BY <2>1, <2>2
<1>4. Lists(q, o)' <=> o \in InSequence(children'[q]) \/ Holds(stack, q, o)
  BY <1>1 DEF Lists, Holds
<1>5. OpenIn(stack, o)' <=> OpenIn(stack, o)
  BY <1>1 DEF OpenIn
<1>6. QED
  BY <1>3, <1>4, <1>5 DEF Moves, Lists

LEMMA ScopeMoves ==
  ASSUME OwnedInv, NEW q \in Owners, NEW o \in Owners, ScopeReturn \/ UnwindScope
  PROVE  Moves(q, o)
<1> DEFINE p == CurrentOwner(Pop)
<1>1. Top.kind = "scope" /\ Top.kind \in Kinds
  BY DEF ScopeReturn, UnwindScope, On, Kinds
<1>2. /\ Pop \in Seq(Frames) /\ FrameFits(Top)
      /\ Holds(stack, q, o) <=> Holds(Pop, q, o)
      /\ OpenIn(stack, o) <=> OpenIn(Pop, o) \/ Top.owner = o
  <2>1. Pop \in Seq(Frames) /\ FrameFits(Top)
    BY <1>1, TopKnown
  <2>2. /\ Holds(stack, q, o) <=> Holds(Pop, q, o)
        /\ OpenIn(stack, o) <=> OpenIn(Pop, o) \/ Top.owner = o
    BY <1>1, TopHolds, NoEntries
  <2>3. QED
    BY <2>1, <2>2
<1>3. PICK x \in Owners : x = Top.owner
  BY <1>1, <1>2 DEF FrameFits, Owners
<1>4. PICK s \in Seq(Frames) : s = Pop
  BY <1>2
<1>5. p \in Owners \cup {None}
  BY <1>2, CurrentOwnerType
<1>6. ASSUME NEW u \in BOOLEAN, DisposeOn(x, s, u) PROVE Moves(q, o)
  <2>1. /\ Lists(q, o)' <=> o \in InSequence(children[q]) \/ Holds(s, q, o)
        /\ OpenIn(stack, o)' <=> OpenIn(s, o)
    BY <1>6, DisposeHolds DEF OwnedInv
  <2>2. QED
    BY <1>2, <1>3, <1>4, <2>1 DEF Moves, Lists
<1>7. ASSUME stack' = s, UNCHANGED children PROVE Moves(q, o)
  <2>1. /\ Lists(q, o)' <=> o \in InSequence(children'[q]) \/ Holds(s, q, o)
        /\ OpenIn(stack, o)' <=> OpenIn(s, o)
    BY <1>7 DEF Lists, Holds, OpenIn
  <2>2. QED
    BY <1>2, <1>3, <1>4, <1>7, <2>1 DEF Moves, Lists
<1>8. ASSUME stack' = s, p \in Owners, Adopt(p, x), UNCHANGED status, ScopeReturn
      PROVE  Moves(q, o)
  <2>1. /\ Lists(q, o)' <=> o \in InSequence(children'[q]) \/ Holds(s, q, o)
        /\ OpenIn(stack, o)' <=> OpenIn(s, o)
    BY <1>8 DEF Lists, Holds, OpenIn
  <2>2. /\ o \in InSequence(children[q]) /\ status[o] # "disposed" => o \in InSequence(children'[q])
        /\ o \in InSequence(children'[q]) => o \in InSequence(children[q]) \/ o = x
    BY <1>8, AdoptLists DEF OwnedInv
  <2>3. QED
    BY <1>2, <1>3, <1>4, <1>8, <2>1, <2>2 DEF Moves, Lists
<1>9. CASE UnwindScope
  <2>1. \/ stack' = s /\ UNCHANGED children
        \/ DisposeOn(x, s, TRUE)
    BY <1>3, <1>4, <1>9 DEF UnwindScope, lists
  <2>2. QED
    BY <1>6, <1>7, <2>1
<1>10. CASE ScopeReturn
  <2>1. \/ stack' = s /\ UNCHANGED children
        \/ DisposeOn(x, s, FALSE)
        \/ stack' = s /\ p \in Owners /\ Adopt(p, x) /\ UNCHANGED status
    BY <1>3, <1>4, <1>5, <1>10 DEF ScopeReturn, lists
  <2>2. QED
    BY <1>6, <1>7, <1>8, <1>10, <2>1
<1>11. QED
  BY <1>9, <1>10

LEMMA StepMoves ==
  ASSUME OwnedInv, Next, NEW q \in Owners, NEW o \in Owners
  PROVE  Moves(q, o)
<1>1. CASE \E x \in Effects : CreateEffect(x)
  BY <1>1, CreateEffectMoves
<1>2. CASE ScopeReturn \/ UnwindScope
  BY <1>2, ScopeMoves
<1>3. CASE \/ \E x \in Scopes : StartScope(x)
           \/ \E x \in Owners : RunIn(x)
           \/ Unowned \/ OnCleanup \/ Panic
  BY <1>3, PushMoves
<1>4. CASE \/ \E x \in Owners : Dispose(x) \/ DropUnwinding(x)
           \/ \E x \in Effects : RunEffect(x)
  BY <1>4, DisposalMoves
<1>5. CASE \/ Return \/ FinishReset \/ Unwind
           \/ Capture \/ RunCleanup \/ StartBody \/ Handle
  BY <1>5, TopMoves
<1>6. CASE DisposeChild
  BY <1>6, DisposeChildMoves
<1>7. CASE Catch
  BY <1>7, CatchMoves
<1>8. QED
  BY <1>1, <1>2, <1>3, <1>4, <1>5, <1>6, <1>7 DEF Next

-----------------------------------------------------------------------------
(* The invariant is inductive.                                             *)

(* An owner lives on until it is disposed; it is made by scope or effect. *)
LEMMA StepAges ==
  ASSUME OwnedInv, Next
  PROVE  /\ Aged
         /\ \A o \in Owners : status'[o] = "live" =>
              \/ status[o] = "live" /\ parent'[o] = parent[o]
              \/ StartScope(o) \/ CreateEffect(o)
<1> DEFINE Goal == /\ Aged
                   /\ \A o \in Owners : status'[o] = "live" =>
                        \/ status[o] = "live" /\ parent'[o] = parent[o]
                        \/ StartScope(o) \/ CreateEffect(o)
<1>1. /\ TypeOK /\ status \in [Owners -> {"absent", "live", "disposed"}]
      /\ parent \in [Owners -> Owners \cup {None}]
  BY DEF OwnedInv, TypeOK
<1>2. ASSUME NEW o, UNCHANGED parent, status' = [status EXCEPT ![o] = "disposed"]
      PROVE  Goal
  BY <1>1, <1>2 DEF Aged
<1>3. ASSUME UNCHANGED <<status, parent>> PROVE Goal
  BY <1>1, <1>3 DEF Aged
<1>4. ASSUME NEW o, NEW s, NEW u, UNCHANGED parent, DisposeOn(o, s, u) PROVE Goal
  <2>1. CASE status[o] = "disposed"
    BY <1>3, <1>4, <2>1 DEF DisposeOn
  <2>2. CASE status[o] # "disposed"
    BY <1>2, <1>4, <2>2 DEF DisposeOn
  <2>3. QED
    BY <2>1, <2>2
<1>5. ASSUME NEW o \in Owners, NEW st, status[o] = "absent", NewOwner(o, st),
             StartScope(o) \/ CreateEffect(o)
      PROVE  Goal
  <2>1. /\ status' = [status EXCEPT ![o] = st]
        /\ parent' = [parent EXCEPT ![o] = CurrentOwner(stack)]
    BY <1>5 DEF NewOwner
  <2>2. QED
    BY <1>1, <1>5, <2>1 DEF Aged
<1> HIDE DEF Goal
<1>6. ASSUME NEW o \in Scopes, StartScope(o) PROVE Goal
  BY <1>5, <1>6 DEF StartScope, Owners
<1>7. ASSUME NEW e \in Effects, CreateEffect(e) PROVE Goal
  BY <1>5, <1>7 DEF CreateEffect, Owners
<1>8. ASSUME NEW o \in Owners, Dispose(o) \/ DropUnwinding(o) PROVE Goal
  BY <1>4, <1>8 DEF Dispose, DropUnwinding
<1>9. ASSUME ScopeReturn PROVE Goal
  <2>1. \/ UNCHANGED <<status, parent>>
        \/ DisposeOn(Top.owner, Pop, FALSE) /\ UNCHANGED parent
    <3>1. UNCHANGED parent
      BY <1>9 DEF ScopeReturn
    <3>2. UNCHANGED status \/ DisposeOn(Top.owner, Pop, FALSE)
      BY <1>9, Zenon DEF ScopeReturn
    <3>3. QED
      BY <3>1, <3>2
  <2>2. CASE UNCHANGED <<status, parent>>
    BY <1>3, <2>2
  <2>3. CASE DisposeOn(Top.owner, Pop, FALSE) /\ UNCHANGED parent
    BY <1>4, <2>3, Zenon
  <2>4. QED
    BY <2>1, <2>2, <2>3
<1>10. ASSUME UnwindScope PROVE Goal
  <2>1. UNCHANGED parent
    BY <1>10 DEF UnwindScope
  <2>2. CASE Top.owner \in Kept
    <3>1. UNCHANGED status
      BY <1>10, <2>2 DEF UnwindScope
    <3>2. QED
      BY <1>3, <2>1, <3>1
  <2>3. CASE Top.owner \notin Kept
    <3>1. DisposeOn(Top.owner, Pop, TRUE)
      BY <1>10, <2>3 DEF UnwindScope
    <3>2. QED
      BY <1>4, <2>1, <3>1, Zenon
  <2>4. QED
    BY <2>2, <2>3
<1>11. ASSUME DisposeChild PROVE Goal
  <2>1. /\ DisposeOn(Last(Top.children), Retop([Top EXCEPT !.children = Front(@)]), FALSE)
        /\ UNCHANGED parent
    BY <1>11, Zenon DEF DisposeChild
  <2>2. QED
    BY <1>4, <2>1, Zenon
<1>12. ASSUME Catch PROVE Goal
  <2>1. UNCHANGED parent
    BY <1>12 DEF Catch
  <2>2. CASE Dead(Top.owner)
    <3>1. UNCHANGED status
      BY <1>12, <2>2 DEF Catch
    <3>2. QED
      BY <1>3, <2>1, <3>1
  <2>3. CASE ~Dead(Top.owner)
    <3>1. DisposeOn(Top.owner, Retop(Frame("caught", Top.owner)), FALSE)
      BY <1>12, <2>3 DEF Catch
    <3>2. QED
      BY <1>4, <2>1, <3>1, Zenon
  <2>4. QED
    BY <2>2, <2>3
<1>13. ASSUME UNCHANGED tree PROVE Goal
  BY <1>3, <1>13 DEF tree
<1>14. ASSUME NEW e \in Effects, RunEffect(e) PROVE Goal
  BY <1>13, <1>14 DEF RunEffect
<1>15. ASSUME NEW o \in Owners, RunIn(o) PROVE Goal
  BY <1>13, <1>15 DEF RunIn
<1>16. ASSUME Unowned \/ OnCleanup \/ Panic \/ Return \/ FinishReset \/ Unwind PROVE Goal
  BY <1>13, <1>16 DEF Unowned, OnCleanup, Panic, Return, FinishReset, Unwind
<1>17. ASSUME Capture \/ RunCleanup \/ StartBody \/ Handle PROVE Goal
  BY <1>13, <1>17 DEF Capture, RunCleanup, StartBody, Handle
<1>18. Goal
  BY <1>6, <1>7, <1>8, <1>9, <1>10, <1>11, <1>12, <1>14, <1>15, <1>16, <1>17 DEF Next
<1>19. QED
  BY <1>18 DEF Goal

(* An open scope is on the stack as the frame of its closure, and lives. *)
LEMMA OpenScopes ==
  ASSUME OwnedInv, NEW o
  PROVE  /\ Opening(o) <=> OpenIn(stack, o)
         /\ OpenIn(stack, o) => o \in Scopes /\ o \in Owners /\ status[o] = "live"
<1>1. Opening(o) <=> OpenIn(stack, o)
  <2>1. Frame("scope", o).kind = "scope" /\ Frame("scope", o).owner = o
    BY FrameType
  <2>2. QED
    BY <2>1 DEF OwnedInv, StackInv, StackFits, FrameFits, Opening, OpenIn
<1>2. OpenIn(stack, o) => o \in Scopes /\ o \in Owners /\ status[o] = "live"
  BY DEF OwnedInv, StackInv, StackFits, FrameFits, ScopesInPlace, OpenIn, Owners
<1>3. QED
  BY <1>1, <1>2

LEMMA ListedStep ==
  ASSUME OwnedInv, Next
  PROVE  ListedAreClosed'
<1> SUFFICES ASSUME NEW q \in Owners, NEW o \in Owners, Lists(q, o)'
             PROVE  status'[o] # "absent" /\ ~OpenIn(stack, o)'
  BY DEF ListedAreClosed
<1>1. Moves(q, o) /\ Aged
  BY StepMoves, StepAges
<1>2. CASE Lists(q, o)
  <2>1. status[o] # "absent" /\ ~OpenIn(stack, o)
    BY <1>2 DEF OwnedInv, ListedAreClosed
  <2>2. ~StartScope(o)
    BY <2>1 DEF StartScope
  <2>3. status'[o] # "absent"
    BY <1>1, <2>1 DEF Aged
  <2>4. QED
    BY <1>1, <2>1, <2>2, <2>3 DEF Moves
<1>3. CASE CreateEffect(o)
  <2>1. status[o] = "absent" /\ UNCHANGED stack
        /\ status' = [status EXCEPT ![o] = IF Dead(CurrentOwner(stack)) THEN "disposed" ELSE "live"]
    BY <1>3 DEF CreateEffect, control, NewOwner
  <2>2. ~OpenIn(stack, o)
    BY <2>1, OpenScopes
  <2>3. OpenIn(stack, o)' <=> OpenIn(stack, o)
    BY <2>1 DEF OpenIn
  <2>4. status'[o] # "absent"
    BY <2>1 DEF OwnedInv, TypeOK
  <2>5. QED
    BY <2>2, <2>3, <2>4
<1>4. CASE ScopeReturn /\ Top.owner = o /\ stack' = Pop
  <2>1. Top.kind = "scope" /\ Top.kind \in Kinds
    BY <1>4 DEF ScopeReturn, On, Kinds
  <2>2. PushFits(Pop, Top)
    BY <2>1, TopKnown
  <2>3. status[o] = "live" /\ ~OpenIn(Pop, o)
    BY <1>4, <2>1, <2>2 DEF PushFits, OpenIn
  <2>4. OpenIn(stack, o)' <=> OpenIn(Pop, o)
    BY <1>4 DEF OpenIn
  <2>5. status'[o] # "absent"
    BY <1>1, <2>3 DEF Aged
  <2>6. QED
    BY <2>3, <2>4, <2>5
<1>5. QED
  BY <1>1, <1>2, <1>3, <1>4 DEF Moves

LEMMA OwnedInit == Init => OwnedInv
<1> SUFFICES ASSUME Init PROVE OwnedInv
  OBVIOUS
<1>1. stack = <<>> /\ DOMAIN stack = {}
  BY DEF Init
<1>2. TypeOK
  <2>1. /\ status \in [Owners -> {"absent", "live", "disposed"}]
        /\ parent \in [Owners -> Owners \cup {None}] /\ guarded \subseteq Owners
        /\ swept_at \in [Owners -> Nat]
    BY DEF Init
  <2>2. children \in [Owners -> Seq(Owners)] /\ cleanups \in [Owners -> Seq(Cleanups)]
    BY EmptySeq DEF Init
  <2>3. /\ cleanup_registrations \in Nat /\ owned_children \in Nat
        /\ known \in 0 .. MaxCleanups /\ ran \in [Cleanups -> Nat]
    BY BoundsAssumption DEF Init
  <2>4. stack \in Seq(Frames) /\ panicking = FALSE
    BY EmptySeq DEF Init
  <2>5. QED
    BY <2>1, <2>2, <2>3, <2>4 DEF TypeOK
<1>3. StackInv(stack)
  BY <1>1 DEF StackInv, StackFits, ScopesInPlace, TeardownsHaveCause, CaughtAreDead, NoRunInTeardown
<1>4. ListedAreClosed
  <2>1. \A q \in Owners : InSequence(children[q]) = {}
    BY NoEntries DEF Init
  <2>2. \A q, o : ~Holds(stack, q, o)
    BY <1>1 DEF Holds
  <2>3. QED
    BY <2>1, <2>2 DEF ListedAreClosed, Lists
<1>5. QED
  BY <1>2, <1>3, <1>4 DEF OwnedInv

LEMMA OwnedStep ==
  ASSUME OwnedInv, [Next]_vars
  PROVE  OwnedInv'
<1>1. CASE Next
  BY <1>1, StackStep, ListedStep DEF OwnedInv
<1>2. CASE UNCHANGED vars
  <2>1. UNCHANGED <<status, parent, guarded, children, swept_at, cleanups,
                    cleanup_registrations, owned_children, known, ran, stack, panicking>>
    BY <1>2 DEF vars, tree, lists, gauges, history, control
  <2>2. TypeOK'
    BY <2>1 DEF OwnedInv, TypeOK, Idle
  <2>3. PICK s \in Seq(Frames) : s = stack /\ StackInv(s)
    BY DEF OwnedInv, TypeOK
  <2>4. UNCHANGED tree
    BY <1>2 DEF vars
  <2>5. StackInv(s)'
    BY <2>3, <2>4, SameTreeAges DEF OwnedInv
  <2>6. StackInv(stack)'
    BY <2>1, <2>3, <2>5, StackIs
  <2>7. ListedAreClosed'
    BY <2>1 DEF OwnedInv, ListedAreClosed, Lists, Holds, OpenIn
  <2>8. QED
    BY <2>2, <2>6, <2>7 DEF OwnedInv
<1>3. QED
  BY <1>1, <1>2

LEMMA OwnedCorrect == Spec => []OwnedInv
<1>1. Init => OwnedInv
  BY OwnedInit
<1>2. OwnedInv /\ [Next]_vars => OwnedInv'
  BY OwnedStep
<1>3. QED
  BY <1>1, <1>2, PTL DEF Spec

(* Every variable of an owner frame, of the gauges and of the call stack    *)
(* keeps its type, and a panic is in flight only while a frame is left.     *)
THEOREM TypeCorrect == Spec => []TypeOK
<1>1. OwnedInv => TypeOK
  BY DEF OwnedInv
<1>2. QED
  BY <1>1, OwnedCorrect, PTL

-----------------------------------------------------------------------------
(* What the project's runs check.                                          *)

(* The handler of scope_catch hears of an effect when it is disposed and    *)
(* its teardown is over: it is told from the frame in which the panic was   *)
(* caught, below which no teardown of the effect is under way.              *)
THEOREM ReportedAfterTeardownCorrect == Spec => []ReportedAfterTeardown
<1>1. ASSUME OwnedInv PROVE ReportedAfterTeardown
  <2> SUFFICES ASSUME NEW i \in DOMAIN stack, stack[i].kind = "handler"
               PROVE  /\ Dead(stack[i].owner)
                      /\ \A j \in DOMAIN stack :
                           ~(stack[j].kind = "reset" /\ stack[j].owner = stack[i].owner)
    BY DEF ReportedAfterTeardown
  <2>1. DOMAIN stack = 1 .. Len(stack) /\ Len(stack) \in Nat
    BY <1>1 DEF OwnedInv, TypeOK
  <2>2. Dead(stack[i].owner)
    BY <1>1 DEF OwnedInv, StackInv, CaughtAreDead
  <2>3. ASSUME NEW j \in DOMAIN stack, stack[j].kind = "reset", stack[j].owner = stack[i].owner
        PROVE  FALSE
    <3>1. CASE j < i
      <4>1. j \in 1 .. i - 1
        BY <2>1, <3>1
      <4>2. QED
        BY <1>1, <2>3, <4>1 DEF OwnedInv, StackInv, NoRunInTeardown
    <3>2. CASE i < j
      <4>1. i \in 1 .. j - 1
        BY <2>1, <3>2
      <4>2. QED
        BY <1>1, <2>3, <4>1 DEF OwnedInv, StackInv, NoRunInTeardown
    <3>3. QED
      BY <2>1, <2>3, <3>1, <3>2
  <2>4. QED
    BY <2>2, <2>3
<1>2. QED
  BY <1>1, OwnedCorrect, PTL

-----------------------------------------------------------------------------
(* Which runs are on the stack.                                            *)

(* Every body that runs in stk runs now.                                    *)
HasRun(stk, e) == \E i \in DOMAIN stk : stk[i] = Frame("run", e)
NoNewRun(stk) == \A e : HasRun(stk, e) => HasRun(stack, e)

LEMMA NoRunPushed ==
  ASSUME NEW s \in Seq(Frames), NoNewRun(s), NEW f \in Frames, f.kind # "run"
  PROVE  NoNewRun(Append(s, f))
<1> SUFFICES ASSUME NEW e, HasRun(Append(s, f), e) PROVE HasRun(stack, e)
  BY DEF NoNewRun
<1>1. PICK i \in DOMAIN Append(s, f) : Append(s, f)[i] = Frame("run", e)
  BY DEF HasRun
<1>2. i \in DOMAIN s /\ s[i] = Frame("run", e)
  <2>1. Append(s, f)[i] # f
    BY <1>1, FrameType
  <2>2. /\ DOMAIN Append(s, f) = 1 .. Len(s) + 1 /\ DOMAIN s = 1 .. Len(s) /\ Len(s) \in Nat
        /\ \A j \in 1 .. Len(s) : Append(s, f)[j] = s[j]
        /\ Append(s, f)[Len(s) + 1] = f
    BY Appended
  <2>3. i # Len(s) + 1
    BY <2>1, <2>2
  <2>4. QED
    BY <1>1, <2>2, <2>3
<1>3. HasRun(s, e)
  BY <1>2 DEF HasRun
<1>4. QED
  BY <1>3 DEF NoNewRun

LEMMA NoRunPopped ==
  ASSUME TypeOK, ~Idle
  PROVE  NoNewRun(Pop) /\ Pop \in Seq(Frames) /\ Top \in Frames
         /\ \A f \in Frames : Retop(f) = Append(Pop, f)
<1>1. /\ Pop \in Seq(Frames) /\ Top \in Frames
      /\ DOMAIN stack = 1 .. Len(stack) /\ DOMAIN Pop = 1 .. Len(stack) - 1
      /\ Len(stack) \in Nat
      /\ \A i \in 1 .. Len(stack) - 1 : Pop[i] = stack[i]
      /\ \A f \in Frames : Retop(f) = Append(Pop, f)
  BY TopType DEF TypeOK
<1>2. \A i \in DOMAIN Pop : i \in DOMAIN stack /\ Pop[i] = stack[i]
  BY <1>1
<1>3. NoNewRun(Pop)
  BY <1>2 DEF NoNewRun, HasRun
<1>4. QED
  BY <1>1, <1>3

LEMMA NoRunByDisposal ==
  ASSUME TypeOK, NEW o \in Owners, NEW s \in Seq(Frames), NoNewRun(s), NEW u \in BOOLEAN,
         DisposeOn(o, s, u) \/ Reset(o, s, u)
  PROVE  NoNewRun(stack')
<1>1. CASE stack' = s
  BY <1>1
<1>2. CASE Reset(o, s, u)
  <2>1. PICK f \in Frames : stack' = Append(s, f) /\ f.kind = "reset"
    BY <1>2, ResetPushes, Zenon
  <2>2. NoNewRun(Append(s, f))
    BY <2>1, NoRunPushed
  <2>3. QED
    BY <2>1, <2>2
<1>3. QED
  BY <1>1, <1>2 DEF DisposeOn

(* Only StartBody starts a body, and looks whether the effect is alive. *)
LEMMA RunsStart ==
  ASSUME OwnedInv, Next, NEW e \in Effects, Dead(e), HasRun(stack', e)
  PROVE  HasRun(stack, e)
<1>1. TypeOK /\ stack \in Seq(Frames) /\ NoNewRun(stack)
  BY DEF OwnedInv, TypeOK, NoNewRun
<1>2. ASSUME NoNewRun(stack') PROVE HasRun(stack, e)
  BY <1>2 DEF NoNewRun
<1>3. ASSUME NEW k \in Kinds, NEW o \in Owners \cup {None}, k # "run",
             stack' = Append(stack, Frame(k, o))
      PROVE  NoNewRun(stack')
  <2> DEFINE f == Frame(k, o)
  <2>1. f \in Frames /\ f.kind # "run"
    BY <1>3, FrameType
  <2> HIDE DEF f
  <2>2. NoNewRun(Append(stack, f))
    BY <1>1, <2>1, NoRunPushed
  <2>3. QED
    BY <1>3, <2>2 DEF f
<1>4. CASE \E o \in Scopes : StartScope(o)
  BY <1>2, <1>3, <1>4, "scope" \in Kinds DEF StartScope, Owners, Kinds
<1>5. CASE \E o \in Owners : RunIn(o)
  BY <1>2, <1>3, <1>5, "run_in" \in Kinds DEF RunIn, Kinds
<1>6. CASE Unowned
  BY <1>2, <1>3, <1>6, "unowned" \in Kinds DEF Unowned, Kinds
<1>7. CASE OnCleanup
  <2>1. stack' = stack \/ stack' = Append(stack, Frame("cleanup", None))
    BY <1>7 DEF OnCleanup, AddCleanup, control
  <2>2. CASE stack' = stack
    BY <1>1, <1>2, <2>2
  <2>3. CASE stack' = Append(stack, Frame("cleanup", None))
    BY <1>2, <1>3, <2>3, "cleanup" \in Kinds DEF Kinds
  <2>4. QED
    BY <2>1, <2>2, <2>3
<1>8. CASE Panic \/ \E x \in Effects : CreateEffect(x)
  <2>1. stack' = stack
    BY <1>8 DEF Panic, CreateEffect, control
  <2>2. QED
    BY <1>1, <1>2, <2>1
<1>9. CASE \E o \in Owners : Dispose(o) \/ DropUnwinding(o)
  <2>1. PICK o \in Owners, u \in BOOLEAN : DisposeOn(o, stack, u)
    BY <1>9 DEF Dispose, DropUnwinding
  <2>2. QED
    BY <1>1, <1>2, <2>1, NoRunByDisposal
<1>10. CASE \E x \in Effects : RunEffect(x)
  <2>1. PICK x \in Effects : Reset(x, Append(stack, Frame("rerun", x)), FALSE)
    BY <1>10 DEF RunEffect
  <2> DEFINE f == Frame("rerun", x)
  <2>2. f \in Frames /\ f.kind # "run" /\ x \in Owners
    BY FrameType, "rerun" \in Kinds DEF Owners, Kinds
  <2>3. Reset(x, Append(stack, f), FALSE)
    BY <2>1
  <2> HIDE DEF f
  <2>4. PICK s \in Seq(Frames) : s = Append(stack, f)
    BY <1>1, <2>2, Appended
  <2>5. NoNewRun(s)
    BY <1>1, <2>2, <2>4, NoRunPushed
  <2>6. QED
    BY <1>1, <1>2, <2>2, <2>3, <2>4, <2>5, NoRunByDisposal
<1>11. ASSUME NEW g \in Frames, g.kind # "run", ~Idle
       PROVE  NoNewRun(Retop(g)) /\ Retop(g) \in Seq(Frames)
  <2>1. Retop(g) = Append(Pop, g) /\ NoNewRun(Pop) /\ Pop \in Seq(Frames)
    BY <1>1, <1>11, NoRunPopped
  <2>2. NoNewRun(Append(Pop, g)) /\ Append(Pop, g) \in Seq(Frames)
    BY <1>11, <2>1, NoRunPushed, Appended
  <2>3. QED
    BY <2>1, <2>2
<1>12. CASE Return \/ FinishReset \/ Unwind
  <2>1. Top.kind \in Kinds /\ stack' = Pop
    BY <1>12 DEF Return, FinishReset, Unwind, On, Closures, Kinds
  <2>2. QED
    BY <1>1, <1>2, <2>1, OnTop, NoRunPopped
<1>13. CASE Capture
  <2>1. Top.kind \in Kinds /\ Top.kind = "reset" /\ stack' = Retop([Top EXCEPT !.failed = TRUE])
    BY <1>13 DEF Capture, On, Kinds
  <2>2. ~Idle /\ Top \in Frames
    BY <1>1, <2>1, OnTop, NoRunPopped
  <2>3. [Top EXCEPT !.failed = TRUE] \in Frames /\ [Top EXCEPT !.failed = TRUE].kind = "reset"
    BY <2>1, <2>2 DEF Frames
  <2>4. QED
    BY <1>2, <1>11, <2>1, <2>2, <2>3
<1>14. ASSUME On("reset"), NEW cs \in Seq(Cleanups), NEW ch \in Seq(Owners)
       PROVE  /\ ~Idle
              /\ [Top EXCEPT !.cleanups = cs] \in Frames
              /\ [Top EXCEPT !.cleanups = cs].kind = "reset"
              /\ [Top EXCEPT !.children = ch] \in Frames
              /\ [Top EXCEPT !.children = ch].kind = "reset"
  <2>1. Top.kind \in Kinds /\ Top.kind = "reset"
    BY <1>14 DEF On, Kinds
  <2>2. ~Idle /\ Top \in Frames
    BY <1>1, <2>1, OnTop, NoRunPopped
  <2>3. QED
    BY <1>14, <2>1, <2>2 DEF Frames
<1>15. CASE RunCleanup
  <2>1. /\ On("reset") /\ Top.cleanups # <<>>
        /\ stack' = Append(Retop([Top EXCEPT !.cleanups = Front(@)]), Frame("cleanup", None))
    BY <1>15 DEF RunCleanup
  <2>2. Top \in Frames
    BY <1>1, <1>14, <2>1, NoRunPopped, EmptySeq
  <2>3. PICK cs \in Seq(Cleanups) : cs = Front(Top.cleanups)
    BY <2>1, <2>2, FrameType, Shortened
  <2>4. PICK g \in Frames : g = [Top EXCEPT !.cleanups = cs] /\ g.kind = "reset" /\ ~Idle
    BY <1>14, <2>1, EmptySeq
  <2>5. PICK s \in Seq(Frames) : s = Retop(g) /\ NoNewRun(s)
    BY <1>11, <2>4
  <2>6. PICK f \in Frames : f = Frame("cleanup", None) /\ f.kind # "run"
    BY FrameType, "cleanup" \in Kinds DEF Kinds
  <2>7. stack' = Append(s, f)
    BY <2>1, <2>3, <2>4, <2>5, <2>6
  <2>8. NoNewRun(Append(s, f))
    BY <2>5, <2>6, NoRunPushed
  <2>9. QED
    BY <1>2, <2>7, <2>8
<1>16. CASE DisposeChild
  <2>1. /\ On("reset") /\ Top.children # <<>>
        /\ DisposeOn(Last(Top.children), Retop([Top EXCEPT !.children = Front(@)]), FALSE)
    BY <1>16 DEF DisposeChild
  <2>2. Top \in Frames
    BY <1>1, <1>14, <2>1, NoRunPopped, EmptySeq
  <2>3. PICK ch \in Seq(Owners), x \in Owners : ch = Front(Top.children) /\ x = Last(Top.children)
    BY <2>1, <2>2, FrameType, Shortened
  <2>4. PICK g \in Frames : g = [Top EXCEPT !.children = ch] /\ g.kind = "reset" /\ ~Idle
    BY <1>14, <2>1, EmptySeq
  <2>5. PICK s \in Seq(Frames) : s = Retop(g) /\ NoNewRun(s)
    BY <1>11, <2>4
  <2>6. DisposeOn(x, s, FALSE)
    BY <2>1, <2>3, <2>4, <2>5
  <2>7. QED
    BY <1>1, <1>2, <2>5, <2>6, NoRunByDisposal
<1>17. CASE StartBody
  <2>1. /\ On("rerun")
        /\ stack' = IF Dead(Top.owner) THEN Pop ELSE Retop(Frame("run", Top.owner))
    BY <1>17 DEF StartBody
  <2>2. Top.kind \in Kinds /\ ~Idle /\ Top \in Frames /\ Pop \in Seq(Frames) /\ NoNewRun(Pop)
    BY <1>1, <2>1, OnTop, NoRunPopped DEF On, Kinds
  <2>3. CASE Dead(Top.owner)
    BY <1>2, <2>1, <2>2, <2>3
  <2>4. CASE ~Dead(Top.owner)
    <3>1. PICK f \in Frames : f = Frame("run", Top.owner)
      BY <2>2, FrameType, "run" \in Kinds DEF Kinds
    <3>2. stack' = Append(Pop, f)
      BY <1>1, <2>1, <2>2, <2>4, <3>1, NoRunPopped
    <3>3. f # Frame("run", e)
      BY <2>4, <3>1, FrameType
    <3>4. HasRun(Pop, e)
      <4>1. /\ DOMAIN Append(Pop, f) = 1 .. Len(Pop) + 1 /\ DOMAIN Pop = 1 .. Len(Pop)
            /\ Len(Pop) \in Nat
            /\ \A j \in 1 .. Len(Pop) : Append(Pop, f)[j] = Pop[j]
            /\ Append(Pop, f)[Len(Pop) + 1] = f
        BY <2>2, Appended
      <4>2. PICK i \in DOMAIN Append(Pop, f) : Append(Pop, f)[i] = Frame("run", e)
        BY <3>2 DEF HasRun
      <4>3. i # Len(Pop) + 1
        BY <3>3, <4>1, <4>2
      <4>4. QED
        BY <4>1, <4>2, <4>3 DEF HasRun
    <3>5. QED
      BY <2>2, <3>4 DEF NoNewRun
  <2>5. QED
    BY <2>3, <2>4
<1>18. CASE Handle
  <2>1. On("caught") /\ stack' = Retop(Frame("handler", Top.owner))
    BY <1>18 DEF Handle
  <2>2. Top.kind \in Kinds /\ ~Idle /\ Top \in Frames
    BY <1>1, <2>1, OnTop, NoRunPopped DEF On, Kinds
  <2>3. PICK f \in Frames : f = Frame("handler", Top.owner) /\ f.kind # "run"
    BY <2>2, FrameType, "handler" \in Kinds DEF Kinds
  <2>4. QED
    BY <1>2, <1>11, <2>1, <2>2, <2>3
<1>19. CASE Catch
  <2>1. /\ Top.kind \in Kinds /\ Top.kind \in {"rerun", "run"}
        /\ \/ stack' = Retop(Frame("caught", Top.owner))
           \/ DisposeOn(Top.owner, Retop(Frame("caught", Top.owner)), FALSE)
    BY <1>19 DEF Catch, Kinds
  <2>2. ~Idle /\ Top \in Frames /\ FrameFits(Top)
    BY <2>1, TopKnown
  <2>3. PICK x \in Owners : x = Top.owner
    BY <2>1, <2>2 DEF FrameFits, Owners
  <2>4. PICK f \in Frames : f = Frame("caught", x) /\ f.kind # "run"
    BY FrameType, "caught" \in Kinds DEF Kinds
  <2>5. PICK s \in Seq(Frames) : s = Retop(f) /\ NoNewRun(s)
    BY <1>11, <2>2, <2>4
  <2>6. stack' = s \/ DisposeOn(x, s, FALSE)
    BY <2>1, <2>3, <2>4, <2>5
  <2>7. QED
    BY <1>1, <1>2, <2>5, <2>6, NoRunByDisposal
<1>20. CASE ScopeReturn \/ UnwindScope
  <2>1. Top.kind \in Kinds /\ Top.kind = "scope"
    BY <1>20 DEF ScopeReturn, UnwindScope, On, Kinds
  <2>2. ~Idle /\ FrameFits(Top) /\ Pop \in Seq(Frames) /\ NoNewRun(Pop)
    BY <1>1, <2>1, TopKnown, NoRunPopped
  <2>3. PICK x \in Owners : x = Top.owner
    BY <2>1, <2>2 DEF FrameFits, Owners
  <2>4. PICK s \in Seq(Frames) : s = Pop /\ NoNewRun(s)
    BY <2>2
  <2>5. stack' = s \/ DisposeOn(x, s, FALSE) \/ DisposeOn(x, s, TRUE)
    BY <1>20, <2>3, <2>4 DEF ScopeReturn, UnwindScope
  <2>6. QED
    BY <1>1, <1>2, <2>4, <2>5, NoRunByDisposal
<1>21. QED
  BY <1>4, <1>5, <1>6, <1>7, <1>8, <1>9, <1>10, <1>12, <1>13, <1>15, <1>16, <1>17, <1>18,
     <1>19, <1>20 DEF Next

(* No body starts after its effect was disposed: Body::run looks at the     *)
(* owner once more when the previous run's cleanups are through, and that   *)
(* is the one place where a body starts.                                    *)
THEOREM NoRunAfterDisposalCorrect == Spec => NoRunAfterDisposal
<1>1. ASSUME OwnedInv, [Next]_vars
      PROVE  [ \A e \in Effects : Dead(e) /\ (\E i \in DOMAIN stack' : stack'[i] = Frame("run", e))
                         => \E i \in DOMAIN stack : stack[i] = Frame("run", e) ]_vars
  BY <1>1, RunsStart DEF HasRun
<1>2. QED
  BY <1>1, OwnedCorrect, PTL DEF Spec, NoRunAfterDisposal

-----------------------------------------------------------------------------
(* Who takes in what is created or registered.                             *)

(* The current owner's closure is below no teardown. *)
LEMMA CurrentOwnerRuns ==
  ASSUME NEW s \in Seq(Frames), StackFits(s), NEW o \in Owners, o = CurrentOwner(s)
  PROVE  \E i \in DOMAIN s :
           /\ s[i].owner = o /\ s[i].kind \in {"scope", "run", "run_in"}
           /\ \A j \in i .. Len(s) : s[j].kind # "reset"
<1>1. o # None
  BY OwnersAssumption
<1>2. PICK i \in DOMAIN s :
        /\ s[i].owner = o /\ s[i].kind \in {"scope", "run", "run_in", "unowned"}
        /\ \A j \in i .. Len(s) : s[j].kind # "reset"
  BY <1>1, CurrentOwnerIsLast
<1>3. s[i].kind # "unowned"
  BY <1>1, <1>2 DEF StackFits, FrameFits
<1>4. QED
  BY <1>2, <1>3

(* Owner o takes in what comes from its own closure. *)
OwnClosure(o) ==
  \E i \in DOMAIN stack :
    /\ stack[i].owner = o /\ stack[i].kind \in {"scope", "run", "run_in"}
    /\ \A j \in i .. Len(stack) : stack[j].kind # "reset"

LEMMA OwnsHere ==
  ASSUME OwnedInv, NEW o \in Owners, o = CurrentOwner(stack)
  PROVE  OwnClosure(o)
BY CurrentOwnerRuns DEF OwnedInv, TypeOK, StackInv, OwnClosure

LEMMA OwnsOutside ==
  ASSUME OwnedInv, Top.kind = "scope", NEW o \in Owners, o = CurrentOwner(Pop)
  PROVE  OwnClosure(o)
<1>1. Top.kind \in Kinds
  BY DEF Kinds
<1>2. /\ ~Idle /\ Pop \in Seq(Frames) /\ StackFits(Pop)
      /\ DOMAIN stack = 1 .. Len(stack) /\ DOMAIN Pop = 1 .. Len(stack) - 1
      /\ Len(Pop) = Len(stack) - 1 /\ Len(stack) \in Nat \ {0}
      /\ Top = stack[Len(stack)] /\ \A i \in 1 .. Len(stack) - 1 : Pop[i] = stack[i]
  BY <1>1, TopKnown, TopType DEF OwnedInv, TypeOK, StackInv
<1>3. PICK i \in DOMAIN Pop :
        /\ Pop[i].owner = o /\ Pop[i].kind \in {"scope", "run", "run_in"}
        /\ \A j \in i .. Len(Pop) : Pop[j].kind # "reset"
  BY <1>2, CurrentOwnerRuns
<1>4. i \in DOMAIN stack /\ stack[i] = Pop[i]
  BY <1>2
<1>5. \A j \in i .. Len(stack) : stack[j].kind # "reset"
  <2> SUFFICES ASSUME NEW j \in i .. Len(stack) PROVE stack[j].kind # "reset"
    OBVIOUS
  <2>1. CASE j = Len(stack)
    BY <1>2, <2>1
  <2>2. CASE j # Len(stack)
    <3>1. i \in 1 .. Len(stack) - 1
      BY <1>2
    <3>2. PICK n \in Nat : n = Len(stack)
      BY <1>2
    <3>3. i \in 1 .. n - 1 /\ j \in i .. n /\ j # n
      BY <2>2, <3>1, <3>2
    <3>4. j \in i .. n - 1 /\ j \in 1 .. n - 1
      BY <3>3
    <3>5. j \in i .. Len(Pop) /\ stack[j] = Pop[j]
      BY <1>2, <3>2, <3>4
    <3>6. QED
      BY <1>3, <3>5
  <2>3. QED
    BY <2>1, <2>2
<1>6. QED
  BY <1>3, <1>4, <1>5 DEF OwnClosure

LEMMA DoesNotGrow ==
  ASSUME TypeOK, NEW o \in Owners, UNCHANGED lists
  PROVE  ~Grows(o)
<1>1. children'[o] = children[o] /\ cleanups'[o] = cleanups[o]
  BY DEF lists
<1>2. Len(children[o]) \in Nat /\ Len(cleanups[o]) \in Nat
  BY DEF TypeOK
<1>3. QED
  BY <1>1, <1>2 DEF Grows

LEMMA DisposalShrinks ==
  ASSUME TypeOK, NEW o \in Owners, NEW p, NEW s, NEW u, DisposeOn(p, s, u) \/ Reset(p, s, u)
  PROVE  ~Grows(o)
<1>1. CASE UNCHANGED lists
  BY <1>1, DoesNotGrow
<1>2. CASE Reset(p, s, u)
  <2>1. /\ children' = [children EXCEPT ![p] = <<>>]
        /\ cleanups' = [cleanups EXCEPT ![p] = <<>>]
    BY <1>2 DEF Reset
  <2>2. /\ children'[o] = children[o] \/ children'[o] = <<>>
        /\ cleanups'[o] = cleanups[o] \/ cleanups'[o] = <<>>
    BY <2>1 DEF TypeOK
  <2>3. Len(children[o]) \in Nat /\ Len(cleanups[o]) \in Nat /\ Len(<<>>) = 0
    BY DEF TypeOK
  <2>4. QED
    BY <2>2, <2>3 DEF Grows
<1>3. QED
  BY <1>1, <1>2 DEF DisposeOn

LEMMA AdoptGrows ==
  ASSUME TypeOK, NEW p \in Owners, NEW c \in Owners, Adopt(p, c), NEW o \in Owners, Grows(o)
  PROVE  o = p
<1> SUFFICES ASSUME o # p PROVE FALSE
  OBVIOUS
<1>1. children'[o] = children[o] /\ cleanups' = cleanups
  BY DEF Adopt, TypeOK
<1>2. Len(children[o]) \in Nat /\ Len(cleanups[o]) \in Nat
  BY DEF TypeOK
<1>3. QED
  BY <1>1, <1>2 DEF Grows

LEMMA GrowsFromOwnClosure ==
  ASSUME OwnedInv, Next, NEW o \in Owners, Grows(o)
  PROVE  OwnClosure(o)
<1>1. TypeOK /\ stack \in Seq(Frames)
  BY DEF OwnedInv, TypeOK
<1>2. ~UNCHANGED lists
  BY <1>1, DoesNotGrow
<1>3. CASE OnCleanup
  <2> DEFINE p == CurrentOwner(stack)
  <2>1. p # None /\ cleanups' = [cleanups EXCEPT ![p] = Append(@, known + 1)] /\ UNCHANGED children
    BY <1>2, <1>3 DEF OnCleanup, AddCleanup, lists
  <2>2. p \in Owners
    BY <1>1, <2>1, CurrentOwnerType
  <2>3. o = p
    <3> SUFFICES ASSUME o # p PROVE FALSE
      OBVIOUS
    <3>1. cleanups'[o] = cleanups[o] /\ children'[o] = children[o]
      BY <1>1, <2>1 DEF TypeOK
    <3>2. Len(children[o]) \in Nat /\ Len(cleanups[o]) \in Nat
      BY <1>1 DEF TypeOK
    <3>3. QED
      BY <3>1, <3>2 DEF Grows
  <2>4. QED
    BY <2>3, OwnsHere
<1>4. CASE \E e \in Effects : CreateEffect(e)
  <2> DEFINE p == CurrentOwner(stack)
  <2>1. PICK e \in Effects : CreateEffect(e)
    BY <1>4
  <2>2. p # None /\ Adopt(p, e) /\ e \in Owners
    BY <1>2, <2>1 DEF CreateEffect, Owners
  <2>3. p \in Owners
    BY <1>1, <2>2, CurrentOwnerType
  <2>4. o = p
    BY <1>1, <2>2, <2>3, AdoptGrows
  <2>5. QED
    BY <2>4, OwnsHere
<1>5. CASE ScopeReturn
  <2>1. Top.kind = "scope" /\ Top.kind \in Kinds
    BY <1>5 DEF ScopeReturn, On, Kinds
  <2>2. Pop \in Seq(Frames) /\ FrameFits(Top)
    BY <2>1, TopKnown
  <2>3. PICK x \in Owners : x = Top.owner
    BY <2>1, <2>2 DEF FrameFits, Owners
  <2> DEFINE p == CurrentOwner(Pop)
  <2>4. ~DisposeOn(Top.owner, Pop, FALSE)
    BY <1>1, DisposalShrinks
  <2>5. p # None /\ Adopt(p, x)
    BY <1>2, <1>5, <2>3, <2>4 DEF ScopeReturn
  <2>6. p \in Owners
    BY <2>2, <2>5, CurrentOwnerType
  <2>7. o = p
    BY <1>1, <2>5, <2>6, AdoptGrows
  <2>8. QED
    BY <2>1, <2>7, OwnsOutside
<1>6. ASSUME NEW p, NEW s, NEW u, DisposeOn(p, s, u) \/ Reset(p, s, u)
      PROVE  FALSE
  BY <1>1, <1>6, DisposalShrinks
<1>7. CASE \E x \in Owners : RunIn(x) \/ Dispose(x) \/ DropUnwinding(x)
  BY <1>2, <1>6, <1>7 DEF RunIn, Dispose, DropUnwinding
<1>8. CASE \E x \in Effects : RunEffect(x)
  BY <1>6, <1>8 DEF RunEffect
<1>9. CASE DisposeChild
  BY <1>6, <1>9 DEF DisposeChild
<1>10. CASE Catch
  BY <1>2, <1>6, <1>10 DEF Catch
<1>11. CASE UnwindScope
  BY <1>2, <1>6, <1>11 DEF UnwindScope
<1>12. CASE \/ \E x \in Scopes : StartScope(x)
            \/ Unowned \/ Panic \/ Return
  BY <1>2, <1>12 DEF StartScope, Unowned, Panic, Return
<1>13. CASE \/ FinishReset \/ Unwind \/ Capture \/ RunCleanup \/ StartBody \/ Handle
  BY <1>2, <1>13 DEF FinishReset, Unwind, Capture, RunCleanup, StartBody, Handle
<1>14. QED
  BY <1>3, <1>4, <1>5, <1>7, <1>8, <1>9, <1>10, <1>11, <1>12, <1>13 DEF Next

(* What code in a teardown creates or registers never ends up with an owner *)
(* further out: OwnerFrame::reset puts a barrier on OWNER_STACK, and an     *)
(* owner only takes in what comes from its own closure.                     *)
THEOREM TeardownIsABarrierCorrect == Spec => TeardownIsABarrier
<1>1. ASSUME OwnedInv, [Next]_vars
      PROVE  [ \A o \in Owners : Grows(o) =>
        \E i \in DOMAIN stack :
          /\ stack[i].owner = o /\ stack[i].kind \in {"scope", "run", "run_in"}
          /\ \A j \in i .. Len(stack) : stack[j].kind # "reset" ]_vars
  BY <1>1, GrowsFromOwnClosure DEF OwnClosure
<1>2. QED
  BY <1>1, OwnedCorrect, PTL DEF Spec, TeardownIsABarrier

-----------------------------------------------------------------------------
(* No live owner is left behind.                                           *)

(* LiveIsOwned of one owner. *)
IsOwned(o) ==
  status[o] = "live" /\ parent[o] # None /\ ~OpenIn(stack, o) => Lists(parent[o], o)
AllOwned == \A o \in Owners \ (Kept \cap Scopes) : IsOwned(o)

LEMMA LiveIsOwnedIs == OwnedInv => (LiveIsOwned <=> AllOwned)
<1> SUFFICES ASSUME OwnedInv PROVE LiveIsOwned <=> AllOwned
  OBVIOUS
<1>1. \A o : Opening(o) <=> OpenIn(stack, o)
  BY OpenScopes
<1>2. QED
  BY <1>1, Zenon DEF LiveIsOwned, AllOwned, IsOwned, Lists, Holds

(* The one who disposes does not leave a live owner behind. *)
LEMMA DisposedDies ==
  ASSUME TypeOK, NEW o \in Owners, NEW s, NEW u, DisposeOn(o, s, u), UNCHANGED parent
  PROVE  status'[o] # "live"
<1>1. status' = [status EXCEPT ![o] = "disposed"]
  BY DisposeAges
<1>2. QED
  BY <1>1 DEF TypeOK

(* A scope is handed over when its closure is left, unless Owner keeps it. *)
LEMMA ScopeHandedOver ==
  ASSUME OwnedInv, NEW o \in Owners \ (Kept \cap Scopes), ScopeReturn \/ UnwindScope,
         Top.owner = o, status'[o] = "live", parent[o] # None
  PROVE  Lists(parent[o], o)'
<1>1. Top.kind = "scope" /\ Top.kind \in Kinds
  BY DEF ScopeReturn, UnwindScope, On, Kinds
<1>2. Pop \in Seq(Frames) /\ FrameFits(Top) /\ PushFits(Pop, Top)
  BY <1>1, TopKnown
<1>3. o \in Scopes /\ o \notin Kept
  BY <1>1, <1>2 DEF FrameFits
<1>4. PICK p \in Owners : p = CurrentOwner(Pop) /\ p = parent[o]
  <2>1. parent[o] = CurrentOwner(Pop)
    BY <1>1, <1>2 DEF PushFits
  <2>2. QED
    BY <1>2, <2>1, CurrentOwnerType
<1>5. ~UnwindScope
  BY <1>3, DisposedDies DEF UnwindScope, OwnedInv
<1>6. ~DisposeOn(o, Pop, FALSE)
  BY <1>5, DisposedDies DEF ScopeReturn, OwnedInv
<1>7. Adopt(p, o) /\ UNCHANGED parent
  BY <1>4, <1>5, <1>6 DEF ScopeReturn
<1>8. o \in InSequence(children'[p])
  BY <1>7, AdoptLists DEF OwnedInv
<1>9. parent'[o] = p
  BY <1>4, <1>7
<1>10. QED
  BY <1>4, <1>7, <1>8, <1>9 DEF Lists

LEMMA AllOwnedStep ==
  ASSUME OwnedInv, AllOwned, Next
  PROVE  AllOwned'
<1> SUFFICES ASSUME NEW o \in Owners \ (Kept \cap Scopes),
                    status'[o] = "live", parent'[o] # None, ~OpenIn(stack, o)'
             PROVE  Lists(parent[o], o)'
  BY DEF AllOwned, IsOwned
<1>1. \/ status[o] = "live" /\ parent'[o] = parent[o]
      \/ StartScope(o) \/ CreateEffect(o)
  BY StepAges
<1>2. stack \in Seq(Frames) /\ TypeOK
  BY DEF OwnedInv, TypeOK
<1>3. CASE status[o] = "live" /\ parent'[o] = parent[o]
  <2>1. PICK q \in Owners : q = parent[o] /\ q = parent'[o]
    BY <1>2, <1>3 DEF TypeOK
  <2>2. Moves(q, o)
    BY StepMoves
  <2>3. CASE ~OpenIn(stack, o)
    <3>1. Lists(q, o)
      BY <1>3, <2>1, <2>3 DEF AllOwned, IsOwned
    <3>2. Lists(q, o)'
      BY <2>2, <3>1 DEF Moves
    <3>3. QED
      BY <2>1, <3>2 DEF Lists
  <2>4. CASE OpenIn(stack, o)
    <3>1. (ScopeReturn \/ UnwindScope) /\ Top.owner = o
      BY <2>2, <2>4 DEF Moves
    <3>2. QED
      BY <1>3, <3>1, ScopeHandedOver
  <2>5. QED
    BY <2>3, <2>4
<1>4. CASE StartScope(o)
  <2>1. stack' = Append(stack, Frame("scope", o))
    BY <1>4 DEF StartScope
  <2>2. PICK f \in Frames : f = Frame("scope", o) /\ f.kind = "scope" /\ f.owner = o
    BY FrameType, "scope" \in Kinds DEF Kinds
  <2>3. OpenIn(Append(stack, f), o)
    BY <1>2, <2>2, HoldsPush
  <2>4. OpenIn(stack, o)'
    BY <2>1, <2>2, <2>3 DEF OpenIn
  <2>5. QED
    BY <2>4
<1>5. CASE CreateEffect(o)
  <2>1. PICK p \in Owners \cup {None} : p = CurrentOwner(stack)
    BY <1>2, CurrentOwnerType
  <2>2. /\ status' = [status EXCEPT ![o] = IF Dead(p) THEN "disposed" ELSE "live"]
        /\ parent' = [parent EXCEPT ![o] = p]
        /\ p = None \/ Dead(p) \/ Adopt(p, o)
    BY <1>5, <2>1 DEF CreateEffect, NewOwner
  <2>3. parent'[o] = p /\ ~Dead(p)
    BY <1>2, <2>2 DEF TypeOK
  <2>4. p \in Owners /\ Adopt(p, o)
    BY <2>1, <2>2, <2>3
  <2>5. o \in InSequence(children'[p])
    BY <1>2, <2>4, AdoptLists
  <2>6. QED
    BY <2>3, <2>5 DEF Lists
<1>6. QED
  BY <1>1, <1>3, <1>4, <1>5

(* A live owner that was created under another one is among the children of *)
(* that one, or among those a teardown has taken and will dispose of.       *)
THEOREM LiveIsOwnedCorrect == Spec => []LiveIsOwned
<1>1. Init => AllOwned
  BY DEF Init, AllOwned, IsOwned
<1>2. OwnedInv /\ AllOwned /\ [Next]_vars => AllOwned'
  <2> SUFFICES ASSUME OwnedInv, AllOwned, [Next]_vars PROVE AllOwned'
    OBVIOUS
  <2>1. CASE Next
    BY <2>1, AllOwnedStep
  <2>2. CASE UNCHANGED vars
    <3>1. UNCHANGED <<status, parent, children, stack>>
      BY <2>2 DEF vars, tree, lists, control
    <3>2. QED
      BY <3>1 DEF AllOwned, IsOwned, Lists, Holds, OpenIn
  <2>3. QED
    BY <2>1, <2>2
<1>3. OwnedInv /\ AllOwned => LiveIsOwned
  BY LiveIsOwnedIs
<1>4. QED
  BY <1>1, <1>2, <1>3, OwnedCorrect, PTL DEF Spec

-----------------------------------------------------------------------------
(* What is disposed holds nothing.                                         *)

(* The owners of frames have been created, in the next state too.           *)
FramesExist == \A i \in DOMAIN stack : stack[i].owner # None => status[stack[i].owner] # "absent"
WillExist(s) == \A i \in DOMAIN s : s[i].owner # None => status'[s[i].owner] # "absent"

LEMMA ExistPushed ==
  ASSUME NEW s \in Seq(Frames), WillExist(s), NEW f \in Frames,
         f.owner # None => status'[f.owner] # "absent"
  PROVE  WillExist(Append(s, f)) /\ Append(s, f) \in Seq(Frames)
<1>1. /\ DOMAIN Append(s, f) = 1 .. Len(s) + 1 /\ DOMAIN s = 1 .. Len(s) /\ Len(s) \in Nat
      /\ \A j \in 1 .. Len(s) : Append(s, f)[j] = s[j]
      /\ Append(s, f)[Len(s) + 1] = f
  BY Appended
<1>2. Append(s, f) \in Seq(Frames)
  BY Appended
<1>3. ASSUME NEW i \in 1 .. Len(s) + 1, Append(s, f)[i].owner # None
      PROVE  status'[Append(s, f)[i].owner] # "absent"
  <2>1. CASE i = Len(s) + 1
    BY <1>1, <1>3, <2>1
  <2>2. CASE i # Len(s) + 1
    BY <1>1, <1>3, <2>2 DEF WillExist
  <2>3. QED
    BY <2>1, <2>2
<1>4. QED
  BY <1>1, <1>2, <1>3 DEF WillExist

LEMMA ExistPopped ==
  ASSUME TypeOK, ~Idle, WillExist(stack)
  PROVE  /\ WillExist(Pop) /\ Pop \in Seq(Frames) /\ Top \in Frames
         /\ Top.owner # None => status'[Top.owner] # "absent"
         /\ \A f \in Frames : Retop(f) = Append(Pop, f)
<1>1. /\ Pop \in Seq(Frames) /\ Top \in Frames /\ Top = stack[Len(stack)]
      /\ DOMAIN stack = 1 .. Len(stack) /\ DOMAIN Pop = 1 .. Len(stack) - 1
      /\ Len(stack) \in Nat \ {0}
      /\ \A i \in 1 .. Len(stack) - 1 : Pop[i] = stack[i]
      /\ \A f \in Frames : Retop(f) = Append(Pop, f)
  BY TopType DEF TypeOK
<1>2. \A i \in DOMAIN Pop : i \in DOMAIN stack /\ Pop[i] = stack[i]
  BY <1>1
<1>3. Len(stack) \in DOMAIN stack
  BY <1>1
<1>4. QED
  BY <1>1, <1>2, <1>3 DEF WillExist

LEMMA ExistDisposal ==
  ASSUME TypeOK, NEW o \in Owners, NEW s \in Seq(Frames), WillExist(s), NEW u \in BOOLEAN,
         DisposeOn(o, s, u) \/ (Reset(o, s, u) /\ status'[o] # "absent")
  PROVE  WillExist(stack')
<1>1. CASE stack' = s
  BY <1>1
<1>2. CASE Reset(o, s, u) /\ status'[o] # "absent"
  <2>1. PICK f \in Frames : stack' = Append(s, f) /\ f.owner = o
    BY <1>2, ResetPushes, Zenon
  <2>2. WillExist(Append(s, f))
    BY <1>2, <2>1, ExistPushed
  <2>3. QED
    BY <2>1, <2>2
<1>3. CASE DisposeOn(o, s, u) /\ status[o] # "disposed"
  <2>1. Reset(o, s, u) /\ status' = [status EXCEPT ![o] = "disposed"]
    BY <1>3 DEF DisposeOn
  <2>2. status'[o] # "absent"
    BY <2>1 DEF TypeOK
  <2>3. QED
    BY <1>2, <2>1, <2>2
<1>4. CASE DisposeOn(o, s, u) /\ status[o] = "disposed"
  BY <1>1, <1>4 DEF DisposeOn
<1>5. QED
  BY <1>2, <1>3, <1>4

LEMMA ExistStep ==
  ASSUME OwnedInv, FramesExist, Next
  PROVE  WillExist(stack')
<1>1. /\ TypeOK /\ stack \in Seq(Frames)
      /\ \A o \in Owners : status[o] # "absent" => status'[o] # "absent"
  BY StepAges DEF OwnedInv, TypeOK, Aged
<1>2. WillExist(stack)
  <2> SUFFICES ASSUME NEW i \in DOMAIN stack, stack[i].owner # None
               PROVE  status'[stack[i].owner] # "absent"
    BY DEF WillExist
  <2>1. stack[i].owner \in Owners
    BY <1>1, FrameType
  <2>2. QED
    BY <1>1, <2>1 DEF FramesExist
<1>3. ASSUME NEW k \in Kinds, NEW o \in Owners \cup {None},
             o # None => status'[o] # "absent", stack' = Append(stack, Frame(k, o))
      PROVE  WillExist(stack')
  <2> DEFINE f == Frame(k, o)
  <2>1. f \in Frames /\ f.owner = o
    BY <1>3, FrameType
  <2> HIDE DEF f
  <2>2. WillExist(Append(stack, f))
    BY <1>1, <1>2, <1>3, <2>1, ExistPushed
  <2>3. QED
    BY <1>3, <2>2 DEF f
<1>4. CASE \E o \in Scopes : StartScope(o)
  <2>1. PICK o \in Scopes : StartScope(o)
    BY <1>4
  <2>2. o \in Owners /\ status' = [status EXCEPT ![o] = "live"]
    BY <2>1 DEF StartScope, NewOwner, Owners
  <2>3. status'[o] # "absent" /\ stack' = Append(stack, Frame("scope", o))
    BY <1>1, <2>1, <2>2 DEF StartScope, TypeOK
  <2>4. QED
    BY <1>3, <2>2, <2>3, "scope" \in Kinds DEF Kinds
<1>5. CASE \E o \in Owners : RunIn(o)
  BY <1>1, <1>3, <1>5, "run_in" \in Kinds DEF RunIn, Kinds
<1>6. CASE Unowned
  BY <1>3, <1>6, "unowned" \in Kinds DEF Unowned, Kinds
<1>7. CASE OnCleanup
  <2>1. stack' = stack \/ stack' = Append(stack, Frame("cleanup", None))
    BY <1>7 DEF OnCleanup, AddCleanup, control
  <2>2. QED
    BY <1>2, <1>3, <2>1, "cleanup" \in Kinds DEF Kinds
<1>8. CASE Panic \/ \E x \in Effects : CreateEffect(x)
  <2>1. stack' = stack
    BY <1>8 DEF Panic, CreateEffect, control
  <2>2. QED
    BY <1>2, <2>1
<1>9. CASE \E o \in Owners : Dispose(o) \/ DropUnwinding(o)
  <2>1. PICK o \in Owners, u \in BOOLEAN : DisposeOn(o, stack, u)
    BY <1>9 DEF Dispose, DropUnwinding
  <2>2. QED
    BY <1>1, <1>2, <2>1, ExistDisposal
<1>10. CASE \E x \in Effects : RunEffect(x)
  <2>1. PICK x \in Effects : /\ Reset(x, Append(stack, Frame("rerun", x)), FALSE)
                             /\ status[x] = "live"
    BY <1>10 DEF RunEffect
  <2> DEFINE f == Frame("rerun", x)
  <2>2. f \in Frames /\ f.owner = x /\ x \in Owners /\ status'[x] # "absent"
    BY <1>1, <2>1, FrameType, "rerun" \in Kinds DEF Owners, Kinds
  <2>3. Reset(x, Append(stack, f), FALSE)
    BY <2>1
  <2> HIDE DEF f
  <2>4. PICK s \in Seq(Frames) : s = Append(stack, f) /\ WillExist(s)
    BY <1>1, <1>2, <2>2, ExistPushed
  <2>5. QED
    BY <1>1, <2>2, <2>3, <2>4, ExistDisposal
<1>11. ASSUME NEW g \in Frames, ~Idle, g.owner = Top.owner
       PROVE  WillExist(Retop(g)) /\ Retop(g) \in Seq(Frames)
  <2>1. /\ Retop(g) = Append(Pop, g) /\ WillExist(Pop) /\ Pop \in Seq(Frames)
        /\ g.owner # None => status'[g.owner] # "absent"
    BY <1>1, <1>2, <1>11, ExistPopped
  <2>2. WillExist(Append(Pop, g)) /\ Append(Pop, g) \in Seq(Frames)
    BY <1>11, <2>1, ExistPushed
  <2>3. QED
    BY <2>1, <2>2
<1>12. CASE Return \/ FinishReset \/ Unwind
  <2>1. Top.kind \in Kinds /\ stack' = Pop
    BY <1>12 DEF Return, FinishReset, Unwind, On, Closures, Kinds
  <2>2. QED
    BY <1>1, <1>2, <2>1, OnTop, ExistPopped
<1>13. CASE Capture
  <2>1. Top.kind \in Kinds /\ stack' = Retop([Top EXCEPT !.failed = TRUE])
    BY <1>13 DEF Capture, On, Kinds
  <2>2. ~Idle /\ Top \in Frames
    BY <1>1, <1>2, <2>1, OnTop, ExistPopped
  <2>3. [Top EXCEPT !.failed = TRUE] \in Frames /\ [Top EXCEPT !.failed = TRUE].owner = Top.owner
    BY <2>2 DEF Frames
  <2>4. QED
    BY <1>11, <2>1, <2>2, <2>3
<1>14. ASSUME On("reset"), NEW cs \in Seq(Cleanups), NEW ch \in Seq(Owners)
       PROVE  /\ ~Idle
              /\ [Top EXCEPT !.cleanups = cs] \in Frames
              /\ [Top EXCEPT !.cleanups = cs].owner = Top.owner
              /\ [Top EXCEPT !.children = ch] \in Frames
              /\ [Top EXCEPT !.children = ch].owner = Top.owner
  <2>1. Top.kind \in Kinds
    BY <1>14 DEF On, Kinds
  <2>2. ~Idle /\ Top \in Frames
    BY <1>1, <1>2, <2>1, OnTop, ExistPopped
  <2>3. QED
    BY <1>14, <2>2 DEF Frames
<1>15. CASE RunCleanup
  <2>1. /\ On("reset") /\ Top.cleanups # <<>>
        /\ stack' = Append(Retop([Top EXCEPT !.cleanups = Front(@)]), Frame("cleanup", None))
    BY <1>15 DEF RunCleanup
  <2>2. Top \in Frames
    BY <1>1, <1>2, <1>14, <2>1, ExistPopped, EmptySeq
  <2>3. PICK cs \in Seq(Cleanups) : cs = Front(Top.cleanups)
    BY <2>1, <2>2, FrameType, Shortened
  <2>4. PICK g \in Frames : g = [Top EXCEPT !.cleanups = cs] /\ g.owner = Top.owner /\ ~Idle
    BY <1>14, <2>1, EmptySeq
  <2>5. PICK s \in Seq(Frames) : s = Retop(g) /\ WillExist(s)
    BY <1>11, <2>4
  <2>6. PICK f \in Frames : f = Frame("cleanup", None) /\ f.owner = None
    BY FrameType, "cleanup" \in Kinds DEF Kinds
  <2>7. stack' = Append(s, f)
    BY <2>1, <2>3, <2>4, <2>5, <2>6
  <2>8. WillExist(Append(s, f))
    BY <2>5, <2>6, ExistPushed
  <2>9. QED
    BY <2>7, <2>8
<1>16. CASE DisposeChild
  <2>1. /\ On("reset") /\ Top.children # <<>>
        /\ DisposeOn(Last(Top.children), Retop([Top EXCEPT !.children = Front(@)]), FALSE)
    BY <1>16 DEF DisposeChild
  <2>2. Top \in Frames
    BY <1>1, <1>2, <1>14, <2>1, ExistPopped, EmptySeq
  <2>3. PICK ch \in Seq(Owners), x \in Owners : ch = Front(Top.children) /\ x = Last(Top.children)
    BY <2>1, <2>2, FrameType, Shortened
  <2>4. PICK g \in Frames : g = [Top EXCEPT !.children = ch] /\ g.owner = Top.owner /\ ~Idle
    BY <1>14, <2>1, EmptySeq
  <2>5. PICK s \in Seq(Frames) : s = Retop(g) /\ WillExist(s)
    BY <1>11, <2>4
  <2>6. DisposeOn(x, s, FALSE)
    BY <2>1, <2>3, <2>4, <2>5
  <2>7. QED
    BY <1>1, <2>5, <2>6, ExistDisposal
<1>17. ASSUME NEW k \in Kinds, ~Idle, stack' = Retop(Frame(k, Top.owner))
       PROVE  WillExist(stack')
  <2>1. Top.owner \in Owners \cup {None}
    BY <1>1, <1>2, <1>17, ExistPopped, FrameType
  <2>2. PICK f \in Frames : f = Frame(k, Top.owner) /\ f.owner = Top.owner
    BY <2>1, FrameType
  <2>3. QED
    BY <1>11, <1>17, <2>2
<1>18. CASE StartBody \/ Handle
  <2>1. Top.kind \in Kinds /\ ~Idle
    BY <1>18, OnTop DEF StartBody, Handle, On, Kinds
  <2>2. \/ stack' = Pop
        \/ stack' = Retop(Frame("run", Top.owner)) \/ stack' = Retop(Frame("handler", Top.owner))
    BY <1>18 DEF StartBody, Handle
  <2>3. "run" \in Kinds /\ "handler" \in Kinds
    BY DEF Kinds
  <2>4. QED
    BY <1>1, <1>2, <1>17, <2>1, <2>2, <2>3, ExistPopped
<1>19. CASE Catch
  <2>1. /\ Top.kind \in Kinds /\ Top.kind \in {"rerun", "run"}
        /\ \/ stack' = Retop(Frame("caught", Top.owner))
           \/ DisposeOn(Top.owner, Retop(Frame("caught", Top.owner)), FALSE)
    BY <1>19 DEF Catch, Kinds
  <2>2. ~Idle /\ Top \in Frames /\ FrameFits(Top)
    BY <2>1, TopKnown
  <2>3. PICK x \in Owners : x = Top.owner
    BY <2>1, <2>2 DEF FrameFits, Owners
  <2>4. PICK f \in Frames : f = Frame("caught", x) /\ f.owner = Top.owner
    BY <2>3, FrameType, "caught" \in Kinds DEF Kinds
  <2>5. PICK s \in Seq(Frames) : s = Retop(f) /\ WillExist(s)
    BY <1>11, <2>2, <2>4
  <2>6. stack' = s \/ DisposeOn(x, s, FALSE)
    BY <2>1, <2>3, <2>4, <2>5
  <2>7. QED
    BY <1>1, <2>5, <2>6, ExistDisposal
<1>20. CASE ScopeReturn \/ UnwindScope
  <2>1. Top.kind \in Kinds /\ Top.kind = "scope"
    BY <1>20 DEF ScopeReturn, UnwindScope, On, Kinds
  <2>2. ~Idle /\ FrameFits(Top)
    BY <2>1, TopKnown
  <2>3. PICK x \in Owners : x = Top.owner
    BY <2>1, <2>2 DEF FrameFits, Owners
  <2>4. PICK s \in Seq(Frames) : s = Pop /\ WillExist(s)
    BY <1>1, <1>2, <2>2, ExistPopped
  <2>5. stack' = s \/ DisposeOn(x, s, FALSE) \/ DisposeOn(x, s, TRUE)
    BY <1>20, <2>3, <2>4 DEF ScopeReturn, UnwindScope
  <2>6. QED
    BY <1>1, <2>4, <2>5, ExistDisposal
<1>21. QED
  BY <1>4, <1>5, <1>6, <1>7, <1>8, <1>9, <1>10, <1>12, <1>13, <1>15, <1>16, <1>18,
     <1>19, <1>20 DEF Next

(* Only the living take anything in, and who dies gives everything away.    *)
HoldsNothing(o) == cleanups[o] = <<>> /\ children[o] = <<>>
OnlyLiveHold == \A o \in Owners : status[o] # "live" => HoldsNothing(o)

(* The owner whose closure is innermost is live, if it is not disposed.     *)
LEMMA CurrentOwnerLives ==
  ASSUME OwnedInv, FramesExist, NEW p \in Owners, OwnClosure(p), ~Dead(p)
  PROVE  status[p] = "live"
<1>1. p # None
  BY OwnersAssumption
<1>2. PICK i \in DOMAIN stack : stack[i].owner = p
  BY DEF OwnClosure
<1>3. status[p] # "absent"
  BY <1>1, <1>2 DEF FramesExist
<1>4. QED
  BY <1>1, <1>3 DEF OwnedInv, TypeOK, Dead

LEMMA DisposalEmpties ==
  ASSUME TypeOK, OnlyLiveHold, NEW p \in Owners, NEW s, NEW u,
         DisposeOn(p, s, u) \/ (Reset(p, s, u) /\ UNCHANGED status)
  PROVE  OnlyLiveHold'
<1>1. CASE Reset(p, s, u) /\ status' \in {status, [status EXCEPT ![p] = "disposed"]}
  <2>1. /\ children' = [children EXCEPT ![p] = <<>>]
        /\ cleanups' = [cleanups EXCEPT ![p] = <<>>]
    BY <1>1 DEF Reset
  <2>2. \A o \in Owners :
          \/ o = p /\ children'[o] = <<>> /\ cleanups'[o] = <<>>
          \/ children'[o] = children[o] /\ cleanups'[o] = cleanups[o] /\ status'[o] = status[o]
    BY <1>1, <2>1 DEF TypeOK
  <2>3. QED
    BY <2>2 DEF OnlyLiveHold, HoldsNothing
<1>2. CASE UNCHANGED <<status, lists>>
  BY <1>2 DEF OnlyLiveHold, HoldsNothing, lists
<1>3. QED
  BY <1>1, <1>2 DEF DisposeOn

LEMMA AdoptFills ==
  ASSUME TypeOK, NEW p \in Owners, NEW c, Adopt(p, c)
  PROVE  \A o \in Owners \ {p} : children'[o] = children[o] /\ cleanups'[o] = cleanups[o]
BY DEF Adopt, TypeOK

LEMMA OnlyLiveHoldStep ==
  ASSUME OwnedInv, FramesExist, OnlyLiveHold, Next
  PROVE  OnlyLiveHold'
<1>1. TypeOK /\ stack \in Seq(Frames)
  BY DEF OwnedInv, TypeOK
<1>2. ASSUME UNCHANGED <<status, lists>> PROVE OnlyLiveHold'
  BY <1>2 DEF OnlyLiveHold, HoldsNothing, lists
<1>3. ASSUME NEW o \in Owners, NEW s, NEW u,
             DisposeOn(o, s, u) \/ (Reset(o, s, u) /\ UNCHANGED status)
      PROVE  OnlyLiveHold'
  BY <1>1, <1>3, DisposalEmpties
<1>4. ASSUME NEW p \in Owners, status'[p] = "live",
             \A o \in Owners \ {p} : children'[o] = children[o] /\ cleanups'[o] = cleanups[o],
             \A o \in Owners : status'[o] # "live" => status[o] # "live"
      PROVE  OnlyLiveHold'
  BY <1>4 DEF OnlyLiveHold, HoldsNothing
<1>5. CASE OnCleanup
  <2>1. CASE UNCHANGED <<status, lists>>
    BY <1>2, <2>1
  <2>2. CASE ~UNCHANGED <<status, lists>>
    <3>1. PICK p : p = CurrentOwner(stack)
      OBVIOUS
    <3>2. /\ p # None /\ ~Dead(p) /\ UNCHANGED <<status, children>>
          /\ cleanups' = [cleanups EXCEPT ![p] = Append(@, known + 1)]
      BY <1>5, <2>2, <3>1 DEF OnCleanup, AddCleanup, lists, tree
    <3>3. p \in Owners
      BY <1>1, <3>1, <3>2, CurrentOwnerType
    <3>4. status[p] = "live"
      BY <3>1, <3>2, <3>3, OwnsHere, CurrentOwnerLives
    <3>5. \A o \in Owners \ {p} : children'[o] = children[o] /\ cleanups'[o] = cleanups[o]
      BY <1>1, <3>2 DEF TypeOK
    <3>6. QED
      BY <1>4, <3>2, <3>3, <3>4, <3>5
  <2>3. QED
    BY <2>1, <2>2
<1>6. CASE \E e \in Effects : CreateEffect(e)
  <2>1. PICK e \in Owners : CreateEffect(e)
    BY <1>6 DEF Owners
  <2>2. PICK p \in Owners \cup {None} : p = CurrentOwner(stack)
    BY <1>1, CurrentOwnerType
  <2>3. /\ status[e] = "absent" /\ status' = [status EXCEPT ![e] = IF Dead(p) THEN "disposed" ELSE "live"]
        /\ \/ (p = None \/ Dead(p)) /\ UNCHANGED lists
           \/ p # None /\ ~Dead(p) /\ Adopt(p, e)
    BY <2>1, <2>2 DEF CreateEffect, NewOwner
  <2>4. \A o \in Owners : o # e => status'[o] = status[o]
    BY <1>1, <2>3 DEF TypeOK
  <2>5. CASE UNCHANGED lists
    BY <2>3, <2>4, <2>5 DEF OnlyLiveHold, HoldsNothing, lists
  <2>6. CASE p # None /\ ~Dead(p) /\ Adopt(p, e)
    <3>1. p \in Owners /\ status[p] = "live"
      BY <2>2, <2>6, OwnsHere, CurrentOwnerLives
    <3>2. status'[p] = "live" /\ \A o \in Owners : status'[o] # "live" => status[o] # "live"
      BY <2>3, <2>4, <3>1
    <3>3. QED
      BY <1>1, <1>4, <2>6, <3>1, <3>2, AdoptFills
  <2>7. QED
    BY <2>3, <2>5, <2>6
<1>7. CASE ScopeReturn \/ UnwindScope
  <2>1. Top.kind = "scope" /\ Top.kind \in Kinds
    BY <1>7 DEF ScopeReturn, UnwindScope, On, Kinds
  <2>2. Pop \in Seq(Frames) /\ FrameFits(Top)
    BY <2>1, TopKnown
  <2>3. PICK x \in Owners : x = Top.owner
    BY <2>1, <2>2 DEF FrameFits, Owners
  <2>4. PICK p \in Owners \cup {None} : p = CurrentOwner(Pop)
    BY <2>2, CurrentOwnerType
  <2>5. \/ UNCHANGED <<status, lists>>
        \/ DisposeOn(x, Pop, FALSE) \/ DisposeOn(x, Pop, TRUE)
        \/ p # None /\ ~Dead(p) /\ Adopt(p, x) /\ UNCHANGED status
    BY <1>7, <2>3, <2>4 DEF ScopeReturn, UnwindScope
  <2>6. CASE p # None /\ ~Dead(p) /\ Adopt(p, x) /\ UNCHANGED status
    <3>1. p \in Owners /\ status[p] = "live"
      BY <2>1, <2>4, <2>6, OwnsOutside, CurrentOwnerLives
    <3>2. QED
      BY <1>1, <1>4, <2>6, <3>1, AdoptFills
  <2>7. QED
    BY <1>2, <1>3, <2>5, <2>6
<1>8. CASE \E o \in Scopes : StartScope(o)
  <2>1. PICK o \in Owners : status' = [status EXCEPT ![o] = "live"] /\ UNCHANGED lists
    BY <1>8 DEF StartScope, NewOwner, Owners
  <2>2. \A q \in Owners : status'[q] # "live" => status[q] # "live"
    BY <1>1, <2>1 DEF TypeOK
  <2>3. QED
    BY <2>1, <2>2 DEF OnlyLiveHold, HoldsNothing, lists
<1>9. CASE \E x \in Owners : RunIn(x) \/ Dispose(x) \/ DropUnwinding(x)
  BY <1>2, <1>3, <1>9 DEF RunIn, Dispose, DropUnwinding, tree
<1>10. CASE \E x \in Effects : RunEffect(x)
  BY <1>3, <1>10 DEF RunEffect, Owners, tree
<1>11. CASE DisposeChild
  <2>1. Top.kind \in Kinds /\ Top.children # <<>>
    BY <1>11 DEF DisposeChild, On, Kinds
  <2>2. Last(Top.children) \in Owners
    BY <2>1, TopKnown, FrameType, Shortened
  <2>3. QED
    BY <1>3, <1>11, <2>2 DEF DisposeChild
<1>12. CASE Catch
  <2>1. Top.kind \in {"rerun", "run"} /\ Top.kind \in Kinds
    BY <1>12 DEF Catch, Kinds
  <2>2. Top.owner \in Owners
    BY <2>1, TopKnown DEF FrameFits, Owners
  <2>3. QED
    BY <1>2, <1>3, <1>12, <2>2 DEF Catch
<1>13. CASE Unowned \/ Panic \/ Return
  BY <1>2, <1>13 DEF Unowned, Panic, Return, tree
<1>14. CASE \/ FinishReset \/ Unwind \/ Capture \/ RunCleanup \/ StartBody \/ Handle
  BY <1>2, <1>14 DEF FinishReset, Unwind, Capture, RunCleanup, StartBody, Handle, tree
<1>15. QED
  BY <1>5, <1>6, <1>7, <1>8, <1>9, <1>10, <1>11, <1>12, <1>13, <1>14 DEF Next

(* Nothing is entrusted to an owner after its only teardown: adopt and      *)
(* add_cleanup look whether it is disposed, and what would be left in its   *)
(* lists is disposed of, or called, at once.                                *)
THEOREM DisposedHoldNothingCorrect == Spec => []DisposedHoldNothing
<1>1. Init => FramesExist /\ OnlyLiveHold
  BY DEF Init, FramesExist, OnlyLiveHold, HoldsNothing
<1>2. OwnedInv /\ FramesExist /\ OnlyLiveHold /\ [Next]_vars => FramesExist' /\ OnlyLiveHold'
  <2> SUFFICES ASSUME OwnedInv, FramesExist, OnlyLiveHold, [Next]_vars
               PROVE  FramesExist' /\ OnlyLiveHold'
    OBVIOUS
  <2>1. CASE Next
    BY <2>1, ExistStep, OnlyLiveHoldStep DEF FramesExist, WillExist
  <2>2. CASE UNCHANGED vars
    BY <2>2 DEF vars, tree, lists, control, FramesExist, OnlyLiveHold, HoldsNothing
  <2>3. QED
    BY <2>1, <2>2
<1>3. OnlyLiveHold => DisposedHoldNothing
  BY OwnersAssumption DEF OnlyLiveHold, HoldsNothing, DisposedHoldNothing, Dead
<1>4. QED
  BY <1>1, <1>2, <1>3, OwnedCorrect, PTL DEF Spec

-----------------------------------------------------------------------------
(* The gauges.                                                             *)

(* The entries of one row of a family of lists. *)
LEMMA RowCounts ==
  ASSUME NEW o, NEW n \in Nat
  PROVE  IsFiniteSet({o} \X (1 .. n)) /\ Cardinality({o} \X (1 .. n)) = n
<1>1. IsFiniteSet({o}) /\ Cardinality({o}) = 1
  BY FS_Singleton
<1>2. IsFiniteSet(1 .. n) /\ Cardinality(1 .. n) = n
  BY FS_Interval, 1 \in Int, n \in Int
<1>3. /\ IsFiniteSet({o} \X (1 .. n))
      /\ Cardinality({o} \X (1 .. n)) = Cardinality({o}) * Cardinality(1 .. n)
  BY <1>1, <1>2, FS_Product
<1>4. Cardinality({o} \X (1 .. n)) = 1 * n
  BY <1>1, <1>2, <1>3
<1>5. QED
  BY <1>3, <1>4

(* Replacing one list changes the number of entries by its length. *)
LEMMA RowReplaced ==
  ASSUME NEW S, NEW f \in [Owners -> Seq(S)], IsFiniteSet(Entries(f)),
         NEW o \in Owners, NEW s \in Seq(S)
  PROVE  /\ IsFiniteSet(Entries([f EXCEPT ![o] = s]))
         /\ Cardinality(Entries(f)) \in Nat /\ Len(f[o]) <= Cardinality(Entries(f))
         /\ Cardinality(Entries([f EXCEPT ![o] = s]))
              = Cardinality(Entries(f)) - Len(f[o]) + Len(s)
<1> DEFINE g == [f EXCEPT ![o] = s]
           Old == {o} \X (1 .. Len(f[o]))
           New == {o} \X (1 .. Len(s))
           Rest == Entries(f) \ Old
<1>1. /\ Len(f[o]) \in Nat /\ Len(s) \in Nat
      /\ DOMAIN f = Owners /\ DOMAIN g = Owners
      /\ DOMAIN f[o] = 1 .. Len(f[o]) /\ DOMAIN s = 1 .. Len(s)
      /\ g[o] = s /\ \A q \in Owners \ {o} : g[q] = f[q]
  BY LenProperties
<1>2. IsFiniteSet(Old) /\ Cardinality(Old) = Len(f[o])
  BY <1>1, RowCounts
<1>3. IsFiniteSet(New) /\ Cardinality(New) = Len(s)
  BY <1>1, RowCounts
<1> HIDE DEF g
<1>4. Old \subseteq Entries(f)
  <2>1. {o} \X DOMAIN f[o] \in {{q} \X DOMAIN f[q] : q \in DOMAIN f}
    BY <1>1
  <2>2. QED
    BY <1>1, <2>1 DEF Entries
<1>5. ASSUME NEW x PROVE x \in Entries(f) <=> \E q \in Owners : x \in {q} \X DOMAIN f[q]
  BY <1>1, Zenon DEF Entries
<1>6. ASSUME NEW x PROVE x \in Entries(g) <=> \E q \in Owners : x \in {q} \X DOMAIN g[q]
  BY <1>1, Zenon DEF Entries
<1>7. ASSUME NEW x
      PROVE  x \in Rest <=> \E q \in Owners \ {o} : x \in {q} \X DOMAIN f[q]
  <2>1. x \in Old <=> x \in {o} \X DOMAIN f[o]
    BY <1>1
  <2>2. ASSUME NEW q \in Owners, x \in {q} \X DOMAIN f[q] PROVE x \in {o} \X DOMAIN f[o] <=> q = o
    BY <2>2
  <2>3. QED
    BY <1>5, <2>1, <2>2
<1>8. ASSUME NEW x
      PROVE  x \in Entries(g) <=> x \in Rest \/ x \in New
  <2>1. x \in New <=> x \in {o} \X DOMAIN g[o]
    BY <1>1
  <2>2. \A q \in Owners \ {o} : {q} \X DOMAIN f[q] = {q} \X DOMAIN g[q]
    BY <1>1
  <2>3. x \in Rest <=> \E q \in Owners \ {o} : x \in {q} \X DOMAIN g[q]
    BY <1>7, <2>2
  <2>4. QED
    BY <1>6, <2>1, <2>3
<1>9. Rest \cap New = {}
  <2> SUFFICES ASSUME NEW x, x \in Rest, x \in New PROVE FALSE
    OBVIOUS
  <2>1. PICK q \in Owners \ {o} : x \in {q} \X DOMAIN f[q]
    BY <1>7
  <2>2. QED
    BY <2>1
<1>10. Entries(g) = Rest \cup New
  BY <1>8
<1> HIDE DEF Old, New
<1>11. IsFiniteSet(Rest) /\ Cardinality(Rest) = Cardinality(Entries(f)) - Len(f[o])
  <2>1. Entries(f) \cap Old = Old
    BY <1>4
  <2>2. /\ IsFiniteSet(Entries(f) \ Old)
        /\ Cardinality(Entries(f) \ Old) = Cardinality(Entries(f)) - Cardinality(Entries(f) \cap Old)
    BY FS_Difference
  <2>3. QED
    BY <1>2, <2>1, <2>2
<1>12. Cardinality(Rest) \in Nat /\ Cardinality(Entries(f)) \in Nat
  BY <1>11, FS_CardinalityType
<1>13. /\ IsFiniteSet(Entries(g))
       /\ Cardinality(Entries(g)) = Cardinality(Rest) + Cardinality(New) - Cardinality({})
  <2> HIDE DEF Rest
  <2>1. /\ IsFiniteSet(Rest \cup New)
        /\ Cardinality(Rest \cup New) = Cardinality(Rest) + Cardinality(New) - Cardinality(Rest \cap New)
    BY <1>3, <1>11, FS_Union
  <2>2. QED
    BY <1>9, <1>10, <2>1
<1>14. Cardinality({}) = 0
  BY FS_EmptySet
<1>15. Len(f[o]) <= Cardinality(Entries(f))
  BY <1>1, <1>11, <1>12
<1>16. Cardinality(Entries(g)) = Cardinality(Entries(f)) - Len(f[o]) + Len(s)
  BY <1>1, <1>3, <1>11, <1>12, <1>13, <1>14
<1>17. QED
  BY <1>12, <1>13, <1>15, <1>16 DEF g

(* What was taken from the lists is taken from the gauges.                  *)
LEMMA ResetCounts ==
  ASSUME TypeOK, GaugesCount, NEW o \in Owners, NEW s, NEW u, Reset(o, s, u)
  PROVE  GaugesCount'
<1>1. /\ children \in [Owners -> Seq(Owners)] /\ cleanups \in [Owners -> Seq(Cleanups)]
      /\ <<>> \in Seq(Owners) /\ <<>> \in Seq(Cleanups) /\ Len(<<>>) = 0
      /\ Len(children[o]) \in Nat /\ Len(cleanups[o]) \in Nat
  BY EmptySeq DEF TypeOK
<1>2. /\ children' = [children EXCEPT ![o] = <<>>]
      /\ cleanups' = [cleanups EXCEPT ![o] = <<>>]
      /\ owned_children' = Minus(owned_children, Len(children[o]))
      /\ cleanup_registrations' = Minus(cleanup_registrations, Len(cleanups[o]))
  BY DEF Reset, cleanups_taken, children_taken
<1>3. /\ IsFiniteSet(Entries(children)) /\ owned_children = Cardinality(Entries(children))
      /\ IsFiniteSet(Entries(cleanups)) /\ cleanup_registrations = Cardinality(Entries(cleanups))
  BY DEF GaugesCount
<1>4. /\ IsFiniteSet(Entries(children')) /\ Len(children[o]) <= owned_children
      /\ Cardinality(Entries(children')) = owned_children - Len(children[o]) + 0
      /\ owned_children \in Nat
  BY <1>1, <1>2, <1>3, RowReplaced
<1>5. /\ IsFiniteSet(Entries(cleanups')) /\ Len(cleanups[o]) <= cleanup_registrations
      /\ Cardinality(Entries(cleanups')) = cleanup_registrations - Len(cleanups[o]) + 0
      /\ cleanup_registrations \in Nat
  BY <1>1, <1>2, <1>3, RowReplaced
<1>6. owned_children' = Cardinality(Entries(children'))
  BY <1>1, <1>2, <1>4 DEF Minus
<1>7. cleanup_registrations' = Cardinality(Entries(cleanups'))
  BY <1>1, <1>2, <1>5 DEF Minus
<1>8. QED
  BY <1>4, <1>5, <1>6, <1>7 DEF GaugesCount

(* A sweep tells the gauge how many it released. *)
LEMMA AdoptCounts ==
  ASSUME TypeOK, GaugesCount, NEW p \in Owners, NEW c \in Owners, Adopt(p, c)
  PROVE  GaugesCount'
<1>1. PICK kept \in Seq(Owners) :
        /\ Len(kept) <= Len(children[p])
        /\ children' = [children EXCEPT ![p] = Append(kept, c)]
        /\ owned_children' =
             child_adopted(children_taken(owned_children, Len(children[p]) - Len(kept)))
  BY AdoptAppends
<1>2. /\ children \in [Owners -> Seq(Owners)]
      /\ Len(children[p]) \in Nat /\ Len(kept) \in Nat
  BY DEF TypeOK
<1>s. PICK s \in Seq(Owners) : s = Append(kept, c) /\ Len(s) = Len(kept) + 1
  BY Appended
<1>3. IsFiniteSet(Entries(children)) /\ owned_children = Cardinality(Entries(children))
  BY DEF GaugesCount
<1>4. /\ IsFiniteSet(Entries(children')) /\ Len(children[p]) <= owned_children
      /\ Cardinality(Entries(children')) = owned_children - Len(children[p]) + (Len(kept) + 1)
      /\ owned_children \in Nat
  <2>1. children' = [children EXCEPT ![p] = s]
    BY <1>1, <1>s
  <2>2. /\ IsFiniteSet(Entries([children EXCEPT ![p] = s]))
        /\ Cardinality(Entries(children)) \in Nat
        /\ Len(children[p]) <= Cardinality(Entries(children))
        /\ Cardinality(Entries([children EXCEPT ![p] = s]))
             = Cardinality(Entries(children)) - Len(children[p]) + Len(s)
    BY <1>2, <1>3, <1>s, RowReplaced
  <2>3. QED
    BY <1>3, <1>s, <2>1, <2>2
<1>5. owned_children' = Cardinality(Entries(children'))
  BY <1>1, <1>2, <1>4 DEF Minus, child_adopted, children_taken
<1>6. UNCHANGED <<cleanups, cleanup_registrations>>
  BY DEF Adopt
<1>7. QED
  BY <1>4, <1>5, <1>6 DEF GaugesCount

LEMMA CleanupCounts ==
  ASSUME TypeOK, GaugesCount, NEW p \in Owners, NEW c \in Cleanups,
         cleanups' = [cleanups EXCEPT ![p] = Append(@, c)],
         cleanup_registrations' = cleanup_registered(cleanup_registrations),
         UNCHANGED <<children, owned_children>>
  PROVE  GaugesCount'
<1>1. /\ cleanups \in [Owners -> Seq(Cleanups)]
      /\ cleanups[p] \in Seq(Cleanups) /\ Len(cleanups[p]) \in Nat
  BY DEF TypeOK
<1>s. PICK s \in Seq(Cleanups) : s = Append(cleanups[p], c)
  BY <1>1, Appended
<1>l. Len(s) = Len(cleanups[p]) + 1
  BY <1>1, <1>s, Appended
<1>2. IsFiniteSet(Entries(cleanups)) /\ cleanup_registrations = Cardinality(Entries(cleanups))
  BY DEF GaugesCount
<1>3. cleanups' = [cleanups EXCEPT ![p] = s]
  BY <1>s
<1>4. /\ IsFiniteSet(Entries(cleanups'))
      /\ Cardinality(Entries(cleanups'))
           = cleanup_registrations - Len(cleanups[p]) + (Len(cleanups[p]) + 1)
      /\ cleanup_registrations \in Nat
  <2>1. /\ IsFiniteSet(Entries([cleanups EXCEPT ![p] = s]))
        /\ Cardinality(Entries(cleanups)) \in Nat
        /\ Cardinality(Entries([cleanups EXCEPT ![p] = s]))
             = Cardinality(Entries(cleanups)) - Len(cleanups[p]) + Len(s)
    BY <1>1, <1>2, <1>s, RowReplaced
  <2>2. QED
    BY <1>2, <1>3, <1>l, <2>1
<1>5. cleanup_registrations' = Cardinality(Entries(cleanups'))
  BY <1>1, <1>4 DEF cleanup_registered
<1>6. QED
  BY <1>4, <1>5 DEF GaugesCount

LEMMA CountsStep ==
  ASSUME OwnedInv, GaugesCount, Next
  PROVE  GaugesCount'
<1>1. TypeOK /\ stack \in Seq(Frames)
  BY DEF OwnedInv, TypeOK
<1>2. ASSUME UNCHANGED <<lists, gauges>> PROVE GaugesCount'
  BY <1>2 DEF GaugesCount, lists, gauges
<1>3. ASSUME NEW o \in Owners, NEW s, NEW u, DisposeOn(o, s, u) \/ Reset(o, s, u)
      PROVE  GaugesCount'
  BY <1>1, <1>2, <1>3, ResetCounts DEF DisposeOn
<1>4. CASE OnCleanup
  <2>1. PICK p \in Owners \cup {None} : p = CurrentOwner(stack)
    BY <1>1, CurrentOwnerType
  <2>2. CASE UNCHANGED <<lists, gauges>>
    BY <1>2, <2>2
  <2>3. CASE ~UNCHANGED <<lists, gauges>>
    <3>1. /\ p # None /\ known < MaxCleanups
          /\ cleanups' = [cleanups EXCEPT ![p] = Append(@, known + 1)]
          /\ cleanup_registrations' = cleanup_registered(cleanup_registrations)
          /\ UNCHANGED <<children, owned_children>>
      BY <1>4, <2>1, <2>3 DEF OnCleanup, AddCleanup
    <3>2. PICK c \in Cleanups : c = known + 1
      BY <1>1, <3>1, BoundsAssumption DEF TypeOK, Cleanups
    <3>3. QED
      BY <1>1, <2>1, <3>1, <3>2, CleanupCounts
  <2>4. QED
    BY <2>2, <2>3
<1>5. CASE \E e \in Effects : CreateEffect(e)
  <2>1. PICK p \in Owners \cup {None} : p = CurrentOwner(stack)
    BY <1>1, CurrentOwnerType
  <2>2. PICK e \in Owners : UNCHANGED <<lists, gauges>> \/ (p # None /\ Adopt(p, e))
    BY <1>5, <2>1 DEF CreateEffect, Owners
  <2>3. QED
    BY <1>1, <1>2, <2>1, <2>2, AdoptCounts
<1>6. CASE ScopeReturn \/ UnwindScope
  <2>1. Top.kind = "scope" /\ Top.kind \in Kinds
    BY <1>6 DEF ScopeReturn, UnwindScope, On, Kinds
  <2>2. Pop \in Seq(Frames) /\ FrameFits(Top)
    BY <2>1, TopKnown
  <2>3. PICK x \in Owners : x = Top.owner
    BY <2>1, <2>2 DEF FrameFits, Owners
  <2>4. PICK p \in Owners \cup {None} : p = CurrentOwner(Pop)
    BY <2>2, CurrentOwnerType
  <2>5. \/ UNCHANGED <<lists, gauges>>
        \/ DisposeOn(x, Pop, FALSE) \/ DisposeOn(x, Pop, TRUE)
        \/ p # None /\ Adopt(p, x)
    BY <1>6, <2>3, <2>4 DEF ScopeReturn, UnwindScope
  <2>6. QED
    BY <1>1, <1>2, <1>3, <2>4, <2>5, AdoptCounts
<1>7. CASE \E x \in Owners : RunIn(x) \/ Dispose(x) \/ DropUnwinding(x)
  BY <1>2, <1>3, <1>7 DEF RunIn, Dispose, DropUnwinding
<1>8. CASE \E x \in Effects : RunEffect(x)
  BY <1>3, <1>8 DEF RunEffect, Owners
<1>9. CASE DisposeChild
  <2>1. Top.kind \in Kinds /\ Top.children # <<>>
    BY <1>9 DEF DisposeChild, On, Kinds
  <2>2. Last(Top.children) \in Owners
    BY <2>1, TopKnown, FrameType, Shortened
  <2>3. QED
    BY <1>3, <1>9, <2>2 DEF DisposeChild
<1>10. CASE Catch
  <2>1. Top.kind \in {"rerun", "run"} /\ Top.kind \in Kinds
    BY <1>10 DEF Catch, Kinds
  <2>2. Top.owner \in Owners
    BY <2>1, TopKnown DEF FrameFits, Owners
  <2>3. QED
    BY <1>2, <1>3, <1>10, <2>2 DEF Catch
<1>11. CASE \/ \E x \in Scopes : StartScope(x)
            \/ Unowned \/ Panic \/ Return
  BY <1>2, <1>11 DEF StartScope, Unowned, Panic, Return
<1>12. CASE \/ FinishReset \/ Unwind \/ Capture \/ RunCleanup \/ StartBody \/ Handle
  BY <1>2, <1>12 DEF FinishReset, Unwind, Capture, RunCleanup, StartBody, Handle
<1>13. QED
  BY <1>4, <1>5, <1>6, <1>7, <1>8, <1>9, <1>10, <1>11, <1>12 DEF Next

(* The gauges of ownership.rs agree with the lists in every state, sweeps   *)
(* and teardowns under way included: no saturating_sub ever saturates.      *)
THEOREM GaugesMatchCorrect == Spec => []GaugesMatch
<1>1. Init => GaugesCount
  <2> SUFFICES ASSUME Init PROVE GaugesCount
    OBVIOUS
  <2>1. children = [o \in Owners |-> <<>>] /\ cleanups = [o \in Owners |-> <<>>]
        /\ owned_children = 0 /\ cleanup_registrations = 0
    BY DEF Init
  <2>2. \A o \in Owners : {o} \X DOMAIN children[o] = {} /\ {o} \X DOMAIN cleanups[o] = {}
    BY <2>1
  <2>3. Entries(children) = {} /\ Entries(cleanups) = {}
    BY <2>1, <2>2 DEF Entries
  <2>4. QED
    BY <2>1, <2>3, FS_EmptySet DEF GaugesCount
<1>2. OwnedInv /\ GaugesCount /\ [Next]_vars => GaugesCount'
  <2> SUFFICES ASSUME OwnedInv, GaugesCount, [Next]_vars PROVE GaugesCount'
    OBVIOUS
  <2>1. CASE Next
    BY <2>1, CountsStep
  <2>2. CASE UNCHANGED vars
    BY <2>2 DEF vars, lists, gauges, GaugesCount
  <2>3. QED
    BY <2>1, <2>2
<1>3. GaugesCount => GaugesMatch
  BY DEF GaugesCount, GaugesMatch, audit_ownership
<1>4. QED
  BY <1>1, <1>2, <1>3, OwnedCorrect, PTL DEF Spec

-----------------------------------------------------------------------------
(* How often a cleanup occurs.                                             *)

LEMMA TimesType ==
  ASSUME NEW S, NEW s \in Seq(S), NEW c
  PROVE  IsFiniteSet({i \in DOMAIN s : s[i] = c}) /\ Times(c, s) \in Nat
<1>1. DOMAIN s = 1 .. Len(s) /\ Len(s) \in Nat
  BY LenProperties
<1>2. IsFiniteSet(DOMAIN s)
  BY <1>1, FS_Interval, 1 \in Int, Len(s) \in Int
<1>3. {i \in DOMAIN s : s[i] = c} \in SUBSET DOMAIN s
  OBVIOUS
<1>4. QED
  BY <1>2, <1>3, FS_Subset, FS_CardinalityType DEF Times

LEMMA TimesNone == \A c : Times(c, <<>>) = 0
<1>1. \A c : {i \in DOMAIN <<>> : <<>>[i] = c} = {}
  OBVIOUS
<1>2. QED
  BY <1>1, FS_EmptySet DEF Times

LEMMA TimesAppended ==
  ASSUME NEW S, NEW s \in Seq(S), NEW x \in S, NEW c
  PROVE  Times(c, Append(s, x)) = Times(c, s) + (IF x = c THEN 1 ELSE 0)
<1> DEFINE A == {i \in DOMAIN s : s[i] = c}
           B == {i \in DOMAIN Append(s, x) : Append(s, x)[i] = c}
           n == Len(s) + 1
<1>1. /\ DOMAIN Append(s, x) = 1 .. n /\ DOMAIN s = 1 .. Len(s) /\ Len(s) \in Nat
      /\ \A i \in 1 .. Len(s) : Append(s, x)[i] = s[i]
      /\ Append(s, x)[n] = x
  BY Appended
<1>2. IsFiniteSet(A) /\ Cardinality(A) \in Nat
  BY TimesType DEF Times
<1>3. \A i \in 1 .. n : i \in 1 .. Len(s) \/ i = n
  BY <1>1
<1>4. n \notin DOMAIN s /\ n \in 1 .. n /\ \A i \in 1 .. Len(s) : i \in 1 .. n
  BY <1>1
<1> HIDE DEF n
<1>5. CASE x = c
  <2>1. B = A \cup {n}
    BY <1>1, <1>3, <1>4, <1>5
  <2>2. n \notin A
    BY <1>4
  <2> HIDE DEF A, B
  <2>3. Cardinality(A \cup {n}) = Cardinality(A) + 1
    BY <1>2, <2>2, FS_AddElement
  <2>4. QED
    BY <1>5, <2>1, <2>3 DEF Times, A, B
<1>6. CASE x # c
  <2>1. B = A
    BY <1>1, <1>3, <1>4, <1>6
  <2>2. Times(c, s) = Cardinality(A) /\ Times(c, Append(s, x)) = Cardinality(B)
    BY DEF Times
  <2> HIDE DEF A, B
  <2>3. QED
    BY <1>2, <1>6, <2>1, <2>2
<1>7. QED
  BY <1>5, <1>6

(* Two families of lists that differ only in the row o, which is s in one   *)
(* and t in the other: a row that is not there counts as empty.             *)
IsRow(f, o, s) == IF o \in DOMAIN f THEN f[o] = s ELSE s = <<>>
SameElsewhere(f, g, o) ==
  /\ \A q \in DOMAIN f : q # o => q \in DOMAIN g /\ g[q] = f[q]
  /\ \A q \in DOMAIN g : q # o => q \in DOMAIN f

Placed(c, o, s) == {o} \X {i \in DOMAIN s : s[i] = c}

LEMMA SpotsOfRow ==
  ASSUME NEW S, NEW f, NEW o, NEW s \in Seq(S), IsRow(f, o, s), NEW c
  PROVE  /\ Placed(c, o, s) \subseteq Spots(c, f)
         /\ IsFiniteSet(Placed(c, o, s)) /\ Cardinality(Placed(c, o, s)) = Times(c, s)
         /\ Times(c, s) \in Nat
         /\ \A x : x \in Spots(c, f) \ Placed(c, o, s) <=>
              \E q \in DOMAIN f : q # o /\ x \in Placed(c, q, f[q])
<1> DEFINE Row(q) == {q} \X {i \in DOMAIN f[q] : f[q][i] = c}
           I == {i \in DOMAIN s : s[i] = c}
           row == {o} \X I
<1>0. row = Placed(c, o, s) /\ \A q : Row(q) = Placed(c, q, f[q])
  BY DEF Placed
<1>1. IsFiniteSet(I) /\ Cardinality(I) = Times(c, s) /\ Times(c, s) \in Nat
  BY TimesType DEF Times
<1>2. IsFiniteSet({o}) /\ Cardinality({o}) = 1
  BY FS_Singleton
<1>3. IsFiniteSet(row) /\ Cardinality(row) = Times(c, s)
  <2> HIDE DEF I
  <2>1. IsFiniteSet({o} \X I) /\ Cardinality({o} \X I) = Cardinality({o}) * Cardinality(I)
    BY <1>1, <1>2, FS_Product
  <2>2. Cardinality({o} \X I) = 1 * Times(c, s)
    BY <1>1, <1>2, <2>1
  <2>3. QED
    BY <1>1, <2>1, <2>2
<1>4. \A x : x \in Spots(c, f) <=> \E q \in DOMAIN f : x \in Row(q)
  <2> SUFFICES ASSUME NEW x PROVE x \in Spots(c, f) <=> \E q \in DOMAIN f : x \in Row(q)
    OBVIOUS
  <2>1. x \in Entries(f) <=> \E q \in DOMAIN f : x \in {q} \X DOMAIN f[q]
    BY Zenon DEF Entries
  <2>2. ASSUME NEW q \in DOMAIN f
        PROVE  x \in Row(q) <=> x \in {q} \X DOMAIN f[q] /\ f[x[1]][x[2]] = c
    <3>1. ASSUME NEW i \in DOMAIN f[q], x = <<q, i>>
          PROVE  x \in Row(q) <=> f[x[1]][x[2]] = c
      BY <3>1
    <3>2. x \in {q} \X DOMAIN f[q] => \E i \in DOMAIN f[q] : x = <<q, i>>
      OBVIOUS
    <3>3. x \in Row(q) => x \in {q} \X DOMAIN f[q]
      OBVIOUS
    <3>4. QED
      BY <3>1, <3>2, <3>3
  <2> HIDE DEF Row
  <2>3. QED
    BY <2>1, <2>2 DEF Spots
<1>5. CASE o \in DOMAIN f
  <2>1. row = Row(o)
    BY <1>5 DEF IsRow
  <2>2. row \subseteq Spots(c, f)
    BY <1>4, <1>5, <2>1
  <2>3. ASSUME NEW q, NEW x, x \in Row(q) PROVE x \in row <=> q = o
    <3>1. x[1] = q /\ x \in Row(q)
      BY <2>3
    <3>2. x \in row => x[1] = o
      OBVIOUS
    <3>3. QED
      BY <2>1, <3>1, <3>2
  <2>4. \A x : x \in Spots(c, f) \ row <=> \E q \in DOMAIN f : q # o /\ x \in Row(q)
    BY <1>4, <2>3
  <2> HIDE DEF row, Row
  <2>5. QED
    BY <1>0, <1>1, <1>3, <2>2, <2>4
<1>6. CASE o \notin DOMAIN f
  <2>1. row = {}
    BY <1>6 DEF IsRow
  <2>2. \A x : x \in Spots(c, f) \ row <=> \E q \in DOMAIN f : q # o /\ x \in Row(q)
    BY <1>4, <1>6, <2>1
  <2> HIDE DEF row, Row
  <2>3. QED
    BY <1>0, <1>1, <1>3, <2>1, <2>2
<1>7. QED
  BY <1>5, <1>6

LEMMA SpotsReplaced ==
  ASSUME NEW S, NEW f, NEW g, NEW o, NEW s \in Seq(S), NEW t \in Seq(S), NEW c,
         IsRow(f, o, s), IsRow(g, o, t), SameElsewhere(f, g, o), IsFiniteSet(Spots(c, f))
  PROVE  /\ IsFiniteSet(Spots(c, g))
         /\ Cardinality(Spots(c, g)) = Cardinality(Spots(c, f)) - Times(c, s) + Times(c, t)
<1> DEFINE Row(h, q) == Placed(c, q, h[q])
           old == Placed(c, o, s)
           new == Placed(c, o, t)
           F == Spots(c, f)
           G == Spots(c, g)
<1>1. /\ old \subseteq F /\ Cardinality(old) = Times(c, s) /\ Times(c, s) \in Nat
      /\ \A x : x \in F \ old <=> \E q \in DOMAIN f : q # o /\ x \in Row(f, q)
  BY SpotsOfRow
<1>2. /\ new \subseteq G /\ IsFiniteSet(new) /\ Cardinality(new) = Times(c, t) /\ Times(c, t) \in Nat
      /\ \A x : x \in G \ new <=> \E q \in DOMAIN g : q # o /\ x \in Row(g, q)
  BY SpotsOfRow
<1>3. \A q : q # o => (q \in DOMAIN f <=> q \in DOMAIN g) /\ (q \in DOMAIN f => g[q] = f[q])
  BY DEF SameElsewhere
<1>4. \A q \in DOMAIN f : q # o => Row(f, q) = Row(g, q)
  BY <1>3
<1> HIDE DEF Row, old, new, F, G
<1>5. F \ old = G \ new
  BY <1>1, <1>2, <1>3, <1>4
<1> DEFINE R == F \ old
<1>6. R \cap new = {} /\ G = R \cup new /\ F \cap old = old
  BY <1>1, <1>2, <1>5
<1>7. IsFiniteSet(F)
  BY DEF F
<1>8. IsFiniteSet(R) /\ Cardinality(R) = Cardinality(F) - Times(c, s)
  <2>1. IsFiniteSet(F \ old) /\ Cardinality(F \ old) = Cardinality(F) - Cardinality(F \cap old)
    BY <1>7, FS_Difference
  <2>2. QED
    BY <1>1, <1>6, <2>1
<1> HIDE DEF R
<1>9. /\ IsFiniteSet(R \cup new)
      /\ Cardinality(R \cup new) = Cardinality(R) + Cardinality(new) - Cardinality(R \cap new)
  BY <1>2, <1>8, FS_Union
<1>10. /\ Cardinality(R \cap new) = 0 /\ Cardinality(R) \in Nat /\ Cardinality(F) \in Nat
  BY <1>6, <1>7, <1>8, FS_EmptySet, FS_CardinalityType
<1>11. IsFiniteSet(G) /\ Cardinality(G) = Cardinality(F) - Times(c, s) + Times(c, t)
  BY <1>1, <1>2, <1>6, <1>8, <1>9, <1>10
<1>12. QED
  BY <1>11 DEF F, G

-----------------------------------------------------------------------------
(* Cleanups on the stack.                                                  *)

(* In the stack s the teardowns hold what they hold now. *)
SameTaken(s) ==
  \A c \in Cleanups : /\ IsFiniteSet(TakenSpots(c, s))
                      /\ Cardinality(TakenSpots(c, s)) = Cardinality(TakenSpots(c, stack))

LEMMA TakenPush ==
  ASSUME NEW s \in Seq(Frames), NEW f \in Frames, NEW c, IsFiniteSet(TakenSpots(c, s))
  PROVE  /\ IsFiniteSet(TakenSpots(c, Append(s, f)))
         /\ Cardinality(TakenSpots(c, Append(s, f)))
              = Cardinality(TakenSpots(c, s)) + Times(c, f.cleanups)
         /\ Times(c, f.cleanups) \in Nat /\ Cardinality(TakenSpots(c, s)) \in Nat
<1> DEFINE t == Append(s, f)
           n == Len(s) + 1
           F == TakenBy(s)
           G == TakenBy(t)
<1>1. /\ DOMAIN t = 1 .. n /\ DOMAIN s = 1 .. Len(s) /\ Len(s) \in Nat
      /\ \A i \in 1 .. Len(s) : t[i] = s[i]
      /\ t[n] = f
  BY Appended
<1>2. n \notin DOMAIN s /\ n \in DOMAIN t /\ \A i \in DOMAIN t : i # n => i \in DOMAIN s
  BY <1>1
<1>3. \A i \in DOMAIN s : i \in DOMAIN t /\ t[i] = s[i]
  BY <1>1
<1> HIDE DEF t, n
<1>4. /\ DOMAIN F = DOMAIN s /\ DOMAIN G = DOMAIN t
      /\ \A i \in DOMAIN s : F[i] = s[i].cleanups
      /\ \A i \in DOMAIN t : G[i] = t[i].cleanups
  BY DEF TakenBy
<1> HIDE DEF F, G
<1>5. PICK l \in Seq(Cleanups), e \in Seq(Cleanups) : l = f.cleanups /\ e = <<>>
  BY FrameType, EmptySeq
<1>6. IsRow(F, n, e) /\ IsRow(G, n, l) /\ SameElsewhere(F, G, n)
  BY <1>1, <1>2, <1>3, <1>4, <1>5 DEF IsRow, SameElsewhere
<1>7. IsFiniteSet(Spots(c, F))
  BY DEF TakenSpots, F
<1>8. /\ IsFiniteSet(Spots(c, G))
      /\ Cardinality(Spots(c, G)) = Cardinality(Spots(c, F)) - Times(c, e) + Times(c, l)
  BY <1>6, <1>7, SpotsReplaced
<1>9. Times(c, l) \in Nat /\ Times(c, e) = 0 /\ Cardinality(Spots(c, F)) \in Nat
  BY <1>5, <1>7, TimesType, TimesNone, FS_CardinalityType
<1>10. QED
  BY <1>5, <1>8, <1>9 DEF TakenSpots, F, G, t

LEMMA TakenPop ==
  ASSUME NEW s \in Seq(Frames), s # <<>>, NEW c, IsFiniteSet(TakenSpots(c, s))
  PROVE  /\ IsFiniteSet(TakenSpots(c, Front(s)))
         /\ Cardinality(TakenSpots(c, s))
              = Cardinality(TakenSpots(c, Front(s))) + Times(c, Last(s).cleanups)
         /\ Times(c, Last(s).cleanups) \in Nat
         /\ Cardinality(TakenSpots(c, Front(s))) \in Nat
<1>1. /\ Front(s) \in Seq(Frames) /\ Last(s) \in Frames /\ Len(s) \in Nat \ {0}
      /\ DOMAIN Front(s) = 1 .. Len(s) - 1 /\ DOMAIN s = 1 .. Len(s)
      /\ \A i \in 1 .. Len(s) - 1 : Front(s)[i] = s[i]
  BY Shortened
<1>2. IsFiniteSet(TakenSpots(c, Front(s)))
  <2>1. /\ DOMAIN TakenBy(s) = DOMAIN s /\ DOMAIN TakenBy(Front(s)) = DOMAIN Front(s)
        /\ \A i \in DOMAIN Front(s) : i \in DOMAIN s /\ TakenBy(Front(s))[i] = TakenBy(s)[i]
    BY <1>1 DEF TakenBy
  <2>2. TakenSpots(c, Front(s)) \subseteq TakenSpots(c, s)
    <3> SUFFICES ASSUME NEW x \in TakenSpots(c, Front(s)) PROVE x \in TakenSpots(c, s)
      OBVIOUS
    <3>1. PICK i \in DOMAIN Front(s) : x \in {i} \X DOMAIN TakenBy(Front(s))[i]
      BY <2>1 DEF TakenSpots, Spots, Entries
    <3>2. TakenBy(Front(s))[x[1]][x[2]] = c
      BY DEF TakenSpots, Spots
    <3>3. x[1] = i
      BY <3>1
    <3>4. x \in {i} \X DOMAIN TakenBy(s)[i] /\ TakenBy(s)[x[1]][x[2]] = c /\ i \in DOMAIN s
      BY <2>1, <3>1, <3>2, <3>3
    <3>5. QED
      BY <2>1, <3>4 DEF TakenSpots, Spots, Entries
  <2>3. QED
    BY <2>2, FS_Subset
<1>3. s = Append(Front(s), Last(s))
  BY FrontAndLast
<1>4. QED
  BY <1>1, <1>2, <1>3, TakenPush

LEMMA SamePush ==
  ASSUME NEW s \in Seq(Frames), NEW f \in Frames, SameTaken(s), f.cleanups = <<>>
  PROVE  SameTaken(Append(s, f))
<1> SUFFICES ASSUME NEW c \in Cleanups
             PROVE  /\ IsFiniteSet(TakenSpots(c, Append(s, f)))
                    /\ Cardinality(TakenSpots(c, Append(s, f))) = Cardinality(TakenSpots(c, stack))
  BY DEF SameTaken
<1>1. /\ IsFiniteSet(TakenSpots(c, Append(s, f)))
      /\ Cardinality(TakenSpots(c, Append(s, f))) = Cardinality(TakenSpots(c, s)) + Times(c, f.cleanups)
      /\ Cardinality(TakenSpots(c, s)) \in Nat
  BY TakenPush DEF SameTaken
<1>2. Times(c, f.cleanups) = 0
  BY TimesNone
<1>3. QED
  BY <1>1, <1>2 DEF SameTaken

LEMMA SamePop ==
  ASSUME TypeOK, CountedOnce, ~Idle
  PROVE  /\ Top.cleanups = <<>> => SameTaken(Pop)
         /\ \A g \in Frames : g.cleanups = Top.cleanups => SameTaken(Append(Pop, g))
<1>1. /\ stack \in Seq(Frames) /\ stack # <<>> /\ Pop = Front(stack) /\ Top = Last(stack)
      /\ Pop \in Seq(Frames)
  BY TopType DEF TypeOK
<1>2. ASSUME NEW c \in Cleanups
      PROVE  /\ IsFiniteSet(TakenSpots(c, Pop))
             /\ Cardinality(TakenSpots(c, stack)) = Cardinality(TakenSpots(c, Pop)) + Times(c, Top.cleanups)
             /\ Times(c, Top.cleanups) \in Nat /\ Cardinality(TakenSpots(c, Pop)) \in Nat
  BY <1>1, TakenPop DEF CountedOnce
<1>3. ASSUME Top.cleanups = <<>> PROVE SameTaken(Pop)
  <2> SUFFICES ASSUME NEW c \in Cleanups
               PROVE  /\ IsFiniteSet(TakenSpots(c, Pop))
                      /\ Cardinality(TakenSpots(c, Pop)) = Cardinality(TakenSpots(c, stack))
    BY DEF SameTaken
  <2>1. Times(c, Top.cleanups) = 0
    BY <1>3, TimesNone
  <2>2. QED
    BY <1>2, <2>1
<1>4. ASSUME NEW g \in Frames, g.cleanups = Top.cleanups PROVE SameTaken(Append(Pop, g))
  <2> SUFFICES ASSUME NEW c \in Cleanups
               PROVE  /\ IsFiniteSet(TakenSpots(c, Append(Pop, g)))
                      /\ Cardinality(TakenSpots(c, Append(Pop, g))) = Cardinality(TakenSpots(c, stack))
    BY DEF SameTaken
  <2>1. /\ IsFiniteSet(TakenSpots(c, Append(Pop, g)))
        /\ Cardinality(TakenSpots(c, Append(Pop, g))) = Cardinality(TakenSpots(c, Pop)) + Times(c, g.cleanups)
    BY <1>1, <1>2, TakenPush
  <2>2. QED
    BY <1>2, <1>4, <2>1
<1>5. QED
  BY <1>3, <1>4

(* A step that moves nothing, and a disposal. *)
LEMMA CountedKeeps ==
  ASSUME TypeOK, CountedOnce, NEW s \in Seq(Frames), SameTaken(s), stack' = s,
         UNCHANGED <<cleanups, history>>
  PROVE  CountedOnce'
<1> SUFFICES ASSUME NEW c \in Cleanups
             PROVE  /\ IsFiniteSet(Spots(c, cleanups')) /\ IsFiniteSet(TakenSpots(c, stack'))
                    /\ ran'[c] + Cardinality(Spots(c, cleanups')) + Cardinality(TakenSpots(c, stack'))
                         = IF c <= known' THEN 1 ELSE 0
  BY DEF CountedOnce
<1>1. UNCHANGED <<cleanups, known, ran>>
  BY DEF history
<1>2. IsFiniteSet(TakenSpots(c, stack')) /\ Cardinality(TakenSpots(c, stack')) = Cardinality(TakenSpots(c, stack))
  BY DEF SameTaken
<1>3. QED
  BY <1>1, <1>2 DEF CountedOnce

LEMMA CountedDisposal ==
  ASSUME TypeOK, CountedOnce, NEW o \in Owners, NEW s \in Seq(Frames), SameTaken(s),
         NEW u \in BOOLEAN, DisposeOn(o, s, u) \/ Reset(o, s, u), UNCHANGED history
  PROVE  CountedOnce'
<1>1. CASE stack' = s /\ UNCHANGED lists
  BY <1>1, CountedKeeps DEF lists
<1>2. CASE Reset(o, s, u)
  <2> SUFFICES ASSUME NEW c \in Cleanups
               PROVE  /\ IsFiniteSet(Spots(c, cleanups')) /\ IsFiniteSet(TakenSpots(c, stack'))
                      /\ ran'[c] + Cardinality(Spots(c, cleanups')) + Cardinality(TakenSpots(c, stack'))
                           = IF c <= known' THEN 1 ELSE 0
    BY DEF CountedOnce
  <2>1. PICK f \in Frames : stack' = Append(s, f) /\ f.cleanups = cleanups[o]
    BY <1>2, ResetPushes, Zenon
  <2>2. PICK l \in Seq(Cleanups) : l = cleanups[o]
    BY DEF TypeOK
  <2>3. /\ IsFiniteSet(TakenSpots(c, stack'))
        /\ Cardinality(TakenSpots(c, stack')) = Cardinality(TakenSpots(c, s)) + Times(c, l)
        /\ Times(c, l) \in Nat /\ Cardinality(TakenSpots(c, s)) \in Nat
    BY <2>1, <2>2, TakenPush DEF SameTaken
  <2>4. /\ IsFiniteSet(Spots(c, cleanups')) /\ Cardinality(Spots(c, cleanups)) \in Nat
        /\ Cardinality(Spots(c, cleanups')) = Cardinality(Spots(c, cleanups)) - Times(c, l) + Times(c, <<>>)
    <3>1. cleanups' = [cleanups EXCEPT ![o] = <<>>] /\ DOMAIN cleanups = Owners
      BY <1>2 DEF Reset, TypeOK
    <3>2. PICK e \in Seq(Cleanups) : e = <<>>
      BY EmptySeq
    <3>3. IsRow(cleanups, o, l) /\ IsRow(cleanups', o, e) /\ SameElsewhere(cleanups, cleanups', o)
      BY <2>2, <3>1, <3>2 DEF IsRow, SameElsewhere
    <3>4. IsFiniteSet(Spots(c, cleanups))
      BY DEF CountedOnce
    <3>5. /\ IsFiniteSet(Spots(c, cleanups'))
          /\ Cardinality(Spots(c, cleanups')) = Cardinality(Spots(c, cleanups)) - Times(c, l) + Times(c, e)
      BY <3>3, <3>4, SpotsReplaced
    <3>6. QED
      BY <3>2, <3>4, <3>5, FS_CardinalityType
  <2>5. Times(c, <<>>) = 0
    BY TimesNone
  <2>6. /\ ran[c] + Cardinality(Spots(c, cleanups)) + Cardinality(TakenSpots(c, stack))
             = IF c <= known THEN 1 ELSE 0
        /\ Cardinality(TakenSpots(c, s)) = Cardinality(TakenSpots(c, stack))
        /\ ran' = ran /\ known' = known /\ ran[c] \in Nat
    BY DEF CountedOnce, SameTaken, history, TypeOK
  <2>7. ran'[c] + Cardinality(Spots(c, cleanups')) + Cardinality(TakenSpots(c, stack'))
          = ran[c] + Cardinality(Spots(c, cleanups)) + Cardinality(TakenSpots(c, stack))
    BY <2>3, <2>4, <2>5, <2>6
  <2>8. QED
    BY <2>3, <2>4, <2>6, <2>7
<1>3. QED
  BY <1>1, <1>2 DEF DisposeOn

LEMMA RunCleanupCounts ==
  ASSUME TypeOK, CountedOnce, RunCleanup
  PROVE  CountedOnce'
<1> DEFINE g == [Top EXCEPT !.cleanups = Front(@)]
<1>1. /\ Top.kind = "reset" /\ Top.kind \in Kinds /\ Top.cleanups # <<>>
      /\ stack' = Append(Retop(g), Frame("cleanup", None))
      /\ ran' = [ran EXCEPT ![Last(Top.cleanups)] = @ + 1] /\ UNCHANGED <<cleanups, known>>
  BY DEF RunCleanup, On, Kinds, lists
<1>2. /\ stack \in Seq(Frames) /\ stack # <<>> /\ Pop = Front(stack) /\ Top = Last(stack)
      /\ Pop \in Seq(Frames) /\ Top \in Frames /\ \A f \in Frames : Retop(f) = Append(Pop, f)
  BY <1>1, OnTop, TopType DEF TypeOK
<1>3. PICK l \in Seq(Cleanups) : l = Top.cleanups /\ l # <<>>
  BY <1>1, <1>2, FrameType
<1>4. PICK r \in Seq(Cleanups), d \in Cleanups : r = Front(l) /\ d = Last(l) /\ l = Append(r, d)
  <2>1. PICK r \in Seq(Cleanups), d \in Cleanups : r = Front(l) /\ d = Last(l)
    BY <1>3, Shortened
  <2>2. l = Append(Front(l), Last(l))
    BY <1>3, FrontAndLast
  <2>3. QED
    BY <2>1, <2>2
<1>5. g \in Frames /\ g.cleanups = r
  BY <1>2, <1>3, <1>4 DEF Frames
<1>6. PICK f \in Frames : f = Frame("cleanup", None) /\ f.cleanups = <<>>
  BY FrameType, "cleanup" \in Kinds DEF Kinds
<1> HIDE DEF g
<1>7. PICK s \in Seq(Frames) : s = Append(Pop, g) /\ stack' = Append(s, f)
  <2>1. Append(Pop, g) \in Seq(Frames)
    BY <1>2, <1>5, Appended
  <2>2. QED
    BY <1>1, <1>2, <1>5, <1>6, <2>1
<1>8. SUFFICES ASSUME NEW c \in Cleanups
               PROVE  /\ IsFiniteSet(Spots(c, cleanups')) /\ IsFiniteSet(TakenSpots(c, stack'))
                      /\ ran'[c] + Cardinality(Spots(c, cleanups')) + Cardinality(TakenSpots(c, stack'))
                           = IF c <= known' THEN 1 ELSE 0
  BY DEF CountedOnce
<1>9. /\ IsFiniteSet(TakenSpots(c, Pop)) /\ Cardinality(TakenSpots(c, Pop)) \in Nat
      /\ Cardinality(TakenSpots(c, stack)) = Cardinality(TakenSpots(c, Pop)) + Times(c, l)
  BY <1>2, <1>3, TakenPop DEF CountedOnce
<1>10. /\ IsFiniteSet(TakenSpots(c, s)) /\ Cardinality(TakenSpots(c, s)) \in Nat
       /\ Cardinality(TakenSpots(c, s)) = Cardinality(TakenSpots(c, Pop)) + Times(c, r)
  BY <1>2, <1>5, <1>7, <1>9, TakenPush, FS_CardinalityType
<1>11. /\ IsFiniteSet(TakenSpots(c, stack'))
       /\ Cardinality(TakenSpots(c, stack')) = Cardinality(TakenSpots(c, s)) + Times(c, f.cleanups)
  BY <1>7, <1>10, TakenPush
<1>12. Times(c, f.cleanups) = 0 /\ Times(c, r) \in Nat
  BY <1>6, TimesNone, TimesType
<1>13. Times(c, l) = Times(c, r) + (IF d = c THEN 1 ELSE 0)
  BY <1>4, TimesAppended
<1>14. ran'[c] = ran[c] + (IF d = c THEN 1 ELSE 0) /\ ran[c] \in Nat
  BY <1>1, <1>3, <1>4 DEF TypeOK
<1>15. /\ IsFiniteSet(Spots(c, cleanups)) /\ Cardinality(Spots(c, cleanups)) \in Nat
       /\ ran[c] + Cardinality(Spots(c, cleanups)) + Cardinality(TakenSpots(c, stack))
            = IF c <= known THEN 1 ELSE 0
  BY FS_CardinalityType DEF CountedOnce
<1>16. ran'[c] + Cardinality(Spots(c, cleanups)) + Cardinality(TakenSpots(c, stack'))
         = ran[c] + Cardinality(Spots(c, cleanups)) + Cardinality(TakenSpots(c, stack))
  BY <1>9, <1>10, <1>11, <1>12, <1>13, <1>14, <1>15
<1>17. QED
  BY <1>1, <1>11, <1>15, <1>16

LEMMA OnCleanupCounts ==
  ASSUME TypeOK, CountedOnce, OnCleanup
  PROVE  CountedOnce'
<1>1. PICK p \in Owners \cup {None} : p = CurrentOwner(stack)
  BY CurrentOwnerType DEF TypeOK
<1>2. PICK d \in Cleanups : d = known + 1 /\ known \in Nat
  BY BoundsAssumption DEF OnCleanup, TypeOK, Cleanups
<1>3. stack \in Seq(Frames) /\ SameTaken(stack)
  BY DEF TypeOK, CountedOnce, SameTaken
<1>4. ASSUME NEW c \in Cleanups
      PROVE  /\ IsFiniteSet(Spots(c, cleanups)) /\ IsFiniteSet(TakenSpots(c, stack))
             /\ Cardinality(Spots(c, cleanups)) \in Nat /\ Cardinality(TakenSpots(c, stack)) \in Nat
             /\ ran[c] \in Nat
             /\ ran[c] + Cardinality(Spots(c, cleanups)) + Cardinality(TakenSpots(c, stack))
                  = IF c <= known THEN 1 ELSE 0
             /\ c # d => (c <= known <=> c <= d)
             /\ c = d => ~(c <= known) /\ c <= d
  <2>1. c \in Int /\ (c <= d <=> c <= known \/ c = d) /\ ~(d <= known)
    BY <1>2 DEF Cleanups
  <2>2. /\ IsFiniteSet(Spots(c, cleanups)) /\ IsFiniteSet(TakenSpots(c, stack))
        /\ ran[c] + Cardinality(Spots(c, cleanups)) + Cardinality(TakenSpots(c, stack))
             = IF c <= known THEN 1 ELSE 0
    BY DEF CountedOnce
  <2>3. Cardinality(Spots(c, cleanups)) \in Nat /\ Cardinality(TakenSpots(c, stack)) \in Nat
    BY <2>2, FS_CardinalityType
  <2>4. ran[c] \in Nat
    BY DEF TypeOK
  <2>5. QED
    BY <2>1, <2>2, <2>3, <2>4
<1>5. CASE p = None
  <2>1. UNCHANGED <<cleanups, history, stack>>
    BY <1>1, <1>5 DEF OnCleanup, lists
  <2>2. QED
    BY <1>3, <2>1, CountedKeeps
<1>6. CASE p # None
  <2>1. AddCleanup(p, d) /\ known' = d
    BY <1>1, <1>2, <1>6 DEF OnCleanup, AddCleanup
  <2> SUFFICES ASSUME NEW c \in Cleanups
               PROVE  /\ IsFiniteSet(Spots(c, cleanups')) /\ IsFiniteSet(TakenSpots(c, stack'))
                      /\ ran'[c] + Cardinality(Spots(c, cleanups')) + Cardinality(TakenSpots(c, stack'))
                           = IF c <= known' THEN 1 ELSE 0
    BY DEF CountedOnce
  <2>2. CASE Dead(p)
    <3>1. /\ ran' = [ran EXCEPT ![d] = 1] /\ UNCHANGED cleanups
          /\ stack' = Append(stack, Frame("cleanup", None))
      BY <2>1, <2>2 DEF AddCleanup, lists
    <3>2. PICK f \in Frames : f = Frame("cleanup", None) /\ f.cleanups = <<>>
      BY FrameType, "cleanup" \in Kinds DEF Kinds
    <3>3. SameTaken(Append(stack, f))
      BY <1>3, <3>2, SamePush
    <3>4. /\ IsFiniteSet(TakenSpots(c, stack'))
          /\ Cardinality(TakenSpots(c, stack')) = Cardinality(TakenSpots(c, stack))
      BY <3>1, <3>2, <3>3 DEF SameTaken
    <3>5. ran'[c] = IF c = d THEN 1 ELSE ran[c]
      BY <3>1 DEF TypeOK
    <3>6. QED
      BY <1>4, <2>1, <3>1, <3>4, <3>5
  <2>3. CASE ~Dead(p)
    <3>1. /\ cleanups' = [cleanups EXCEPT ![p] = Append(@, d)]
          /\ UNCHANGED <<ran, stack>>
      BY <2>1, <2>3 DEF AddCleanup, control
    <3>2. PICK l \in Seq(Cleanups), m \in Seq(Cleanups) : l = cleanups[p] /\ m = Append(l, d)
      BY <1>1, <1>6, Appended DEF TypeOK
    <3>3. IsRow(cleanups, p, l) /\ IsRow(cleanups', p, m) /\ SameElsewhere(cleanups, cleanups', p)
      <4>1. DOMAIN cleanups = Owners /\ p \in Owners
        BY <1>6 DEF TypeOK
      <4>2. QED
        BY <3>1, <3>2, <4>1 DEF IsRow, SameElsewhere
    <3>4. /\ IsFiniteSet(Spots(c, cleanups'))
          /\ Cardinality(Spots(c, cleanups')) = Cardinality(Spots(c, cleanups)) - Times(c, l) + Times(c, m)
      BY <1>4, <3>3, SpotsReplaced
    <3>5. Times(c, m) = Times(c, l) + (IF d = c THEN 1 ELSE 0) /\ Times(c, l) \in Nat
      BY <3>2, TimesAppended, TimesType
    <3>6. PICK k \in Nat, n \in Nat : k = Cardinality(Spots(c, cleanups)) /\ n = Times(c, l)
      BY <1>4, <3>5
    <3>7. Cardinality(Spots(c, cleanups')) = k + (IF d = c THEN 1 ELSE 0)
      <4>1. Cardinality(Spots(c, cleanups')) = k - n + Times(c, m)
        BY <3>4, <3>6
      <4>2. QED
        BY <3>5, <3>6, <4>1
    <3>8. ran'[c] = ran[c] /\ TakenSpots(c, stack') = TakenSpots(c, stack)
      BY <3>1
    <3>9. PICK r \in Nat, t \in Nat : /\ r = ran[c] /\ t = Cardinality(TakenSpots(c, stack))
                                     /\ r + k + t = IF c <= known THEN 1 ELSE 0
      BY <1>4, <3>6
    <3>10. r + (k + (IF d = c THEN 1 ELSE 0)) + t = IF c <= known' THEN 1 ELSE 0
      <4>1. known' = d
        BY <2>1
      <4>2. CASE c = d
        <5>1. ~(c <= known) /\ c <= known'
          BY <1>4, <4>1, <4>2
        <5>2. r + k + t = 0
          BY <3>9, <5>1
        <5>3. r + (k + 1) + t = 1
          BY <5>2
        <5>4. QED
          BY <4>2, <5>1, <5>3
      <4>3. CASE c # d
        <5>1. c <= known <=> c <= known'
          BY <1>4, <4>1, <4>3
        <5>2. r + (k + 0) + t = r + k + t
          OBVIOUS
        <5>3. QED
          BY <3>9, <4>3, <5>1, <5>2
      <4>4. QED
        BY <4>2, <4>3
    <3>11. ran'[c] + Cardinality(Spots(c, cleanups')) + Cardinality(TakenSpots(c, stack'))
             = IF c <= known' THEN 1 ELSE 0
      BY <3>7, <3>8, <3>9, <3>10
    <3>12. IsFiniteSet(TakenSpots(c, stack'))
      BY <1>4, <3>8
    <3>13. QED
      BY <3>4, <3>11, <3>12
  <2>4. QED
    BY <2>2, <2>3
<1>7. QED
  BY <1>5, <1>6

LEMMA CountedStep ==
  ASSUME OwnedInv, CountedOnce, Next
  PROVE  CountedOnce'
<1>1. TypeOK /\ stack \in Seq(Frames) /\ SameTaken(stack)
  BY DEF OwnedInv, TypeOK, CountedOnce, SameTaken
<1>2. ASSUME NEW s \in Seq(Frames), SameTaken(s), stack' = s, UNCHANGED <<cleanups, history>>
      PROVE  CountedOnce'
  BY <1>1, <1>2, CountedKeeps
<1>3. ASSUME NEW k \in Kinds, NEW o \in Owners \cup {None}, stack' = Append(stack, Frame(k, o)),
             UNCHANGED <<cleanups, history>>
      PROVE  CountedOnce'
  <2>1. PICK f \in Frames : f = Frame(k, o) /\ f.cleanups = <<>>
    BY FrameType
  <2>2. SameTaken(Append(stack, f)) /\ Append(stack, f) \in Seq(Frames)
    BY <1>1, <2>1, SamePush, Appended
  <2>3. QED
    BY <1>2, <1>3, <2>1, <2>2
<1>4. CASE \E o \in Scopes : StartScope(o)
  <2>1. PICK o \in Scopes : StartScope(o)
    BY <1>4
  <2>2. stack' = Append(stack, Frame("scope", o)) /\ UNCHANGED <<cleanups, history>>
    BY <2>1 DEF StartScope, lists
  <2>3. QED
    BY <1>3, <2>2, "scope" \in Kinds DEF Owners, Kinds
<1>5. CASE \E o \in Owners : RunIn(o)
  <2>1. PICK o \in Owners : RunIn(o)
    BY <1>5
  <2>2. stack' = Append(stack, Frame("run_in", o)) /\ UNCHANGED <<cleanups, history>>
    BY <2>1 DEF RunIn, lists
  <2>3. QED
    BY <1>3, <2>2, "run_in" \in Kinds DEF Kinds
<1>6. CASE Unowned
  <2>1. stack' = Append(stack, Frame("unowned", None)) /\ UNCHANGED <<cleanups, history>>
    BY <1>6 DEF Unowned, lists
  <2>2. QED
    BY <1>3, <2>1, "unowned" \in Kinds DEF Kinds
<1>7. CASE OnCleanup
  BY <1>1, <1>7, OnCleanupCounts
<1>8. CASE Panic
  <2>1. stack' = stack /\ UNCHANGED <<cleanups, history>>
    BY <1>8 DEF Panic, lists
  <2>2. QED
    BY <1>1, <1>2, <2>1
<1>9. CASE \E x \in Effects : CreateEffect(x)
  <2>1. stack' = stack /\ UNCHANGED <<cleanups, history>>
    BY <1>9 DEF CreateEffect, control, lists, Adopt
  <2>2. QED
    BY <1>1, <1>2, <2>1
<1>10. ASSUME NEW o \in Owners, NEW s \in Seq(Frames), SameTaken(s), NEW u \in BOOLEAN,
              DisposeOn(o, s, u) \/ Reset(o, s, u), UNCHANGED history
       PROVE  CountedOnce'
  BY <1>1, <1>10, CountedDisposal
<1>11. CASE \E o \in Owners : Dispose(o) \/ DropUnwinding(o)
  <2>1. PICK o \in Owners, u \in BOOLEAN : DisposeOn(o, stack, u) /\ UNCHANGED history
    BY <1>11 DEF Dispose, DropUnwinding
  <2>2. QED
    BY <1>1, <1>10, <2>1
<1>12. CASE \E x \in Effects : RunEffect(x)
  <2>1. PICK x \in Effects : Reset(x, Append(stack, Frame("rerun", x)), FALSE) /\ UNCHANGED history
    BY <1>12 DEF RunEffect
  <2>2. PICK f \in Frames : f = Frame("rerun", x) /\ f.cleanups = <<>> /\ x \in Owners
    BY FrameType, "rerun" \in Kinds DEF Owners, Kinds
  <2>3. PICK s \in Seq(Frames) : s = Append(stack, f) /\ SameTaken(s)
    BY <1>1, <2>2, Appended, SamePush
  <2>4. Reset(x, s, FALSE)
    BY <2>1, <2>2, <2>3
  <2>5. QED
    BY <1>10, <2>1, <2>2, <2>3, <2>4
<1>13. ASSUME Top.kind \in Kinds
       PROVE  /\ Pop \in Seq(Frames) /\ Top \in Frames /\ FrameFits(Top)
              /\ Top.kind # "reset" => Top.cleanups = <<>>
              /\ Top.cleanups = <<>> => SameTaken(Pop)
              /\ \A g \in Frames : g.cleanups = Top.cleanups
                   => SameTaken(Retop(g)) /\ Retop(g) \in Seq(Frames)
  <2>1. ~Idle /\ Pop \in Seq(Frames) /\ Top \in Frames /\ FrameFits(Top)
    BY <1>13, TopKnown
  <2>2. Top.kind # "reset" => Top.cleanups = <<>>
    BY <2>1, FrameType DEF FrameFits
  <2>3. \A g \in Frames : Retop(g) = Append(Pop, g) /\ Append(Pop, g) \in Seq(Frames)
    BY <1>1, <2>1, TopType, Appended
  <2>4. /\ Top.cleanups = <<>> => SameTaken(Pop)
        /\ \A g \in Frames : g.cleanups = Top.cleanups => SameTaken(Append(Pop, g))
    BY <1>1, <2>1, SamePop
  <2>5. QED
    BY <2>1, <2>2, <2>3, <2>4
<1>14. CASE Return \/ FinishReset \/ Unwind
  <2>1. /\ Top.kind \in Kinds /\ stack' = Pop /\ UNCHANGED <<cleanups, history>>
        /\ Top.kind # "reset" \/ Top.cleanups = <<>>
    BY <1>14 DEF Return, FinishReset, Unwind, On, Closures, Kinds, lists
  <2>2. QED
    BY <1>2, <1>13, <2>1
<1>15. CASE Capture
  <2>1. /\ Top.kind \in Kinds /\ stack' = Retop([Top EXCEPT !.failed = TRUE])
        /\ UNCHANGED <<cleanups, history>>
    BY <1>15 DEF Capture, On, Kinds, lists
  <2>2. Top \in Frames
    BY <1>13, <2>1
  <2> DEFINE g == [Top EXCEPT !.failed = TRUE]
  <2>3. g \in Frames /\ g.cleanups = Top.cleanups
    BY <2>2 DEF Frames
  <2> HIDE DEF g
  <2>4. QED
    BY <1>2, <1>13, <2>1, <2>3 DEF g
<1>16. CASE RunCleanup
  BY <1>1, <1>16, RunCleanupCounts
<1>17. CASE DisposeChild
  <2>1. /\ Top.kind \in Kinds /\ Top.children # <<>> /\ UNCHANGED history
        /\ DisposeOn(Last(Top.children), Retop([Top EXCEPT !.children = Front(@)]), FALSE)
    BY <1>17 DEF DisposeChild, On, Kinds
  <2>2. PICK ch \in Seq(Owners), x \in Owners : ch = Front(Top.children) /\ x = Last(Top.children)
    BY <1>13, <2>1, FrameType, Shortened
  <2>t. Top \in Frames
    BY <1>13, <2>1
  <2> DEFINE g == [Top EXCEPT !.children = ch]
  <2>3. g \in Frames /\ g.cleanups = Top.cleanups
    BY <2>t DEF Frames
  <2>4. PICK s \in Seq(Frames) : s = Retop(g) /\ SameTaken(s)
    BY <1>13, <2>1, <2>3
  <2>5. DisposeOn(x, s, FALSE)
    BY <2>1, <2>2, <2>4
  <2>6. QED
    BY <1>10, <2>1, <2>4, <2>5
<1>18. ASSUME Top.kind \in Kinds \ {"reset"}, NEW k \in Kinds
       PROVE  LET s == Retop(Frame(k, Top.owner)) IN s \in Seq(Frames) /\ SameTaken(s)
  <2>1. Top.owner \in Owners \cup {None}
    BY <1>13, <1>18, FrameType
  <2>2. PICK f \in Frames : f = Frame(k, Top.owner) /\ f.cleanups = <<>>
    BY <2>1, FrameType
  <2>3. f.cleanups = Top.cleanups
    BY <1>13, <1>18, <2>2
  <2>4. QED
    BY <1>13, <1>18, <2>2, <2>3
<1>19. CASE StartBody
  <2>1. /\ Top.kind \in Kinds \ {"reset"} /\ UNCHANGED <<cleanups, history>>
        /\ stack' = Pop \/ stack' = Retop(Frame("run", Top.owner))
    BY <1>19 DEF StartBody, On, Kinds, lists
  <2>2. Pop \in Seq(Frames) /\ SameTaken(Pop)
    BY <1>13, <2>1
  <2>3. QED
    BY <1>2, <1>18, <2>1, <2>2, "run" \in Kinds DEF Kinds
<1>20. CASE Handle
  <2>1. /\ Top.kind \in Kinds \ {"reset"} /\ UNCHANGED <<cleanups, history>>
        /\ stack' = Retop(Frame("handler", Top.owner))
    BY <1>20 DEF Handle, On, Kinds, lists
  <2>2. QED
    BY <1>2, <1>18, <2>1, "handler" \in Kinds DEF Kinds
<1>21. CASE Catch
  <2>1. /\ Top.kind \in Kinds \ {"reset"} /\ Top.kind \in {"rerun", "run"} /\ UNCHANGED history
        /\ \/ stack' = Retop(Frame("caught", Top.owner)) /\ UNCHANGED cleanups
           \/ DisposeOn(Top.owner, Retop(Frame("caught", Top.owner)), FALSE)
    BY <1>21 DEF Catch, Kinds, lists
  <2>2. PICK x \in Owners : x = Top.owner
    BY <1>13, <2>1 DEF FrameFits, Owners
  <2>3. PICK s \in Seq(Frames) : s = Retop(Frame("caught", Top.owner)) /\ SameTaken(s)
    BY <1>18, <2>1, "caught" \in Kinds DEF Kinds
  <2>4. QED
    BY <1>2, <1>10, <2>1, <2>2, <2>3
<1>22. CASE ScopeReturn \/ UnwindScope
  <2>1. Top.kind = "scope" /\ Top.kind \in Kinds
    BY <1>22 DEF ScopeReturn, UnwindScope, On, Kinds
  <2>2. PICK x \in Owners : x = Top.owner
    BY <1>13, <2>1 DEF FrameFits, Owners
  <2>3. PICK s \in Seq(Frames) : s = Pop /\ SameTaken(s)
    BY <1>13, <2>1
  <2>4. /\ UNCHANGED history
        /\ \/ stack' = s /\ UNCHANGED cleanups
           \/ DisposeOn(x, s, FALSE) \/ DisposeOn(x, s, TRUE)
    BY <1>22, <2>2, <2>3 DEF ScopeReturn, UnwindScope, lists, Adopt
  <2>5. QED
    BY <1>2, <1>10, <2>3, <2>4
<1>23. QED
  BY <1>4, <1>5, <1>6, <1>7, <1>8, <1>9, <1>11, <1>12, <1>14, <1>15, <1>16, <1>17, <1>19,
     <1>20, <1>21, <1>22 DEF Next

(* Teardown is total: every cleanup that was registered was called once, or *)
(* waits in exactly one place, with its owner or in a teardown that has     *)
(* taken it and goes on to it whatever panics on the way.                   *)
THEOREM AccountedOnceCorrect == Spec => []AccountedOnce
<1>1. Init => CountedOnce
  <2> SUFFICES ASSUME Init, NEW c \in Cleanups
               PROVE  /\ IsFiniteSet(Spots(c, cleanups)) /\ IsFiniteSet(TakenSpots(c, stack))
                      /\ ran[c] + Cardinality(Spots(c, cleanups)) + Cardinality(TakenSpots(c, stack))
                           = IF c <= known THEN 1 ELSE 0
    BY DEF CountedOnce
  <2>1. /\ cleanups = [o \in Owners |-> <<>>] /\ stack = <<>> /\ known = 0 /\ ran[c] = 0
    BY DEF Init
  <2>2. \A o \in Owners : {o} \X DOMAIN cleanups[o] = {}
    BY <2>1
  <2>3. Entries(cleanups) = {}
    BY <2>1, <2>2 DEF Entries
  <2>4. DOMAIN TakenBy(stack) = {}
    BY <2>1 DEF TakenBy
  <2>5. Entries(TakenBy(stack)) = {}
    BY <2>4 DEF Entries
  <2>6. Spots(c, cleanups) = {} /\ TakenSpots(c, stack) = {}
    BY <2>3, <2>5 DEF Spots, TakenSpots
  <2>7. ~(c <= known)
    BY <2>1, BoundsAssumption DEF Cleanups
  <2>8. IsFiniteSet({}) /\ Cardinality({}) = 0
    BY FS_EmptySet
  <2>9. /\ IsFiniteSet(Spots(c, cleanups)) /\ IsFiniteSet(TakenSpots(c, stack))
        /\ Cardinality(Spots(c, cleanups)) = 0 /\ Cardinality(TakenSpots(c, stack)) = 0
    BY <2>6, <2>8, Zenon
  <2>10. ran[c] = 0
    BY <2>1
  <2>11. QED
    BY <2>7, <2>9, <2>10
<1>2. OwnedInv /\ CountedOnce /\ [Next]_vars => CountedOnce'
  <2> SUFFICES ASSUME OwnedInv, CountedOnce, [Next]_vars PROVE CountedOnce'
    OBVIOUS
  <2>1. CASE Next
    BY <2>1, CountedStep
  <2>2. CASE UNCHANGED vars
    <3>1. UNCHANGED <<cleanups, history, stack>>
      BY <2>2 DEF vars, lists, control
    <3>2. stack \in Seq(Frames) /\ SameTaken(stack)
      BY DEF OwnedInv, TypeOK, CountedOnce, SameTaken
    <3>3. QED
      BY <3>1, <3>2, CountedKeeps DEF OwnedInv
  <2>3. QED
    BY <2>1, <2>2
<1>3. OwnedInv /\ CountedOnce => AccountedOnce
  <2> SUFFICES ASSUME OwnedInv, CountedOnce, NEW c \in 1 .. known
               PROVE  ran[c] + Cardinality(Spots(c, cleanups))
                        + Cardinality(Spots(c, [i \in DOMAIN stack |-> stack[i].cleanups])) = 1
    BY DEF AccountedOnce
  <2>1. c \in Cleanups /\ c <= known
    BY BoundsAssumption DEF OwnedInv, TypeOK, Cleanups
  <2>2. ran[c] + Cardinality(Spots(c, cleanups)) + Cardinality(TakenSpots(c, stack)) = 1
    BY <2>1 DEF CountedOnce
  <2>3. QED
    BY <2>2, Zenon DEF TakenSpots, TakenBy
<1>4. QED
  BY <1>1, <1>2, <1>3, OwnedCorrect, PTL DEF Spec
=============================================================================
