---------------------------- MODULE EventsProofs ----------------------------
(***************************************************************************)
(* Proofs about an event for any subscribers and any nesting of emissions, *)
(* drains and closures, whatever panics: that every value reaches everyone *)
(* who was subscribed once, that a queue that is not empty is going to be  *)
(* drained, and that a listener no immediate subscriber comes before is    *)
(* handed the values in the order of their emission.                       *)
(***************************************************************************)
EXTENDS Events, FiniteSetTheorems, SequenceTheorems, TLAPS

Emissions == [kind : {"emit"}, who : {"none"}, value : Nat, rest : Seq(Subscribers)]
Calls     == [kind : {"call"}, who : Plain, value : Nat, rest : {<<>>}]
Drains    == [kind : {"drain"}, who : Listeners, value : {0}, rest : Seq(Nat)]
Handles   == [kind : {"handle"}, who : Listeners, value : Nat, rest : {<<>>}]
Frames    == Emissions \cup Calls \cup Drains \cup Handles

RegistryType ==
  /\ subscription \in [Subscribers -> {"none", "active", "cancelled"}]
  /\ subscribers \in Seq(Subscribers)
DrainsType ==
  /\ queue \in [Listeners -> Seq(Nat)]
  /\ due \subseteq Listeners /\ rerun \subseteq Listeners /\ observing \subseteq Listeners
StackType ==
  /\ stack \in Seq(Frames) /\ panicking \in BOOLEAN
  /\ panicking => ~Idle
HistoryType ==
  /\ emitted \in Nat /\ handed \in [Subscribers -> Seq(Nat)]
  /\ since \in [Subscribers -> Nat] /\ ahead \in [Subscribers -> SUBSET Plain]
  /\ lost \in [Subscribers -> SUBSET Nat] /\ cut \in BOOLEAN
TypeOK == RegistryType /\ DrainsType /\ StackType /\ HistoryType

Distinct(s) == \A i, j \in DOMAIN s : s[i] = s[j] => i = j

(* The registry lists those who are subscribed, each once, and only their   *)
(* drains are queued and observe.                                           *)
Registered ==
  /\ Distinct(subscribers)
  /\ \A x \in Subscribers : Active(x) <=> Contains(subscribers, x)
  /\ \A l \in due \cup observing : Active(l)

(* Which drains and emissions there are on a stack: a listener has one      *)
(* drain at most, and no emission calls anybody twice.                      *)
HasDrain(stk, l) == \E i \in DOMAIN stk : stk[i].kind = "drain" /\ stk[i].who = l
HasEmission(stk) == \E i \in DOMAIN stk : stk[i].kind = "emit"
DrainsOnce(stk) ==
  \A i, j \in DOMAIN stk :
    stk[i].kind = "drain" /\ stk[j].kind = "drain" /\ stk[i].who = stk[j].who => i = j
EmissionsOnce(stk) == \A i \in DOMAIN stk : stk[i].kind = "emit" => Distinct(stk[i].rest)
StackOnce(stk) == DrainsOnce(stk) /\ EmissionsOnce(stk)

(* A listener whose drain is not queued will be notified by the event, and  *)
(* while it is drained it is so in any case.                                *)
Attached ==
  \A l \in Listeners :
    /\ Active(l) => l \in due \cup observing
    /\ HasDrain(stack, l) => subscription[l] # "none" /\ (Active(l) => l \in observing)

(* What is in a queue is going to be drained.                               *)
Owed ==
  \A l \in Listeners : Active(l) /\ queue[l] # <<>> /\ ~cut =>
    l \in due \/ (l \in rerun /\ HasDrain(stack, l)) \/ HasEmission(stack)

(* The places of a list where a member of G stands, and how many they are.  *)
Spots(s, G) == {i \in DOMAIN s : s[i] \in G}
Count(s, G) == Cardinality(Spots(s, G))
One(b) == IF b THEN 1 ELSE 0

(* Where value v is that x is to have: it has been handed over, it is in    *)
(* the queue, an emission or a drain has it still before it, or a panic     *)
(* took it down.                                                            *)
Calling(x, v) == {f \in Emissions : f.value = v /\ Contains(f.rest, x)}
Handing(x, v) == {f \in Drains : f.who = x /\ Contains(f.rest, v)}
Handed(x, v) == Count(handed[x], {v})
Queued(x, v) == IF x \in Listeners THEN Count(queue[x], {v}) ELSE 0
ToCall(stk, x, v) == Count(stk, Calling(x, v))
ToHand(stk, x, v) == Count(stk, Handing(x, v))
Tally(x, v) ==
  Handed(x, v) + Queued(x, v) + ToCall(stack, x, v) + ToHand(stack, x, v) + One(v \in lost[x])

(* Nobody has a value twice, and who is subscribed has all of them once     *)
(* since then.                                                              *)
Once ==
  \A x \in Subscribers, v \in Nat :
    /\ since[x] <= emitted /\ Tally(x, v) \in {0, 1}
    /\ subscription[x] = "none" => Tally(x, v) = 0
    /\ Active(x) => Tally(x, v) = One(since[x] < v /\ v <= emitted)
RestsDistinct(stk) == \A i \in DOMAIN stk : Distinct(stk[i].rest)
OnceInv == Once /\ RestsDistinct(stack)

(* For a listener that no immediate subscriber comes before: the ones that  *)
(* an emission calls before it only queue the value, so that an emission    *)
(* which has it still before it is the top of the stack and the latest.     *)
First(l) == subscription[l] # "none" /\ ahead[l] = {}
Before(s, l) == \A i, j \in DOMAIN s : i < j /\ s[j] = l => s[i] \in Listeners
Pending(stk, l) == \E i \in DOMAIN stk : stk[i].kind = "emit" /\ Contains(stk[i].rest, l)
LastCall(l) ==
  ~Idle =>
    /\ ~Pending(Pop, l)
    /\ On("emit") /\ Contains(Top.rest, l) => Before(Top.rest, l) /\ Top.value = emitted

(* What it has been handed precedes what a drain has taken, which precedes  *)
(* what is in its queue, and none of it is later than the latest emission.  *)
AllBelow(s, t) == \A a \in DOMAIN s, b \in DOMAIN t : s[a] < t[b]
UpTo(s, n) == \A a \in DOMAIN s : s[a] <= n
InOrder(h, q, n) == Ordered(h) /\ Ordered(q) /\ AllBelow(h, q) /\ UpTo(h, n) /\ UpTo(q, n)
DrainFits(r, h, q, n) == Ordered(r) /\ AllBelow(h, r) /\ AllBelow(r, q) /\ UpTo(r, n)
DrainsFit(stk, l, h, q, n) ==
  \A i \in DOMAIN stk : stk[i].kind = "drain" /\ stk[i].who = l => DrainFits(stk[i].rest, h, q, n)
Fits(l) ==
  /\ Before(subscribers, l) /\ LastCall(l)
  /\ InOrder(handed[l], queue[l], emitted)
  /\ DrainsFit(stack, l, handed[l], queue[l], emitted)
OrderInv == \A l \in Listeners : First(l) => Fits(l)

EventsInv == TypeOK /\ Registered /\ StackOnce(stack) /\ Attached /\ Owed

-----------------------------------------------------------------------------
(* Sequences.                                                              *)

(* What a list is after an entry is appended. *)
LEMMA Appended ==
  ASSUME NEW S, NEW s \in Seq(S), NEW x \in S
  PROVE  /\ Append(s, x) \in Seq(S) /\ Append(s, x) # <<>>
         /\ Len(Append(s, x)) = Len(s) + 1
         /\ DOMAIN Append(s, x) = 1 .. Len(s) + 1
         /\ DOMAIN s = 1 .. Len(s) /\ Len(s) \in Nat
         /\ \A i \in 1 .. Len(s) : Append(s, x)[i] = s[i]
         /\ Append(s, x)[Len(s) + 1] = x
OBVIOUS

(* What is left of a list without its last entry. *)
LEMMA Shortened ==
  ASSUME NEW S, NEW s \in Seq(S), s # <<>>
  PROVE  /\ Front(s) \in Seq(S) /\ Len(Front(s)) = Len(s) - 1 /\ Len(s) \in Nat \ {0}
         /\ DOMAIN Front(s) = 1 .. Len(s) - 1 /\ DOMAIN s = 1 .. Len(s)
         /\ \A i \in 1 .. Len(s) - 1 : Front(s)[i] = s[i]
         /\ Last(s) \in S /\ Last(s) = s[Len(s)]
<1>1. Len(s) \in Nat \ {0}
  BY EmptySeq
<1>2. Len(s) - 1 \in 0 .. Len(s) /\ Len(s) \in 1 .. Len(s)
  BY <1>1
<1>3. /\ Front(s) \in Seq(S) /\ Len(Front(s)) = Len(s) - 1
      /\ \A i \in 1 .. Len(s) - 1 : Front(s)[i] = s[i]
  <2>1. ASSUME NEW n \in 0 .. Len(s)
        PROVE  /\ SubSeq(s, 1, n) \in Seq(S) /\ Len(SubSeq(s, 1, n)) = n
               /\ \A i \in 1 .. n : SubSeq(s, 1, n)[i] = s[i]
    OBVIOUS
  <2>2. QED
    BY <1>2, <2>1 DEF Front
<1>4. DOMAIN Front(s) = 1 .. Len(s) - 1 /\ DOMAIN s = 1 .. Len(s)
  BY <1>3, LenProperties
<1>5. Last(s) \in S /\ Last(s) = s[Len(s)]
  BY <1>2, ElementOfSeq DEF Last
<1>6. QED
  BY <1>1, <1>3, <1>4, <1>5

(* To replace the last entry is to append to what is left without it. *)
LEMMA Replaced ==
  ASSUME NEW S, NEW s \in Seq(S), s # <<>>, NEW x \in S
  PROVE  [s EXCEPT ![Len(s)] = x] = Append(Front(s), x)
<1>1. /\ Len(s) \in Nat \ {0} /\ Front(s) \in Seq(S)
      /\ Len(Front(s)) = Len(s) - 1
      /\ \A i \in 1 .. Len(s) - 1 : Front(s)[i] = s[i]
  BY Shortened
<1> DEFINE t == [s EXCEPT ![Len(s)] = x]
           u == Append(Front(s), x)
<1>2. t \in Seq(S) /\ Len(t) = Len(s) /\ \A i \in 1 .. Len(s) : t[i] = IF i = Len(s) THEN x ELSE s[i]
  BY <1>1, ExceptSeq, Len(s) \in 1 .. Len(s)
<1>3. u \in Seq(S) /\ Len(u) = Len(s) /\ \A i \in 1 .. Len(s) : u[i] = IF i = Len(s) THEN x ELSE s[i]
  BY <1>1, Appended
<1>4. QED
  BY <1>2, <1>3, SeqEqual

(* A list is what is left without the last entry, and that one. *)
LEMMA FrontAndLast ==
  ASSUME NEW S, NEW s \in Seq(S), s # <<>>
  PROVE  s = Append(Front(s), Last(s))
<1>1. PICK x \in S : x = Last(s) /\ x = s[Len(s)]
  BY Shortened
<1>2. [s EXCEPT ![Len(s)] = x] = Append(Front(s), x)
  BY Replaced
<1>3. [s EXCEPT ![Len(s)] = x] = s
  BY <1>1
<1>4. QED
  BY <1>1, <1>2, <1>3

(* A list that is not empty, its first entry and the others. *)
LEMMA HeadTail ==
  ASSUME NEW S, NEW s \in Seq(S), s # <<>>
  PROVE  /\ Head(s) \in S /\ Tail(s) \in Seq(S) /\ Len(s) \in Nat \ {0}
         /\ DOMAIN s = 1 .. Len(s) /\ DOMAIN Tail(s) = 1 .. Len(s) - 1
         /\ Len(Tail(s)) = Len(s) - 1
         /\ Head(s) = s[1] /\ \A i \in 1 .. Len(s) - 1 : Tail(s)[i] = s[i + 1]
<1>1. Len(s) \in Nat \ {0}
  BY EmptySeq
<1>2. QED
  BY <1>1

(* What the others contain. *)
LEMMA RestContains ==
  ASSUME NEW S, NEW s \in Seq(S), s # <<>>
  PROVE  /\ \A x : Contains(s, x) <=> x = Head(s) \/ Contains(Tail(s), x)
         /\ Distinct(s) => Distinct(Tail(s)) /\ ~Contains(Tail(s), Head(s))
<1>1. /\ Head(s) \in S /\ Tail(s) \in Seq(S) /\ Len(s) \in Nat \ {0}
      /\ DOMAIN s = 1 .. Len(s) /\ DOMAIN Tail(s) = 1 .. Len(s) - 1
      /\ Len(Tail(s)) = Len(s) - 1
      /\ Head(s) = s[1] /\ \A i \in 1 .. Len(s) - 1 : Tail(s)[i] = s[i + 1]
  BY HeadTail
<1> DEFINE t == Tail(s)
           n == Len(s)
<1> HIDE DEF t, n
<1>2. ASSUME NEW x, Contains(s, x) PROVE x = Head(s) \/ Contains(t, x)
  <2>1. PICK i \in 1 .. n : s[i] = x
    BY <1>2 DEF Contains, n
  <2>2. CASE i = 1
    BY <1>1, <2>1, <2>2
  <2>3. CASE i # 1
    <3>1. i - 1 \in 1 .. n - 1 /\ (i - 1) + 1 = i
      BY <1>1, <2>3 DEF n
    <3>2. t[i - 1] = x
      BY <1>1, <2>1, <3>1 DEF t, n
    <3>3. QED
      BY <1>1, <3>1, <3>2 DEF Contains, t, n
  <2>4. QED
    BY <2>2, <2>3
<1>3. ASSUME NEW x, x = Head(s) \/ Contains(t, x) PROVE Contains(s, x)
  <2>1. CASE x = Head(s)
    BY <1>1, <2>1 DEF Contains
  <2>2. CASE Contains(t, x)
    <3>1. PICK i \in 1 .. n - 1 : t[i] = x
      BY <1>1, <2>2 DEF Contains, t, n
    <3>2. s[i + 1] = x /\ i + 1 \in 1 .. n
      BY <1>1, <3>1 DEF t, n
    <3>3. QED
      BY <3>2 DEF Contains, n
  <2>3. QED
    BY <1>3, <2>1, <2>2
<1>4. ASSUME Distinct(s) PROVE Distinct(t)
  <2>1. ASSUME NEW i \in 1 .. n - 1, NEW j \in 1 .. n - 1, t[i] = t[j] PROVE i = j
    <3>1. i + 1 \in DOMAIN s /\ j + 1 \in DOMAIN s /\ s[i + 1] = s[j + 1]
      BY <1>1, <2>1 DEF t, n
    <3>2. i + 1 = j + 1
      BY <1>4, <3>1 DEF Distinct
    <3>3. QED
      BY <3>2
  <2>2. QED
    BY <1>1, <2>1 DEF Distinct, t, n
<1>5. ASSUME Distinct(s), Contains(t, Head(s)) PROVE FALSE
  <2>1. PICK i \in 1 .. n - 1 : t[i] = Head(s)
    BY <1>1, <1>5 DEF Contains, t, n
  <2>2. s[i + 1] = s[1] /\ i + 1 \in DOMAIN s /\ 1 \in DOMAIN s
    BY <1>1, <2>1 DEF t, n
  <2>3. i + 1 = 1
    BY <1>5, <2>2 DEF Distinct
  <2>4. QED
    BY <2>3
<1>6. QED
  BY <1>2, <1>3, <1>4, <1>5 DEF t

(* A list without one of its entries, which occurs in it once. *)
LEMMA Removed ==
  ASSUME NEW S, NEW s \in Seq(S), NEW k \in DOMAIN s, Distinct(s)
  PROVE  /\ RemoveAt(s, k) \in Seq(S) /\ Distinct(RemoveAt(s, k))
         /\ \A x : Contains(RemoveAt(s, k), x) <=> Contains(s, x) /\ x # s[k]
         /\ \A i, j \in DOMAIN RemoveAt(s, k) : i < j =>
              \E a, b \in DOMAIN s : a < b /\ RemoveAt(s, k)[i] = s[a] /\ RemoveAt(s, k)[j] = s[b]
<1> DEFINE n == Len(s)
           t == RemoveAt(s, k)
           At(i) == IF i < k THEN i ELSE i + 1
<1>1. n \in Nat /\ DOMAIN s = 1 .. n /\ k \in 1 .. n
  BY LenProperties
<1>2. /\ SubSeq(s, 1, k - 1) \in Seq(S) /\ Len(SubSeq(s, 1, k - 1)) = k - 1
      /\ \A i \in 1 .. k - 1 : SubSeq(s, 1, k - 1)[i] = s[i]
  BY <1>1
<1>3. /\ SubSeq(s, k + 1, n) \in Seq(S) /\ Len(SubSeq(s, k + 1, n)) = n - k
      /\ \A i \in 1 .. n - k : SubSeq(s, k + 1, n)[i] = s[i + k]
  BY <1>1
<1>4. /\ t \in Seq(S) /\ Len(t) = n - 1
      /\ \A i \in 1 .. n - 1 : t[i] = s[At(i)] /\ At(i) \in 1 .. n /\ At(i) # k
  <2> DEFINE a == SubSeq(s, 1, k - 1)
             b == SubSeq(s, k + 1, n)
  <2>1. t = a \o b
    BY DEF RemoveAt
  <2>2. /\ a \in Seq(S) /\ Len(a) = k - 1 /\ \A i \in 1 .. k - 1 : a[i] = s[i]
        /\ b \in Seq(S) /\ Len(b) = n - k /\ \A i \in 1 .. n - k : b[i] = s[i + k]
    BY <1>2, <1>3
  <2> HIDE DEF a, b, t, n
  <2>3. t \in Seq(S) /\ Len(t) = n - 1
    <3>1. Len(t) = (k - 1) + (n - k) /\ t \in Seq(S)
      BY <2>1, <2>2, ConcatProperties
    <3>2. QED
      BY <1>1, <3>1
  <2>4. ASSUME NEW i \in 1 .. n - 1, i < k PROVE t[i] = s[At(i)] /\ At(i) \in 1 .. n /\ At(i) # k
    BY <1>1, <2>1, <2>2, <2>4
  <2>5. ASSUME NEW i \in 1 .. n - 1, ~(i < k) PROVE t[i] = s[At(i)] /\ At(i) \in 1 .. n /\ At(i) # k
    <3>1. t[i] = b[i - (k - 1)] /\ i - (k - 1) \in 1 .. n - k
      BY <1>1, <2>1, <2>2, <2>5
    <3>2. t[i] = s[i + 1]
      <4>1. (i - (k - 1)) + k = i + 1
        BY <1>1
      <4>2. b[i - (k - 1)] = s[(i - (k - 1)) + k]
        BY <2>2, <3>1
      <4>3. QED
        BY <3>1, <4>1, <4>2
    <3>3. QED
      BY <1>1, <2>5, <3>2
  <2>6. QED
    BY <2>3, <2>4, <2>5
<1>5. DOMAIN t = 1 .. n - 1
  BY <1>1, <1>4, LenProperties
<1>6. \A i, j \in 1 .. n - 1 : i < j => At(i) < At(j)
  BY <1>1
<1>7. \A i \in 1 .. n : i # k => \E j \in 1 .. n - 1 : At(j) = i
  <2> SUFFICES ASSUME NEW i \in 1 .. n, i # k PROVE \E j \in 1 .. n - 1 : At(j) = i
    OBVIOUS
  <2>1. CASE i < k
    BY <1>1, <2>1
  <2>2. CASE i > k
    <3>1. i - 1 \in 1 .. n - 1 /\ At(i - 1) = i
      BY <1>1, <2>2
    <3>2. QED
      BY <3>1
  <2>3. QED
    BY <1>1, <2>1, <2>2
<1> HIDE DEF t, n, At
<1>8. \A i, j \in 1 .. n : s[i] = s[j] => i = j
  BY <1>1 DEF Distinct
<1>9. Distinct(t)
  <2>1. ASSUME NEW i \in 1 .. n - 1, NEW j \in 1 .. n - 1, t[i] = t[j] PROVE i = j
    <3>1. At(i) = At(j)
      BY <1>4, <1>8, <2>1
    <3>2. ~(At(i) < At(j)) /\ ~(At(j) < At(i))
      BY <1>1, <1>4, <3>1
    <3>3. QED
      BY <1>1, <1>6, <3>2
  <2>2. QED
    BY <1>5, <2>1 DEF Distinct
<1>10. \A x : Contains(t, x) <=> Contains(s, x) /\ x # s[k]
  <2>1. ASSUME NEW x, NEW i \in 1 .. n - 1, t[i] = x PROVE Contains(s, x) /\ x # s[k]
    BY <1>1, <1>4, <1>8, <2>1 DEF Contains, n
  <2>2. ASSUME NEW i \in 1 .. n, s[i] # s[k] PROVE Contains(t, s[i])
    <3>1. PICK j \in 1 .. n - 1 : At(j) = i
      BY <1>7, <2>2
    <3>2. QED
      BY <1>4, <3>1 DEF Contains
  <2>3. QED
    BY <1>4, <2>1, <2>2 DEF Contains, n
<1>11. \A i, j \in DOMAIN t : i < j => \E a, b \in DOMAIN s : a < b /\ t[i] = s[a] /\ t[j] = s[b]
  BY <1>1, <1>4, <1>5, <1>6
<1>12. QED
  BY <1>4, <1>9, <1>10, <1>11 DEF t

-----------------------------------------------------------------------------
(* Frames and stacks.                                                      *)

LEMMA FrameType ==
  /\ \A f \in Frames : /\ f.kind \in {"emit", "call", "drain", "handle"}
                       /\ f.kind = "emit" => f \in Emissions
                       /\ f.kind = "drain" => f \in Drains
                       /\ f.kind = "call" => f \in Calls
                       /\ f.kind = "handle" => f \in Handles
  /\ \A f \in Emissions : f.value \in Nat /\ f.rest \in Seq(Subscribers)
  /\ \A f \in Drains : f.who \in Listeners /\ f.rest \in Seq(Nat)
  /\ \A f \in Calls : f.who \in Plain /\ f.value \in Nat
  /\ \A f \in Handles : f.who \in Listeners /\ f.value \in Nat
  /\ \A k, w, v, r : /\ Frame(k, w, v, r).kind = k /\ Frame(k, w, v, r).who = w
                     /\ Frame(k, w, v, r).value = v /\ Frame(k, w, v, r).rest = r
  /\ \A v \in Nat, r \in Seq(Subscribers) : Frame("emit", "none", v, r) \in Frames
  /\ \A l \in Listeners, r \in Seq(Nat) : Frame("drain", l, 0, r) \in Frames
  /\ \A x \in Plain, v \in Nat : Frame("call", x, v, <<>>) \in Frames
  /\ \A l \in Listeners, v \in Nat : Frame("handle", l, v, <<>>) \in Frames
BY DEF Frames, Emissions, Calls, Drains, Handles, Frame

(* The top of the stack, and the stack without it. *)
LEMMA TopType ==
  ASSUME stack \in Seq(Frames), ~Idle
  PROVE  /\ stack # <<>> /\ Top = Last(stack) /\ Pop = Front(stack)
         /\ Top \in Frames /\ Pop \in Seq(Frames) /\ stack = Append(Pop, Top)
         /\ Len(stack) \in Nat \ {0} /\ Len(Pop) = Len(stack) - 1
         /\ \A f \in Frames : Retop(f) = Append(Pop, f)
BY Shortened, Replaced, FrontAndLast DEF Idle, Top, Pop, Retop

LEMMA OnTop == Top.kind \in {"emit", "call", "drain", "handle"} => ~Idle
BY DEF Top, Frame

(* What is left to do of an emission or a drain after its next call. *)
LEMMA RestType ==
  ASSUME stack \in Seq(Frames), On("emit") \/ On("drain"), Top.rest # <<>>
  PROVE  /\ ~Idle /\ Top \in Frames /\ Pop \in Seq(Frames) /\ stack = Append(Pop, Top)
         /\ Rest \in Frames /\ Rest.kind = Top.kind /\ Rest.who = Top.who
         /\ Rest.value = Top.value /\ Rest.rest = Tail(Top.rest)
         /\ Retop(Rest) = Append(Pop, Rest)
         /\ On("emit") => Top \in Emissions /\ Head(Top.rest) \in Subscribers
         /\ On("drain") => Top \in Drains /\ Head(Top.rest) \in Nat
<1>1. ~Idle
  BY OnTop DEF On
<1>2. /\ Top \in Frames /\ Pop \in Seq(Frames) /\ stack = Append(Pop, Top)
      /\ \A f \in Frames : Retop(f) = Append(Pop, f)
  BY <1>1, TopType
<1>3. PICK f \in Frames : f = Top
  BY <1>2
<1>4. CASE f.kind = "emit"
  <2>1. f \in Emissions /\ f.rest \in Seq(Subscribers) /\ f.rest # <<>>
    BY <1>3, <1>4, FrameType
  <2>2. Tail(f.rest) \in Seq(Subscribers) /\ Head(f.rest) \in Subscribers
    BY <2>1, HeadTail
  <2>3. PICK t \in Seq(Subscribers) : t = Tail(f.rest)
    BY <2>2
  <2>4. /\ [f EXCEPT !.rest = t] \in Emissions /\ [f EXCEPT !.rest = t].kind = f.kind
        /\ [f EXCEPT !.rest = t].who = f.who /\ [f EXCEPT !.rest = t].value = f.value
        /\ [f EXCEPT !.rest = t].rest = t
    BY <2>1 DEF Emissions
  <2>5. Rest = [f EXCEPT !.rest = t]
    BY <1>3, <2>3 DEF Rest
  <2>6. Rest \in Frames
    BY <2>4, <2>5 DEF Frames
  <2>7. f.kind # "drain"
    BY <1>4
  <2>8. QED
    BY <1>1, <1>2, <1>3, <2>1, <2>2, <2>3, <2>4, <2>5, <2>6, <2>7 DEF On
<1>5. CASE f.kind = "drain"
  <2>1. f \in Drains /\ f.rest \in Seq(Nat) /\ f.rest # <<>>
    BY <1>3, <1>5, FrameType
  <2>2. Tail(f.rest) \in Seq(Nat) /\ Head(f.rest) \in Nat
    BY <2>1, HeadTail
  <2>3. PICK t \in Seq(Nat) : t = Tail(f.rest)
    BY <2>2
  <2>4. /\ [f EXCEPT !.rest = t] \in Drains /\ [f EXCEPT !.rest = t].kind = f.kind
        /\ [f EXCEPT !.rest = t].who = f.who /\ [f EXCEPT !.rest = t].value = f.value
        /\ [f EXCEPT !.rest = t].rest = t
    BY <2>1 DEF Drains
  <2>5. Rest = [f EXCEPT !.rest = t]
    BY <1>3, <2>3 DEF Rest
  <2>6. Rest \in Frames
    BY <2>4, <2>5 DEF Frames
  <2>7. f.kind # "emit"
    BY <1>5
  <2>8. QED
    BY <1>1, <1>2, <1>3, <2>1, <2>2, <2>3, <2>4, <2>5, <2>6, <2>7 DEF On
<1>6. QED
  BY <1>3, <1>4, <1>5 DEF On

(* A stack and what is pushed on it. *)
LEMMA OnStack ==
  ASSUME NEW stk \in Seq(Frames), NEW f \in Frames
  PROVE  /\ \A l : HasDrain(Append(stk, f), l) <=> HasDrain(stk, l) \/ (f.kind = "drain" /\ f.who = l)
         /\ HasEmission(Append(stk, f)) <=> HasEmission(stk) \/ f.kind = "emit"
         /\ StackOnce(Append(stk, f)) <=>
              /\ StackOnce(stk)
              /\ f.kind = "drain" => ~HasDrain(stk, f.who)
              /\ f.kind = "emit" => Distinct(f.rest)
<1> DEFINE s == Append(stk, f)
           n == Len(stk)
<1>1. /\ DOMAIN s = 1 .. n + 1 /\ DOMAIN stk = 1 .. n /\ n \in Nat
      /\ \A i \in 1 .. n : s[i] = stk[i]
      /\ s[n + 1] = f
  BY Appended
<1>2. /\ \A i \in 1 .. n + 1 : i \in 1 .. n \/ i = n + 1
      /\ \A i \in 1 .. n : i \in 1 .. n + 1 /\ i # n + 1
      /\ n + 1 \in 1 .. n + 1
  BY <1>1
<1> HIDE DEF s, n
<1>3. \A l : HasDrain(s, l) <=> HasDrain(stk, l) \/ (f.kind = "drain" /\ f.who = l)
  <2> SUFFICES ASSUME NEW l PROVE HasDrain(s, l) <=> HasDrain(stk, l) \/ (f.kind = "drain" /\ f.who = l)
    OBVIOUS
  <2>1. HasDrain(s, l) => HasDrain(stk, l) \/ (f.kind = "drain" /\ f.who = l)
    BY <1>1, <1>2 DEF HasDrain
  <2>2. HasDrain(stk, l) => HasDrain(s, l)
    BY <1>1, <1>2 DEF HasDrain
  <2>3. f.kind = "drain" /\ f.who = l => HasDrain(s, l)
    BY <1>1, <1>2 DEF HasDrain
  <2>4. QED
    BY <2>1, <2>2, <2>3
<1>4. HasEmission(s) <=> HasEmission(stk) \/ f.kind = "emit"
  BY <1>1, <1>2 DEF HasEmission
<1>5. DrainsOnce(s) <=> DrainsOnce(stk) /\ (f.kind = "drain" => ~HasDrain(stk, f.who))
  <2>1. ASSUME DrainsOnce(s) PROVE DrainsOnce(stk) /\ (f.kind = "drain" => ~HasDrain(stk, f.who))
    BY <1>1, <1>2, <2>1 DEF DrainsOnce, HasDrain
  <2>2. ASSUME DrainsOnce(stk), f.kind = "drain" => ~HasDrain(stk, f.who) PROVE DrainsOnce(s)
    <3> SUFFICES ASSUME NEW i \in 1 .. n + 1, NEW j \in 1 .. n + 1,
                        s[i].kind = "drain", s[j].kind = "drain", s[i].who = s[j].who
                 PROVE  i = j
      BY <1>1 DEF DrainsOnce
    <3>1. CASE i \in 1 .. n /\ j \in 1 .. n
      BY <1>1, <2>2, <3>1 DEF DrainsOnce
    <3>2. CASE i = n + 1
      BY <1>1, <1>2, <2>2, <3>2 DEF HasDrain
    <3>3. CASE j = n + 1
      BY <1>1, <1>2, <2>2, <3>3 DEF HasDrain
    <3>4. QED
      BY <1>2, <3>1, <3>2, <3>3
  <2>3. QED
    BY <2>1, <2>2
<1>6. EmissionsOnce(s) <=> EmissionsOnce(stk) /\ (f.kind = "emit" => Distinct(f.rest))
  <2>1. ASSUME EmissionsOnce(s) PROVE EmissionsOnce(stk) /\ (f.kind = "emit" => Distinct(f.rest))
    BY <1>1, <1>2, <2>1 DEF EmissionsOnce
  <2>2. ASSUME EmissionsOnce(stk), f.kind = "emit" => Distinct(f.rest) PROVE EmissionsOnce(s)
    BY <1>1, <1>2, <2>2 DEF EmissionsOnce
  <2>3. QED
    BY <2>1, <2>2
<1>7. QED
  BY <1>3, <1>4, <1>5, <1>6 DEF s, StackOnce

-----------------------------------------------------------------------------
(* The invariant: the registry, the queues and what is due.                *)

LEMMA EventsInit == Init => EventsInv
<1> SUFFICES ASSUME Init PROVE EventsInv
  OBVIOUS
<1>1. <<>> \in Seq(Subscribers) /\ <<>> \in Seq(Frames) /\ <<>> \in Seq(Nat) /\ DOMAIN <<>> = {}
  OBVIOUS
<1>2. RegistryType /\ DrainsType
  BY <1>1 DEF Init, RegistryType, DrainsType
<1>3. StackType /\ HistoryType
  BY <1>1 DEF Init, StackType, HistoryType
<1>4. Registered
  BY <1>1 DEF Init, Registered, Distinct, Contains, Active
<1>5. StackOnce(stack)
  BY <1>1 DEF Init, StackOnce, DrainsOnce, EmissionsOnce
<1>6. Attached /\ Owed
  BY <1>1 DEF Init, Attached, Owed, Active, Subscribers, HasDrain
<1>7. QED
  BY <1>2, <1>3, <1>4, <1>5, <1>6 DEF EventsInv, TypeOK

LEMMA SubscribeKeeps ==
  ASSUME EventsInv, NEW x \in Subscribers, Subscribe(x)
  PROVE  EventsInv'
<1>0. TypeOK /\ Registered /\ StackOnce(stack) /\ Attached /\ Owed
  BY DEF EventsInv
<1>1. /\ subscription[x] = "none" /\ subscription' = [subscription EXCEPT ![x] = "active"]
      /\ subscribers' = Append(subscribers, x) /\ due' = due \cup ({x} \cap Listeners)
      /\ since' = [since EXCEPT ![x] = emitted]
      /\ ahead' = [ahead EXCEPT ![x] = ToSet(subscribers) \cap Plain]
      /\ queue' = queue /\ rerun' = rerun /\ observing' = observing /\ stack' = stack
      /\ panicking' = panicking /\ emitted' = emitted /\ handed' = handed /\ lost' = lost /\ cut' = cut
  BY DEF Subscribe, control
<1>2. RegistryType'
  BY <1>0, <1>1, Appended DEF TypeOK, RegistryType
<1>3. DrainsType' /\ StackType'
  BY <1>0, <1>1 DEF TypeOK, DrainsType, StackType, Idle
<1>4. HistoryType'
  BY <1>0, <1>1 DEF TypeOK, HistoryType
<1>5. \A y \in Subscribers : Active(y)' <=> Active(y) \/ y = x
  BY <1>0, <1>1 DEF TypeOK, RegistryType, Active
<1>6. Registered'
  <2>1. /\ subscribers' \in Seq(Subscribers) /\ Len(subscribers') = Len(subscribers) + 1
        /\ DOMAIN subscribers' = 1 .. Len(subscribers) + 1 /\ DOMAIN subscribers = 1 .. Len(subscribers)
        /\ Len(subscribers) \in Nat
        /\ \A i \in 1 .. Len(subscribers) : subscribers'[i] = subscribers[i]
        /\ subscribers'[Len(subscribers) + 1] = x
    BY <1>0, <1>1, Appended DEF TypeOK, RegistryType
  <2>2. \A y : Contains(subscribers', y) <=> Contains(subscribers, y) \/ y = x
    <3>1. \A i \in 1 .. Len(subscribers) + 1 : i \in 1 .. Len(subscribers) \/ i = Len(subscribers) + 1
      BY <2>1
    <3>2. \A i \in 1 .. Len(subscribers) : i \in 1 .. Len(subscribers) + 1
      BY <2>1
    <3>3. Len(subscribers) + 1 \in 1 .. Len(subscribers) + 1
      BY <2>1
    <3>4. QED
      BY <2>1, <3>1, <3>2, <3>3 DEF Contains
  <2>3. ~Active(x) /\ ~Contains(subscribers, x)
    BY <1>0, <1>1 DEF Registered, Active
  <2>4. Distinct(subscribers')
    BY <1>0, <2>1, <2>3 DEF Registered, Distinct, Contains
  <2>5. \A l \in due' \cup observing' : Active(l)'
    <3>1. \A l \in due' \cup observing' : l \in Subscribers /\ (l \in due \cup observing \/ l = x)
      BY <1>0, <1>1 DEF TypeOK, DrainsType, Subscribers
    <3>2. QED
      BY <1>0, <1>5, <3>1 DEF Registered
  <2>6. \A y \in Subscribers : Active(y)' <=> Contains(subscribers', y)
    BY <1>0, <1>5, <2>2 DEF Registered
  <2>7. QED
    BY <2>4, <2>5, <2>6 DEF Registered
<1>7. Attached'
  <2> SUFFICES ASSUME NEW l \in Listeners
               PROVE  /\ Active(l)' => l \in due' \cup observing'
                      /\ HasDrain(stack', l) =>
                           subscription'[l] # "none" /\ (Active(l)' => l \in observing')
    BY DEF Attached
  <2>1. CASE l # x
    <3>1. subscription'[l] = subscription[l] /\ l \in Subscribers
      BY <1>0, <1>1, <2>1 DEF Subscribers, TypeOK, RegistryType
    <3>2. QED
      BY <1>0, <1>1, <3>1 DEF Attached, Active
  <2>2. CASE l = x
    <3>1. ~HasDrain(stack, l)
      BY <1>0, <1>1, <2>2 DEF Attached
    <3>2. QED
      BY <1>1, <2>2, <3>1
  <2>3. QED
    BY <2>1, <2>2
<1>8. Owed'
  <2> SUFFICES ASSUME NEW l \in Listeners, Active(l)', queue'[l] # <<>>, ~cut'
               PROVE  l \in due' \/ (l \in rerun' /\ HasDrain(stack', l)) \/ HasEmission(stack')
    BY DEF Owed
  <2>1. CASE Active(l)
    BY <1>0, <1>1, <2>1 DEF Owed
  <2>2. CASE l = x
    BY <1>1, <2>2
  <2>3. QED
    BY <1>5, <2>1, <2>2 DEF Subscribers
<1>9. QED
  BY <1>0, <1>1, <1>2, <1>3, <1>4, <1>6, <1>7, <1>8 DEF EventsInv, TypeOK

LEMMA UnsubscribeKeeps ==
  ASSUME EventsInv, NEW x \in Subscribers, Unsubscribe(x)
  PROVE  EventsInv'
<1>0. TypeOK /\ Registered /\ StackOnce(stack) /\ Attached /\ Owed
  BY DEF EventsInv
<1>1. /\ subscription' = [subscription EXCEPT ![x] = "cancelled"]
      /\ due' = due \ {x} /\ observing' = observing \ {x}
      /\ queue' = queue /\ rerun' = rerun /\ stack' = stack /\ panicking' = panicking
      /\ emitted' = emitted /\ handed' = handed /\ since' = since /\ ahead' = ahead
      /\ lost' = lost /\ cut' = cut
  BY DEF Unsubscribe, control, history
<1>2. PICK k \in DOMAIN subscribers : subscribers[k] = x /\ subscribers' = RemoveAt(subscribers, k)
  BY DEF Unsubscribe
<1>3. /\ subscribers' \in Seq(Subscribers) /\ Distinct(subscribers')
      /\ \A y : Contains(subscribers', y) <=> Contains(subscribers, y) /\ y # x
  <2>1. subscribers \in Seq(Subscribers) /\ Distinct(subscribers)
    BY <1>0 DEF TypeOK, RegistryType, Registered
  <2>2. QED
    BY <1>2, <2>1, Removed
<1>4. RegistryType'
  BY <1>0, <1>1, <1>3 DEF TypeOK, RegistryType
<1>5. DrainsType' /\ StackType' /\ HistoryType'
  BY <1>0, <1>1 DEF TypeOK, DrainsType, StackType, HistoryType, Idle
<1>6. \A y \in Subscribers : Active(y)' <=> Active(y) /\ y # x
  BY <1>0, <1>1 DEF TypeOK, RegistryType, Active
<1>7. Registered'
  <2>1. \A y \in Subscribers : Active(y)' <=> Contains(subscribers', y)
    BY <1>0, <1>3, <1>6 DEF Registered
  <2>2. \A l \in due' \cup observing' : Active(l)'
    BY <1>0, <1>1, <1>6 DEF Registered, TypeOK, DrainsType, Subscribers
  <2>3. QED
    BY <1>3, <2>1, <2>2 DEF Registered
<1>8. Attached'
  <2> SUFFICES ASSUME NEW l \in Listeners
               PROVE  /\ Active(l)' => l \in due' \cup observing'
                      /\ HasDrain(stack', l) =>
                           subscription'[l] # "none" /\ (Active(l)' => l \in observing')
    BY DEF Attached
  <2>1. l \in Subscribers
    BY DEF Subscribers
  <2>2. subscription'[l] = "none" => subscription[l] = "none"
    BY <1>0, <1>1, <2>1 DEF TypeOK, RegistryType
  <2>3. QED
    BY <1>0, <1>1, <1>6, <2>1, <2>2 DEF Attached
<1>9. Owed'
  BY <1>0, <1>1, <1>6 DEF Owed, Subscribers
<1>10. QED
  BY <1>0, <1>1, <1>4, <1>5, <1>7, <1>8, <1>9 DEF EventsInv, TypeOK

(* What there is to show of a step that leaves the registry alone.          *)
LEMMA SameRegistry ==
  ASSUME EventsInv, UNCHANGED registry, DrainsType', StackType', HistoryType',
         StackOnce(stack'), \A l \in due' \cup observing' : Active(l),
         \A l \in Listeners :
           /\ Active(l) => l \in due' \cup observing'
           /\ HasDrain(stack', l) =>
                subscription[l] # "none" /\ (Active(l) => l \in observing')
           /\ Active(l) /\ queue'[l] # <<>> /\ ~cut' =>
                l \in due' \/ (l \in rerun' /\ HasDrain(stack', l)) \/ HasEmission(stack')
  PROVE  EventsInv'
<1>1. subscription' = subscription /\ subscribers' = subscribers
  BY DEF registry
<1>2. \A x : Active(x)' <=> Active(x)
  BY <1>1 DEF Active
<1>3. RegistryType' /\ Registered'
  <2>1. \A x : Contains(subscribers', x) <=> Contains(subscribers, x)
    BY <1>1
  <2>2. Distinct(subscribers')
    BY <1>1 DEF EventsInv, Registered
  <2>3. QED
    BY <1>1, <1>2, <2>1, <2>2 DEF EventsInv, TypeOK, RegistryType, Registered
<1>4. Attached'
  BY <1>1, <1>2 DEF Attached
<1>5. Owed'
  BY <1>2 DEF Owed
<1>6. QED
  BY <1>3, <1>4, <1>5 DEF EventsInv, TypeOK

LEMMA EmitKeeps == EventsInv /\ Emit => EventsInv'
<1> SUFFICES ASSUME EventsInv, Emit PROVE EventsInv'
  OBVIOUS
<1>0. TypeOK /\ Registered /\ StackOnce(stack) /\ Attached /\ Owed
  BY DEF EventsInv
<1>1. /\ emitted' = emitted + 1 /\ stack' = Append(stack, Emission(emitted'))
      /\ UNCHANGED registry
      /\ queue' = queue /\ due' = due /\ rerun' = rerun /\ observing' = observing
      /\ panicking' = panicking /\ handed' = handed /\ since' = since /\ ahead' = ahead
      /\ lost' = lost /\ cut' = cut /\ ~panicking
  BY DEF Emit, drains, MayOpen, UserCode
<1>2. PICK f \in Frames : f = Emission(emitted') /\ f.kind = "emit" /\ f.rest = subscribers
  <2>1. PICK n \in Nat, r \in Seq(Subscribers) : n = emitted' /\ r = subscribers
    BY <1>0, <1>1 DEF TypeOK, HistoryType, RegistryType
  <2>2. /\ Frame("emit", "none", n, r) \in Frames
        /\ Frame("emit", "none", n, r).kind = "emit" /\ Frame("emit", "none", n, r).rest = r
        /\ Frame("emit", "none", n, r).value = n
    BY FrameType
  <2>3. Emission(emitted') = Frame("emit", "none", n, r)
    BY <2>1 DEF Emission
  <2>4. QED
    BY <2>1, <2>2, <2>3
<1>3. stack \in Seq(Frames) /\ stack' = Append(stack, f)
  BY <1>0, <1>1, <1>2 DEF TypeOK, StackType
<1>4. stack' \in Seq(Frames) /\ StackOnce(stack') /\ HasEmission(stack')
      /\ \A l : HasDrain(stack', l) <=> HasDrain(stack, l)
  BY <1>0, <1>2, <1>3, OnStack, Appended DEF Registered
<1>5. DrainsType' /\ StackType' /\ HistoryType'
  BY <1>0, <1>1, <1>4 DEF TypeOK, DrainsType, StackType, HistoryType
<1>6. QED
  BY <1>0, <1>1, <1>4, <1>5, SameRegistry DEF Registered, Attached

LEMMA CallPlainKeeps == EventsInv /\ CallPlain => EventsInv'
<1> SUFFICES ASSUME EventsInv, CallPlain PROVE EventsInv'
  OBVIOUS
<1>0. TypeOK /\ Registered /\ StackOnce(stack) /\ Attached /\ Owed
  BY DEF EventsInv
<1>1. /\ On("emit") /\ Top.rest # <<>> /\ Head(Top.rest) \in Plain
      /\ stack' = Append(Retop(Rest), Call(Head(Top.rest), Top.value))
      /\ handed' = [handed EXCEPT ![Head(Top.rest)] = Append(@, Top.value)]
      /\ UNCHANGED registry
      /\ queue' = queue /\ due' = due /\ rerun' = rerun /\ observing' = observing
      /\ panicking' = panicking /\ emitted' = emitted /\ since' = since /\ ahead' = ahead
      /\ lost' = lost /\ cut' = cut /\ ~panicking
  BY DEF CallPlain, drains
<1>2. stack \in Seq(Frames)
  BY <1>0 DEF TypeOK, StackType
<1>3. /\ Pop \in Seq(Frames) /\ stack = Append(Pop, Top) /\ Top \in Frames /\ Top \in Emissions
      /\ Rest \in Frames /\ Rest.kind = "emit" /\ Rest.rest = Tail(Top.rest)
      /\ Retop(Rest) = Append(Pop, Rest) /\ Top.kind = "emit"
  BY <1>1, <1>2, RestType DEF On
<1>4. PICK x \in Plain, v \in Nat : x = Head(Top.rest) /\ v = Top.value
  BY <1>1, <1>3, FrameType
<1>5. PICK f \in Frames : f = Call(x, v) /\ f.kind = "call"
  BY FrameType DEF Call
<1>6. PICK s \in Seq(Frames) : s = Append(Pop, Rest)
  BY <1>3, Appended
<1>7. stack' = Append(s, f)
  BY <1>1, <1>3, <1>4, <1>5, <1>6
<1>8. /\ StackOnce(s) /\ HasEmission(s) /\ \A l : HasDrain(s, l) <=> HasDrain(stack, l)
  <2>1. Distinct(Rest.rest)
    <3>1. Distinct(Top.rest) /\ Top.rest \in Seq(Subscribers)
      BY <1>0, <1>3, OnStack, FrameType
    <3>2. QED
      BY <1>1, <1>3, <3>1, RestContains
  <2>2. StackOnce(Pop) /\ \A l : HasDrain(stack, l) <=> HasDrain(Pop, l)
    BY <1>0, <1>3, OnStack
  <2>3. QED
    BY <1>3, <1>6, <2>1, <2>2, OnStack
<1>9. stack' \in Seq(Frames) /\ StackOnce(stack') /\ HasEmission(stack')
      /\ \A l : HasDrain(stack', l) <=> HasDrain(stack, l)
  BY <1>5, <1>7, <1>8, OnStack, Appended
<1>10. handed' \in [Subscribers -> Seq(Nat)]
  <2>1. x \in Subscribers /\ handed[x] \in Seq(Nat)
    BY <1>0 DEF TypeOK, HistoryType, Subscribers
  <2>2. Append(handed[x], v) \in Seq(Nat)
    BY <2>1, Appended
  <2>3. QED
    BY <1>0, <1>1, <1>4, <2>2 DEF TypeOK, HistoryType
<1>11. DrainsType' /\ StackType' /\ HistoryType'
  BY <1>0, <1>1, <1>9, <1>10 DEF TypeOK, DrainsType, StackType, HistoryType
<1>12. QED
  BY <1>0, <1>1, <1>9, <1>11, SameRegistry DEF Registered, Attached

(* A stack whose top has its next call behind it, and one without its top.  *)
LEMMA RestOnStack ==
  ASSUME stack \in Seq(Frames), StackOnce(stack), On("emit") \/ On("drain"), Top.rest # <<>>
  PROVE  /\ Retop(Rest) \in Seq(Frames) /\ Retop(Rest) = Append(Pop, Rest) /\ StackOnce(Retop(Rest))
         /\ \A l : HasDrain(Retop(Rest), l) <=> HasDrain(stack, l)
         /\ HasEmission(Retop(Rest)) <=> HasEmission(stack)
<1>1. /\ Pop \in Seq(Frames) /\ stack = Append(Pop, Top) /\ Top \in Frames
      /\ Rest \in Frames /\ Rest.kind = Top.kind /\ Rest.who = Top.who /\ Rest.rest = Tail(Top.rest)
      /\ Retop(Rest) = Append(Pop, Rest)
  BY RestType
<1>2. StackOnce(Pop) /\ \A l : HasDrain(stack, l) <=> HasDrain(Pop, l) \/ (Top.kind = "drain" /\ Top.who = l)
  BY <1>1, OnStack
<1>3. HasEmission(stack) <=> HasEmission(Pop) \/ Top.kind = "emit"
  BY <1>1, OnStack
<1>4. Top.kind = "drain" => ~HasDrain(Pop, Top.who)
  BY <1>1, OnStack
<1>5. Top.kind = "emit" => Distinct(Rest.rest)
  <2> SUFFICES ASSUME Top.kind = "emit" PROVE Distinct(Rest.rest)
    OBVIOUS
  <2>1. Distinct(Top.rest) /\ Top.rest \in Seq(Subscribers)
    BY <1>1, OnStack, FrameType
  <2>2. QED
    BY <1>1, <2>1, RestContains
<1>6. StackOnce(Append(Pop, Rest))
  BY <1>1, <1>2, <1>4, <1>5, OnStack
<1>7. /\ \A l : HasDrain(Append(Pop, Rest), l) <=> HasDrain(stack, l)
      /\ HasEmission(Append(Pop, Rest)) <=> HasEmission(stack)
  BY <1>1, <1>2, <1>3, OnStack
<1>8. QED
  BY <1>1, <1>6, <1>7, Appended

LEMMA PopOnStack ==
  ASSUME stack \in Seq(Frames), StackOnce(stack), ~Idle
  PROVE  /\ Pop \in Seq(Frames) /\ StackOnce(Pop) /\ Top \in Frames
         /\ \A l : HasDrain(stack, l) <=> HasDrain(Pop, l) \/ (Top.kind = "drain" /\ Top.who = l)
         /\ HasEmission(stack) <=> HasEmission(Pop) \/ Top.kind = "emit"
         /\ Top.kind = "drain" => ~HasDrain(Pop, Top.who)
<1>1. Pop \in Seq(Frames) /\ Top \in Frames /\ stack = Append(Pop, Top)
  BY TopType
<1>2. /\ \A l : HasDrain(Append(Pop, Top), l) <=> HasDrain(Pop, l) \/ (Top.kind = "drain" /\ Top.who = l)
      /\ HasEmission(Append(Pop, Top)) <=> HasEmission(Pop) \/ Top.kind = "emit"
      /\ StackOnce(Append(Pop, Top)) =>
           StackOnce(Pop) /\ (Top.kind = "drain" => ~HasDrain(Pop, Top.who))
  BY <1>1, OnStack
<1>3. QED
  BY <1>1, <1>2

LEMMA EnqueueKeeps == EventsInv /\ Enqueue => EventsInv'
<1> SUFFICES ASSUME EventsInv, Enqueue PROVE EventsInv'
  OBVIOUS
<1>0. TypeOK /\ Registered /\ StackOnce(stack) /\ Attached /\ Owed
  BY DEF EventsInv
<1>1. /\ On("emit") /\ Top.rest # <<>> /\ Head(Top.rest) \in Listeners /\ ~panicking
      /\ stack' = Retop(Rest)
      /\ queue' = [queue EXCEPT ![Head(Top.rest)] = Append(@, Top.value)]
      /\ UNCHANGED registry
      /\ due' = due /\ rerun' = rerun /\ observing' = observing
      /\ panicking' = panicking /\ emitted' = emitted /\ since' = since /\ ahead' = ahead
      /\ handed' = handed /\ lost' = lost /\ cut' = cut
  BY DEF Enqueue, history
<1>2. stack \in Seq(Frames)
  BY <1>0 DEF TypeOK, StackType
<1>3. ~Idle /\ Top \in Emissions
  BY <1>1, <1>2, RestType DEF On
<1>4. PICK x \in Listeners, v \in Nat : x = Head(Top.rest) /\ v = Top.value
  BY <1>1, <1>3, FrameType
<1>5. HasEmission(stack)
  BY <1>1, <1>2, <1>3, PopOnStack, <1>0 DEF On
<1>6. stack' \in Seq(Frames) /\ StackOnce(stack') /\ HasEmission(stack')
      /\ \A l : HasDrain(stack', l) <=> HasDrain(stack, l)
  BY <1>0, <1>1, <1>2, <1>5, RestOnStack
<1>7. queue' \in [Listeners -> Seq(Nat)]
  <2>1. queue[x] \in Seq(Nat)
    BY <1>0 DEF TypeOK, DrainsType
  <2>2. Append(queue[x], v) \in Seq(Nat)
    BY <2>1, Appended
  <2>3. QED
    BY <1>0, <1>1, <1>4, <2>2 DEF TypeOK, DrainsType
<1>8. DrainsType' /\ StackType' /\ HistoryType'
  BY <1>0, <1>1, <1>6, <1>7 DEF TypeOK, DrainsType, StackType, HistoryType
<1>9. QED
  BY <1>0, <1>1, <1>6, <1>8, SameRegistry DEF Registered, Attached

LEMMA TriggerKeeps == EventsInv /\ Trigger => EventsInv'
<1> SUFFICES ASSUME EventsInv, Trigger PROVE EventsInv'
  OBVIOUS
<1>0. TypeOK /\ Registered /\ StackOnce(stack) /\ Attached /\ Owed
  BY DEF EventsInv
<1>1. /\ On("emit") /\ ~panicking /\ stack' = Pop /\ due' = due \cup observing
      /\ UNCHANGED registry
      /\ queue' = queue /\ rerun' = rerun /\ observing' = observing
      /\ panicking' = panicking /\ emitted' = emitted /\ since' = since /\ ahead' = ahead
      /\ handed' = handed /\ lost' = lost /\ cut' = cut
  BY DEF Trigger, history
<1>2. stack \in Seq(Frames) /\ ~Idle
  BY <1>0, <1>1, OnTop DEF TypeOK, StackType, On
<1>3. /\ stack' \in Seq(Frames) /\ StackOnce(stack') /\ Top.kind = "emit"
      /\ \A l : HasDrain(stack', l) <=> HasDrain(stack, l)
  BY <1>0, <1>1, <1>2, PopOnStack DEF On
<1>4. DrainsType' /\ StackType' /\ HistoryType'
  BY <1>0, <1>1, <1>3 DEF TypeOK, DrainsType, StackType, HistoryType
<1>5. \A l \in due' \cup observing' : Active(l)
  BY <1>0, <1>1 DEF Registered
<1>6. \A l \in Listeners : Active(l) => l \in due'
  BY <1>0, <1>1 DEF Attached
<1>7. QED
  BY <1>0, <1>1, <1>3, <1>4, <1>5, <1>6, SameRegistry DEF Attached

LEMMA RunDrainKeeps ==
  ASSUME EventsInv, NEW l \in Listeners, RunDrain(l)
  PROVE  EventsInv'
<1>0. TypeOK /\ Registered /\ StackOnce(stack) /\ Attached /\ Owed
  BY DEF EventsInv
<1>1. /\ l \in due /\ due' = due \ {l} /\ ~panicking
      /\ UNCHANGED registry
      /\ panicking' = panicking /\ emitted' = emitted /\ since' = since /\ ahead' = ahead
      /\ handed' = handed /\ lost' = lost /\ cut' = cut
  BY DEF RunDrain, history, MayOpen, UserCode
<1>2. Active(l)
  BY <1>0, <1>1 DEF Registered
<1>3. HistoryType'
  BY <1>0, <1>1 DEF TypeOK, HistoryType
<1>4. CASE HasDrain(stack, l)
  <2>1. rerun' = rerun \cup {l} /\ queue' = queue /\ observing' = observing /\ stack' = stack
    BY <1>4 DEF RunDrain, Draining, HasDrain
  <2>2. DrainsType' /\ StackType'
    BY <1>0, <1>1, <2>1 DEF TypeOK, DrainsType, StackType
  <2>3. l \in observing
    BY <1>0, <1>2, <1>4 DEF Attached
  <2>4. \A m \in due' \cup observing' : Active(m)
    BY <1>0, <1>1, <2>1 DEF Registered
  <2>5. ASSUME NEW m \in Listeners
        PROVE  /\ Active(m) => m \in due' \cup observing'
               /\ HasDrain(stack', m) => subscription[m] # "none" /\ (Active(m) => m \in observing')
               /\ Active(m) /\ queue'[m] # <<>> /\ ~cut' =>
                    m \in due' \/ (m \in rerun' /\ HasDrain(stack', m)) \/ HasEmission(stack')
    <3>1. CASE m = l
      BY <1>0, <1>1, <1>4, <2>1, <2>3, <3>1 DEF Attached
    <3>2. CASE m # l
      BY <1>0, <1>1, <2>1, <3>2 DEF Attached, Owed
    <3>3. QED
      BY <3>1, <3>2
  <2>6. StackOnce(stack')
    BY <1>0, <2>1
  <2>7. QED
    BY <1>1, <1>3, <2>2, <2>4, <2>5, <2>6, SameRegistry
<1>5. CASE ~HasDrain(stack, l)
  <2>1. /\ rerun' = rerun /\ queue' = [queue EXCEPT ![l] = <<>>] /\ observing' = observing \cup {l}
        /\ stack' = Append(stack, Drain(l))
    BY <1>5 DEF RunDrain, Draining, HasDrain, Observe
  <2>2. PICK f \in Frames : f = Drain(l) /\ f.kind = "drain" /\ f.who = l
    BY <1>0, FrameType DEF Drain, TypeOK, DrainsType
  <2>3. stack \in Seq(Frames) /\ stack' = Append(stack, f)
    BY <1>0, <2>1, <2>2 DEF TypeOK, StackType
  <2>4. /\ stack' \in Seq(Frames) /\ StackOnce(stack') /\ stack' # <<>>
        /\ \A m : HasDrain(stack', m) <=> HasDrain(stack, m) \/ m = l
        /\ HasEmission(stack') <=> HasEmission(stack)
    BY <1>0, <1>5, <2>2, <2>3, OnStack, Appended
  <2>5. StackType'
    BY <1>0, <1>1, <2>4 DEF TypeOK, StackType
  <2>6. DrainsType'
    <3>1. <<>> \in Seq(Nat)
      OBVIOUS
    <3>2. QED
      BY <1>0, <1>1, <2>1, <3>1 DEF TypeOK, DrainsType
  <2>7. \A m \in due' \cup observing' : Active(m)
    BY <1>0, <1>1, <1>2, <2>1 DEF Registered
  <2>8. ASSUME NEW m \in Listeners
        PROVE  /\ Active(m) => m \in due' \cup observing'
               /\ HasDrain(stack', m) => subscription[m] # "none" /\ (Active(m) => m \in observing')
               /\ Active(m) /\ queue'[m] # <<>> /\ ~cut' =>
                    m \in due' \/ (m \in rerun' /\ HasDrain(stack', m)) \/ HasEmission(stack')
    <3>1. CASE m = l
      <4>1. queue'[m] = <<>> /\ m \in observing'
        BY <1>0, <2>1, <3>1 DEF TypeOK, DrainsType
      <4>2. subscription[m] # "none"
        BY <1>2, <3>1 DEF Active
      <4>3. QED
        BY <4>1, <4>2
    <3>2. CASE m # l
      <4>1. queue'[m] = queue[m]
        BY <1>0, <2>1, <3>2 DEF TypeOK, DrainsType
      <4>2. QED
        BY <1>0, <1>1, <2>1, <2>4, <3>2, <4>1 DEF Attached, Owed
    <3>3. QED
      BY <3>1, <3>2
  <2>9. QED
    BY <1>1, <1>3, <2>4, <2>5, <2>6, <2>7, <2>8, SameRegistry
<1>6. QED
  BY <1>4, <1>5

LEMMA CallHandlerKeeps == EventsInv /\ CallHandler => EventsInv'
<1> SUFFICES ASSUME EventsInv, CallHandler PROVE EventsInv'
  OBVIOUS
<1>0. TypeOK /\ Registered /\ StackOnce(stack) /\ Attached /\ Owed
  BY DEF EventsInv
<1>1. /\ On("drain") /\ Top.rest # <<>> /\ ~panicking
      /\ stack' = Append(Retop(Rest), Handle(Top.who, Head(Top.rest)))
      /\ handed' = [handed EXCEPT ![Top.who] = Append(@, Head(Top.rest))]
      /\ UNCHANGED registry
      /\ queue' = queue /\ due' = due /\ rerun' = rerun /\ observing' = observing
      /\ panicking' = panicking /\ emitted' = emitted /\ since' = since /\ ahead' = ahead
      /\ lost' = lost /\ cut' = cut
  BY DEF CallHandler, drains
<1>2. stack \in Seq(Frames)
  BY <1>0 DEF TypeOK, StackType
<1>3. Top \in Drains /\ Head(Top.rest) \in Nat
  BY <1>1, <1>2, RestType
<1>4. PICK l \in Listeners, v \in Nat : l = Top.who /\ v = Head(Top.rest)
  BY <1>3, FrameType
<1>5. PICK f \in Frames : f = Handle(l, v) /\ f.kind = "handle"
  BY FrameType DEF Handle
<1>6. PICK s \in Seq(Frames) : /\ s = Retop(Rest) /\ StackOnce(s)
                               /\ \A m : HasDrain(s, m) <=> HasDrain(stack, m)
                               /\ HasEmission(s) <=> HasEmission(stack)
  BY <1>0, <1>1, <1>2, RestOnStack
<1>7. stack' = Append(s, f)
  BY <1>1, <1>4, <1>5, <1>6
<1>8. /\ stack' \in Seq(Frames) /\ StackOnce(stack') /\ stack' # <<>>
      /\ \A m : HasDrain(stack', m) <=> HasDrain(stack, m)
      /\ HasEmission(stack') <=> HasEmission(stack)
  BY <1>5, <1>6, <1>7, OnStack, Appended
<1>9. handed' \in [Subscribers -> Seq(Nat)]
  <2>1. l \in Subscribers /\ handed[l] \in Seq(Nat)
    BY <1>0 DEF TypeOK, HistoryType, Subscribers
  <2>2. Append(handed[l], v) \in Seq(Nat)
    BY <2>1, Appended
  <2>3. QED
    BY <1>0, <1>1, <1>4, <2>2 DEF TypeOK, HistoryType
<1>10. DrainsType' /\ StackType' /\ HistoryType'
  BY <1>0, <1>1, <1>8, <1>9 DEF TypeOK, DrainsType, StackType, HistoryType
<1>11. QED
  BY <1>0, <1>1, <1>8, <1>10, SameRegistry DEF Registered, Attached, Owed

LEMMA EndDrainKeeps == EventsInv /\ EndDrain => EventsInv'
<1> SUFFICES ASSUME EventsInv, EndDrain PROVE EventsInv'
  OBVIOUS
<1>0. TypeOK /\ Registered /\ StackOnce(stack) /\ Attached /\ Owed
  BY DEF EventsInv
<1>1. /\ On("drain") /\ ~panicking /\ stack' = Pop
      /\ due' = due \cup {l \in rerun \cap {Top.who} : Active(l)} /\ rerun' = rerun \ {Top.who}
      /\ UNCHANGED registry
      /\ queue' = queue /\ observing' = observing
      /\ panicking' = panicking /\ emitted' = emitted /\ since' = since /\ ahead' = ahead
      /\ handed' = handed /\ lost' = lost /\ cut' = cut
  BY DEF EndDrain, history
<1>2. stack \in Seq(Frames) /\ ~Idle
  BY <1>0, <1>1, OnTop DEF TypeOK, StackType, On
<1>3. /\ stack' \in Seq(Frames) /\ StackOnce(stack') /\ Top.kind = "drain"
      /\ \A l : HasDrain(stack, l) <=> HasDrain(stack', l) \/ Top.who = l
      /\ HasEmission(stack') <=> HasEmission(stack)
  BY <1>0, <1>1, <1>2, PopOnStack DEF On
<1>4. DrainsType' /\ StackType' /\ HistoryType'
  BY <1>0, <1>1, <1>3 DEF TypeOK, DrainsType, StackType, HistoryType
<1>5. \A l \in due' \cup observing' : Active(l)
  BY <1>0, <1>1 DEF Registered
<1>6. ASSUME NEW l \in Listeners
      PROVE  /\ Active(l) => l \in due' \cup observing'
             /\ HasDrain(stack', l) => subscription[l] # "none" /\ (Active(l) => l \in observing')
             /\ Active(l) /\ queue'[l] # <<>> /\ ~cut' =>
                  l \in due' \/ (l \in rerun' /\ HasDrain(stack', l)) \/ HasEmission(stack')
  <2>1. CASE l = Top.who
    BY <1>0, <1>1, <1>3, <2>1 DEF Attached, Owed
  <2>2. CASE l # Top.who
    BY <1>0, <1>1, <1>3, <2>2 DEF Attached, Owed
  <2>3. QED
    BY <2>1, <2>2
<1>7. QED
  BY <1>1, <1>3, <1>4, <1>5, <1>6, SameRegistry

LEMMA ReturnKeeps == EventsInv /\ Return => EventsInv'
<1> SUFFICES ASSUME EventsInv, Return PROVE EventsInv'
  OBVIOUS
<1>0. TypeOK /\ Registered /\ StackOnce(stack) /\ Attached /\ Owed
  BY DEF EventsInv
<1>1. /\ Top.kind \in {"call", "handle"} /\ ~panicking /\ stack' = Pop
      /\ UNCHANGED registry
      /\ queue' = queue /\ due' = due /\ rerun' = rerun /\ observing' = observing
      /\ panicking' = panicking /\ emitted' = emitted /\ since' = since /\ ahead' = ahead
      /\ handed' = handed /\ lost' = lost /\ cut' = cut
  BY DEF Return, history, drains
<1>2. stack \in Seq(Frames) /\ ~Idle
  BY <1>0, <1>1, OnTop DEF TypeOK, StackType
<1>3. /\ stack' \in Seq(Frames) /\ StackOnce(stack')
      /\ \A l : HasDrain(stack', l) <=> HasDrain(stack, l)
      /\ HasEmission(stack') <=> HasEmission(stack)
  BY <1>0, <1>1, <1>2, PopOnStack
<1>4. DrainsType' /\ StackType' /\ HistoryType'
  BY <1>0, <1>1, <1>3 DEF TypeOK, DrainsType, StackType, HistoryType
<1>5. QED
  BY <1>0, <1>1, <1>3, <1>4, SameRegistry DEF Registered, Attached, Owed

LEMMA PanicKeeps == EventsInv /\ Panic => EventsInv'
<1> SUFFICES ASSUME EventsInv, Panic PROVE EventsInv'
  OBVIOUS
<1>0. TypeOK /\ Registered /\ StackOnce(stack) /\ Attached /\ Owed
  BY DEF EventsInv
<1>1. /\ Top.kind \in {"call", "handle"} /\ panicking' = TRUE /\ stack' = stack
      /\ UNCHANGED registry
      /\ queue' = queue /\ due' = due /\ rerun' = rerun /\ observing' = observing
      /\ emitted' = emitted /\ since' = since /\ ahead' = ahead
      /\ handed' = handed /\ lost' = lost /\ cut' = cut
  BY DEF Panic, history, drains
<1>2. ~Idle
  BY <1>1, OnTop
<1>3. DrainsType' /\ StackType' /\ HistoryType'
  BY <1>0, <1>1, <1>2 DEF TypeOK, DrainsType, StackType, HistoryType, Idle
<1>4. QED
  BY <1>0, <1>1, <1>3, SameRegistry DEF Registered, Attached, Owed

(* A panic goes on while frames are left. *)
LEMMA GoesOn ==
  ASSUME panicking' = (Len(stack) > 1)
  PROVE  panicking' \in BOOLEAN /\ (panicking' => Len(stack) > 1)
<1>1. CASE Len(stack) > 1
  <2>1. panicking' = TRUE
    BY <1>1, Zenon
  <2>2. QED
    BY <1>1, <2>1
<1>2. CASE ~(Len(stack) > 1)
  <2>1. (Len(stack) > 1) = FALSE
    BY <1>2
  <2>2. panicking' = FALSE
    BY <2>1
  <2>3. QED
    BY <2>2
<1>3. QED
  BY <1>1, <1>2, Zenon

(* What a panic takes down. *)
LEMMA LostIs ==
  ASSUME Unwind, NEW x \in Subscribers
  PROVE  \A v : v \in lost'[x] <=>
           \/ v \in lost[x]
           \/ On("emit") /\ Contains(Top.rest, x) /\ v = Top.value
           \/ On("drain") /\ Top.who = x /\ v \in ToSet(Top.rest)
<1> DEFINE down == CASE On("emit") -> IF Contains(Top.rest, x) THEN {Top.value} ELSE {}
                     [] On("drain") -> IF Top.who = x THEN ToSet(Top.rest) ELSE {}
                     [] OTHER -> {}
<1>1. lost'[x] = lost[x] \cup down
  BY DEF Unwind
<1>2. ~(On("emit") /\ On("drain"))
  BY DEF On
<1>3. On("emit") => down = IF Contains(Top.rest, x) THEN {Top.value} ELSE {}
  BY <1>2
<1>4. On("drain") => down = IF Top.who = x THEN ToSet(Top.rest) ELSE {}
  BY <1>2
<1>5. ~On("emit") /\ ~On("drain") => down = {}
  OBVIOUS
<1> HIDE DEF down
<1>6. QED
  BY <1>1, <1>2, <1>3, <1>4, <1>5

LEMMA UnwindKeeps == EventsInv /\ Unwind => EventsInv'
<1> SUFFICES ASSUME EventsInv, Unwind PROVE EventsInv'
  OBVIOUS
<1>0. TypeOK /\ Registered /\ StackOnce(stack) /\ Attached /\ Owed
  BY DEF EventsInv
<1>1. /\ panicking /\ stack' = Pop /\ panicking' = (Len(stack) > 1)
      /\ lost' = [x \in Subscribers |->
           lost[x] \cup
             CASE On("emit") -> IF Contains(Top.rest, x) THEN {Top.value} ELSE {}
               [] On("drain") -> IF Top.who = x THEN ToSet(Top.rest) ELSE {}
               [] OTHER -> {}]
      /\ cut' = (cut \/ On("emit") \/ On("drain"))
      /\ UNCHANGED registry
      /\ queue' = queue /\ due' = due /\ rerun' = rerun /\ observing' = observing
      /\ emitted' = emitted /\ since' = since /\ ahead' = ahead /\ handed' = handed
  BY DEF Unwind, drains
<1>2. stack \in Seq(Frames) /\ ~Idle
  BY <1>0, <1>1 DEF TypeOK, StackType
<1>3. /\ stack' \in Seq(Frames) /\ StackOnce(stack') /\ Top \in Frames
      /\ \A l : HasDrain(stack, l) <=> HasDrain(stack', l) \/ (Top.kind = "drain" /\ Top.who = l)
      /\ HasEmission(stack) <=> HasEmission(stack') \/ Top.kind = "emit"
  BY <1>0, <1>1, <1>2, PopOnStack
<1>4. StackType'
  <2>1. Len(stack) \in Nat \ {0} /\ Len(stack') = Len(stack) - 1
    BY <1>1, <1>2, TopType
  <2>2. Len(stack) > 1 => stack' # <<>>
    <3>1. stack' = <<>> => Len(stack') = 0
      OBVIOUS
    <3>2. QED
      BY <2>1, <3>1
  <2>3. panicking' \in BOOLEAN /\ (panicking' => Len(stack) > 1)
    BY <1>1, GoesOn
  <2>4. QED
    BY <1>3, <2>2, <2>3 DEF StackType, Idle
<1>5. HistoryType'
  <2>1. ASSUME NEW x \in Subscribers PROVE lost'[x] \in SUBSET Nat
    <3>1. lost[x] \in SUBSET Nat
      BY <1>0 DEF TypeOK, HistoryType
    <3>2. On("emit") => Top.value \in Nat
      BY <1>3, FrameType DEF On
    <3>3. On("drain") => ToSet(Top.rest) \subseteq Nat
      <4>1. On("drain") => Top.rest \in Seq(Nat)
        BY <1>3, FrameType DEF On
      <4>2. \A s \in Seq(Nat) : ToSet(s) \subseteq Nat
        BY DEF ToSet
      <4>3. QED
        BY <4>1, <4>2
    <3>4. \A v \in lost'[x] :
            \/ v \in lost[x] \/ (On("emit") /\ v = Top.value)
            \/ (On("drain") /\ v \in ToSet(Top.rest))
      BY LostIs
    <3>5. QED
      BY <3>1, <3>2, <3>3, <3>4
  <2>2. lost' \in [Subscribers -> SUBSET Nat]
    <3>1. DOMAIN lost' = Subscribers /\ lost' = [x \in Subscribers |-> lost'[x]]
      BY <1>1
    <3>2. QED
      BY <2>1, <3>1
  <2>3. cut' \in BOOLEAN
    BY <1>1
  <2>4. QED
    BY <1>0, <1>1, <2>2, <2>3 DEF TypeOK, HistoryType
<1>6. DrainsType'
  BY <1>0, <1>1 DEF TypeOK, DrainsType
<1>7. ASSUME NEW l \in Listeners
      PROVE  /\ Active(l) => l \in due' \cup observing'
             /\ HasDrain(stack', l) => subscription[l] # "none" /\ (Active(l) => l \in observing')
             /\ Active(l) /\ queue'[l] # <<>> /\ ~cut' =>
                  l \in due' \/ (l \in rerun' /\ HasDrain(stack', l)) \/ HasEmission(stack')
  <2>1. ~cut' => ~cut /\ Top.kind # "emit" /\ Top.kind # "drain"
    BY <1>1 DEF On
  <2>2. QED
    BY <1>0, <1>1, <1>3, <2>1 DEF Attached, Owed
<1>8. QED
  BY <1>0, <1>1, <1>3, <1>4, <1>5, <1>6, <1>7, SameRegistry DEF Registered

LEMMA EventsStep == EventsInv /\ [Next]_vars => EventsInv'
<1> SUFFICES ASSUME EventsInv, [Next]_vars PROVE EventsInv'
  OBVIOUS
<1>1. ASSUME NEW x \in Subscribers, Subscribe(x) \/ Unsubscribe(x) PROVE EventsInv'
  BY <1>1, SubscribeKeeps, UnsubscribeKeeps
<1>2. ASSUME NEW l \in Listeners, RunDrain(l) PROVE EventsInv'
  BY <1>2, RunDrainKeeps
<1>3. CASE Emit \/ CallPlain \/ Enqueue \/ Trigger
  BY <1>3, EmitKeeps, CallPlainKeeps, EnqueueKeeps, TriggerKeeps
<1>4. CASE CallHandler \/ EndDrain
  BY <1>4, CallHandlerKeeps, EndDrainKeeps
<1>5. CASE Return \/ Panic \/ Unwind
  BY <1>5, ReturnKeeps, PanicKeeps, UnwindKeeps
<1>6. CASE UNCHANGED vars
  <2>1. /\ UNCHANGED registry /\ queue' = queue /\ due' = due /\ rerun' = rerun
        /\ observing' = observing /\ stack' = stack /\ panicking' = panicking
        /\ emitted' = emitted /\ handed' = handed /\ since' = since /\ ahead' = ahead
        /\ lost' = lost /\ cut' = cut
    BY <1>6 DEF vars, drains, control, history
  <2>2. DrainsType' /\ StackType' /\ HistoryType'
    BY <2>1 DEF EventsInv, TypeOK, DrainsType, StackType, HistoryType, Idle
  <2>3. QED
    BY <2>1, <2>2, SameRegistry DEF EventsInv, Registered, Attached, Owed
<1>7. QED
  BY <1>1, <1>2, <1>3, <1>4, <1>5, <1>6 DEF Next

LEMMA EventsCorrect == Spec => []EventsInv
BY EventsInit, EventsStep, PTL DEF Spec

(* A listener whose queue is not empty is going to be drained: whatever     *)
(* subscribers and handlers do in the middle of an emission or a drain, its *)
(* effect is queued or will be requeued, or an emission still has to        *)
(* trigger it, unless a panic has cut an emission or a drain short.         *)
THEOREM QueuedIsDueCorrect == Spec => []QueuedIsDue
<1>1. EventsInv => QueuedIsDue
  BY DEF EventsInv, Owed, QueuedIsDue, Draining, HasDrain, HasEmission
<1>2. QED
  BY <1>1, EventsCorrect, PTL

-----------------------------------------------------------------------------
(* How often a member of a set occurs in a list.                           *)

LEMMA CountType ==
  ASSUME NEW S, NEW s \in Seq(S), NEW G
  PROVE  IsFiniteSet(Spots(s, G)) /\ Count(s, G) \in Nat /\ IsFiniteSet(DOMAIN s)
<1>1. DOMAIN s = 1 .. Len(s) /\ Len(s) \in Nat
  BY LenProperties
<1>2. IsFiniteSet(DOMAIN s)
  BY <1>1, FS_Interval, 1 \in Int, Len(s) \in Int
<1>3. Spots(s, G) \in SUBSET DOMAIN s
  BY DEF Spots
<1>4. QED
  BY <1>2, <1>3, FS_Subset, FS_CardinalityType DEF Count

LEMMA CountNone == \A G : Count(<<>>, G) = 0
<1>1. \A G : Spots(<<>>, G) = {}
  BY DEF Spots
<1>2. QED
  BY <1>1, FS_EmptySet DEF Count

LEMMA CountAppended ==
  ASSUME NEW S, NEW s \in Seq(S), NEW x \in S, NEW G
  PROVE  Count(Append(s, x), G) = Count(s, G) + One(x \in G)
<1> DEFINE A == Spots(s, G)
           B == Spots(Append(s, x), G)
           n == Len(s) + 1
<1>1. /\ DOMAIN Append(s, x) = 1 .. n /\ DOMAIN s = 1 .. Len(s) /\ Len(s) \in Nat
      /\ \A i \in 1 .. Len(s) : Append(s, x)[i] = s[i]
      /\ Append(s, x)[n] = x
  BY Appended
<1>2. IsFiniteSet(A) /\ Cardinality(A) \in Nat
  BY CountType DEF Count
<1>3. \A i \in 1 .. n : i \in 1 .. Len(s) \/ i = n
  BY <1>1
<1>4. n \notin DOMAIN s /\ n \in 1 .. n /\ \A i \in 1 .. Len(s) : i \in 1 .. n
  BY <1>1
<1> HIDE DEF n
<1>5. CASE x \in G
  <2>1. B = A \cup {n}
    BY <1>1, <1>3, <1>4, <1>5 DEF Spots
  <2>2. n \notin A
    BY <1>4 DEF Spots
  <2> HIDE DEF A, B
  <2>3. Cardinality(A \cup {n}) = Cardinality(A) + 1
    BY <1>2, <2>2, FS_AddElement
  <2>4. QED
    BY <1>5, <2>1, <2>3 DEF Count, A, B, One
<1>6. CASE x \notin G
  <2>1. B = A
    BY <1>1, <1>3, <1>4, <1>6 DEF Spots
  <2>2. Count(s, G) = Cardinality(A) /\ Count(Append(s, x), G) = Cardinality(B)
    BY DEF Count
  <2> HIDE DEF A, B
  <2>3. QED
    BY <1>2, <1>6, <2>1, <2>2 DEF One
<1>7. QED
  BY <1>5, <1>6

(* A list has no repetitions if nothing occurs in it twice. *)
LEMMA CountOnce ==
  ASSUME NEW S, NEW s \in Seq(S)
  PROVE  /\ \A v : Count(s, {v}) \in {0, 1} => Count(s, {v}) = One(Contains(s, v))
         /\ (\A v \in S : Count(s, {v}) \in {0, 1}) => Distinct(s)
<1>1. DOMAIN s = 1 .. Len(s) /\ \A i \in DOMAIN s : s[i] \in S
  BY LenProperties, ElementOfSeq
<1>2. ASSUME NEW v PROVE Count(s, {v}) = 0 <=> ~Contains(s, v)
  <2>1. IsFiniteSet(Spots(s, {v}))
    BY CountType
  <2>2. Count(s, {v}) = 0 <=> Spots(s, {v}) = {}
    BY <2>1, FS_EmptySet DEF Count
  <2>3. Contains(s, v) <=> Spots(s, {v}) # {}
    BY <1>1 DEF Spots, Contains
  <2>4. QED
    BY <2>2, <2>3
<1>3. ASSUME \A v \in S : Count(s, {v}) \in {0, 1} PROVE Distinct(s)
  <2> SUFFICES ASSUME NEW i \in DOMAIN s, NEW j \in DOMAIN s, s[i] = s[j], i # j PROVE FALSE
    BY DEF Distinct
  <2>1. PICK v \in S : v = s[i] /\ v = s[j]
    BY <1>1
  <2>2. {i} \subseteq Spots(s, {v}) /\ {i} \cup {j} \subseteq Spots(s, {v}) /\ j \notin {i}
    BY <2>1 DEF Spots
  <2>3. IsFiniteSet({i}) /\ Cardinality({i}) = 1
    BY FS_Singleton
  <2>4. Cardinality({i} \cup {j}) = 2
    <3> DEFINE I == {i}
    <3>1. IsFiniteSet(I) /\ Cardinality(I) = 1 /\ j \notin I
      BY <2>2, <2>3
    <3> HIDE DEF I
    <3>2. Cardinality(I \cup {j}) = Cardinality(I) + 1
      BY <3>1, FS_AddElement
    <3>3. QED
      BY <3>1, <3>2 DEF I
  <2>5. Cardinality({i} \cup {j}) <= Count(s, {v}) /\ Count(s, {v}) \in Nat
    BY <2>2, CountType, FS_Subset DEF Count
  <2>6. Count(s, {v}) \in {0, 1}
    BY <1>3
  <2>7. QED
    BY <2>4, <2>5, <2>6
<1>4. QED
  BY <1>2, <1>3 DEF One

-----------------------------------------------------------------------------
(* Where a value is.                                                       *)

LEMMA OneType == \A b \in BOOLEAN : One(b) \in {0, 1}
BY DEF One

LEMMA OnWay ==
  ASSUME NEW f \in Frames, NEW x, NEW v
  PROVE  /\ f \in Calling(x, v) <=> f.kind = "emit" /\ f.value = v /\ Contains(f.rest, x)
         /\ f \in Handing(x, v) <=> f.kind = "drain" /\ f.who = x /\ Contains(f.rest, v)
<1>1. f \in Emissions <=> f.kind = "emit"
  BY FrameType DEF Emissions
<1>2. f \in Drains <=> f.kind = "drain"
  BY FrameType DEF Drains
<1>3. QED
  BY <1>1, <1>2 DEF Calling, Handing

LEMMA WayAppended ==
  ASSUME NEW stk \in Seq(Frames), NEW f \in Frames, NEW x, NEW v
  PROVE  /\ ToCall(stk, x, v) \in Nat /\ ToHand(stk, x, v) \in Nat
         /\ ToCall(Append(stk, f), x, v) = ToCall(stk, x, v) + One(f \in Calling(x, v))
         /\ ToHand(Append(stk, f), x, v) = ToHand(stk, x, v) + One(f \in Handing(x, v))
BY CountType, CountAppended DEF ToCall, ToHand

(* Frames that have nothing before them do not count. *)
LEMMA WaySame ==
  ASSUME NEW stk \in Seq(Frames), NEW f \in Frames, f.kind \in {"call", "handle"}, NEW x, NEW v
  PROVE  /\ ToCall(Append(stk, f), x, v) = ToCall(stk, x, v)
         /\ ToHand(Append(stk, f), x, v) = ToHand(stk, x, v)
<1>1. f \notin Calling(x, v) /\ f \notin Handing(x, v)
  BY OnWay
<1>2. One(f \in Calling(x, v)) = 0 /\ One(f \in Handing(x, v)) = 0
  BY <1>1 DEF One
<1>3. QED
  BY <1>2, WayAppended

(* The next call takes one value of one subscriber off the way. *)
LEMMA NextCall ==
  ASSUME stack \in Seq(Frames), On("emit"), Top.rest # <<>>, Distinct(Top.rest), NEW x, NEW v
  PROVE  /\ ToCall(stack, x, v)
              = ToCall(Retop(Rest), x, v) + One(x = Head(Top.rest) /\ v = Top.value)
         /\ ToHand(stack, x, v) = ToHand(Retop(Rest), x, v)
<1>1. /\ Pop \in Seq(Frames) /\ stack = Append(Pop, Top) /\ Top \in Frames /\ Top \in Emissions
      /\ Rest \in Frames /\ Rest.kind = Top.kind /\ Rest.value = Top.value /\ Rest.rest = Tail(Top.rest)
      /\ Retop(Rest) = Append(Pop, Rest) /\ Top.kind = "emit"
  BY RestType DEF On
<1>2. Top.rest \in Seq(Subscribers)
  BY <1>1, FrameType
<1>3. /\ Contains(Top.rest, x) <=> x = Head(Top.rest) \/ Contains(Tail(Top.rest), x)
      /\ ~Contains(Tail(Top.rest), Head(Top.rest))
  BY <1>2, RestContains
<1>4. /\ Top \in Calling(x, v) <=> Top.value = v /\ Contains(Top.rest, x)
      /\ Rest \in Calling(x, v) <=> Top.value = v /\ Contains(Tail(Top.rest), x)
      /\ Top \notin Handing(x, v) /\ Rest \notin Handing(x, v)
  BY <1>1, OnWay
<1>5. One(Top \in Calling(x, v)) = One(Rest \in Calling(x, v)) + One(x = Head(Top.rest) /\ v = Top.value)
  <2>1. CASE x = Head(Top.rest) /\ v = Top.value
    <3>1. Top \in Calling(x, v) /\ Rest \notin Calling(x, v)
      BY <1>3, <1>4, <2>1
    <3>2. QED
      BY <2>1, <3>1 DEF One
  <2>2. CASE ~(x = Head(Top.rest) /\ v = Top.value)
    <3>1. Top \in Calling(x, v) <=> Rest \in Calling(x, v)
      BY <1>3, <1>4, <2>2
    <3>2. QED
      BY <2>2, <3>1 DEF One
  <2>3. QED
    BY <2>1, <2>2
<1>6. One(Top \in Handing(x, v)) = One(Rest \in Handing(x, v))
  BY <1>4 DEF One
<1>7. /\ ToCall(Pop, x, v) \in Nat
      /\ ToCall(stack, x, v) = ToCall(Pop, x, v) + One(Top \in Calling(x, v))
      /\ ToCall(Retop(Rest), x, v) = ToCall(Pop, x, v) + One(Rest \in Calling(x, v))
      /\ ToHand(stack, x, v) = ToHand(Pop, x, v) + One(Top \in Handing(x, v))
      /\ ToHand(Retop(Rest), x, v) = ToHand(Pop, x, v) + One(Rest \in Handing(x, v))
  BY <1>1, WayAppended
<1>8. One(Rest \in Calling(x, v)) \in Nat /\ One(x = Head(Top.rest) /\ v = Top.value) \in Nat
  BY DEF One
<1>9. QED
  BY <1>5, <1>6, <1>7, <1>8

LEMMA NextHandling ==
  ASSUME stack \in Seq(Frames), On("drain"), Top.rest # <<>>, Distinct(Top.rest), NEW x, NEW v
  PROVE  /\ ToHand(stack, x, v)
              = ToHand(Retop(Rest), x, v) + One(x = Top.who /\ v = Head(Top.rest))
         /\ ToCall(stack, x, v) = ToCall(Retop(Rest), x, v)
<1>1. /\ Pop \in Seq(Frames) /\ stack = Append(Pop, Top) /\ Top \in Frames /\ Top \in Drains
      /\ Rest \in Frames /\ Rest.kind = Top.kind /\ Rest.who = Top.who /\ Rest.rest = Tail(Top.rest)
      /\ Retop(Rest) = Append(Pop, Rest) /\ Top.kind = "drain"
  BY RestType DEF On
<1>2. Top.rest \in Seq(Nat)
  BY <1>1, FrameType
<1>3. /\ Contains(Top.rest, v) <=> v = Head(Top.rest) \/ Contains(Tail(Top.rest), v)
      /\ ~Contains(Tail(Top.rest), Head(Top.rest))
  BY <1>2, RestContains
<1>4. /\ Top \in Handing(x, v) <=> Top.who = x /\ Contains(Top.rest, v)
      /\ Rest \in Handing(x, v) <=> Top.who = x /\ Contains(Tail(Top.rest), v)
      /\ Top \notin Calling(x, v) /\ Rest \notin Calling(x, v)
  BY <1>1, OnWay
<1>5. One(Top \in Handing(x, v)) = One(Rest \in Handing(x, v)) + One(x = Top.who /\ v = Head(Top.rest))
  <2>1. CASE x = Top.who /\ v = Head(Top.rest)
    <3>1. Top \in Handing(x, v) /\ Rest \notin Handing(x, v)
      BY <1>3, <1>4, <2>1
    <3>2. QED
      BY <2>1, <3>1 DEF One
  <2>2. CASE ~(x = Top.who /\ v = Head(Top.rest))
    <3>1. Top \in Handing(x, v) <=> Rest \in Handing(x, v)
      BY <1>3, <1>4, <2>2
    <3>2. QED
      BY <2>2, <3>1 DEF One
  <2>3. QED
    BY <2>1, <2>2
<1>6. One(Top \in Calling(x, v)) = One(Rest \in Calling(x, v))
  BY <1>4 DEF One
<1>7. /\ ToHand(Pop, x, v) \in Nat
      /\ ToCall(stack, x, v) = ToCall(Pop, x, v) + One(Top \in Calling(x, v))
      /\ ToCall(Retop(Rest), x, v) = ToCall(Pop, x, v) + One(Rest \in Calling(x, v))
      /\ ToHand(stack, x, v) = ToHand(Pop, x, v) + One(Top \in Handing(x, v))
      /\ ToHand(Retop(Rest), x, v) = ToHand(Pop, x, v) + One(Rest \in Handing(x, v))
  BY <1>1, WayAppended
<1>8. One(Rest \in Handing(x, v)) \in Nat /\ One(x = Top.who /\ v = Head(Top.rest)) \in Nat
  BY DEF One
<1>9. QED
  BY <1>5, <1>6, <1>7, <1>8

LEMMA DistinctRests ==
  ASSUME NEW stk \in Seq(Frames), NEW f \in Frames
  PROVE  RestsDistinct(Append(stk, f)) <=> RestsDistinct(stk) /\ Distinct(f.rest)
<1> DEFINE s == Append(stk, f)
           n == Len(stk)
<1>1. /\ DOMAIN s = 1 .. n + 1 /\ DOMAIN stk = 1 .. n /\ n \in Nat
      /\ \A i \in 1 .. n : s[i] = stk[i]
      /\ s[n + 1] = f
  BY Appended
<1>2. /\ \A i \in 1 .. n + 1 : i \in 1 .. n \/ i = n + 1
      /\ \A i \in 1 .. n : i \in 1 .. n + 1
      /\ n + 1 \in 1 .. n + 1
  BY <1>1
<1> HIDE DEF s, n
<1>3. RestsDistinct(s) => RestsDistinct(stk) /\ Distinct(f.rest)
  BY <1>1, <1>2 DEF RestsDistinct
<1>4. RestsDistinct(stk) /\ Distinct(f.rest) => RestsDistinct(s)
  BY <1>1, <1>2 DEF RestsDistinct
<1>5. QED
  BY <1>3, <1>4 DEF s

(* The rests on a stack whose top has its next call behind it.              *)
LEMMA DistinctNext ==
  ASSUME stack \in Seq(Frames), RestsDistinct(stack), On("emit") \/ On("drain"), Top.rest # <<>>
  PROVE  Distinct(Top.rest) /\ RestsDistinct(Retop(Rest))
<1>1. /\ Pop \in Seq(Frames) /\ stack = Append(Pop, Top) /\ Top \in Frames
      /\ Rest \in Frames /\ Rest.rest = Tail(Top.rest) /\ Retop(Rest) = Append(Pop, Rest)
  BY RestType
<1>2. RestsDistinct(Pop) /\ Distinct(Top.rest)
  BY <1>1, DistinctRests
<1>3. Distinct(Tail(Top.rest))
  <2>1. CASE On("emit")
    <3>1. Top.rest \in Seq(Subscribers)
      BY <1>1, <2>1, FrameType DEF On
    <3>2. QED
      BY <1>2, <3>1, RestContains
  <2>2. CASE On("drain")
    <3>1. Top.rest \in Seq(Nat)
      BY <1>1, <2>2, FrameType DEF On
    <3>2. QED
      BY <1>2, <3>1, RestContains
  <2>3. QED
    BY <2>1, <2>2
<1>4. QED
  BY <1>1, <1>2, <1>3, DistinctRests

LEMMA TallyType ==
  ASSUME TypeOK, NEW x \in Subscribers, NEW v
  PROVE  /\ Handed(x, v) \in Nat /\ Queued(x, v) \in Nat
         /\ ToCall(stack, x, v) \in Nat /\ ToHand(stack, x, v) \in Nat
         /\ One(v \in lost[x]) \in {0, 1}
<1>1. handed[x] \in Seq(Nat) /\ (x \in Listeners => queue[x] \in Seq(Nat)) /\ stack \in Seq(Frames)
  BY DEF TypeOK, HistoryType, DrainsType, StackType
<1>2. Count(handed[x], {v}) \in Nat /\ (x \in Listeners => Count(queue[x], {v}) \in Nat)
  BY <1>1, CountType
<1>3. QED
  BY <1>1, <1>2, CountType DEF Handed, Queued, ToCall, ToHand, One

(* The queue of who is subscribed has no value twice, and if it has one     *)
(* that one is nowhere else.                                                *)
LEMMA QueueOnce ==
  ASSUME TypeOK, Once, NEW l \in Listeners
  PROVE  /\ Distinct(queue[l])
         /\ \A v \in Nat : Queued(l, v) = One(Contains(queue[l], v))
<1>1. queue[l] \in Seq(Nat) /\ l \in Subscribers
  BY DEF TypeOK, DrainsType, Subscribers
<1>2. ASSUME NEW v \in Nat PROVE Queued(l, v) \in {0, 1}
  <2>1. Tally(l, v) \in {0, 1}
    BY <1>1 DEF Once
  <2>2. QED
    BY <1>1, <2>1, TallyType DEF Tally
<1>3. \A v \in Nat : Queued(l, v) = Count(queue[l], {v})
  BY DEF Queued
<1>4. PICK q \in Seq(Nat) : q = queue[l]
  BY <1>1
<1>5. \A v \in Nat : Count(q, {v}) \in {0, 1}
  BY <1>2, <1>3, <1>4
<1>6. Distinct(q) /\ \A v \in Nat : Count(q, {v}) = One(Contains(q, v))
  <2>1. (\A v \in Nat : Count(q, {v}) \in {0, 1}) => Distinct(q)
    BY CountOnce, Zenon
  <2>2. \A v : Count(q, {v}) \in {0, 1} => Count(q, {v}) = One(Contains(q, v))
    BY CountOnce, Zenon
  <2>3. QED
    BY <1>5, <2>1, <2>2
<1>7. QED
  BY <1>3, <1>4, <1>6

(* What an emission adds. *)
LEMMA EmitTallies ==
  ASSUME EventsInv, Emit, NEW x \in Subscribers, NEW v \in Nat
  PROVE  Tally(x, v)' = Tally(x, v) + One(Active(x) /\ v = emitted + 1)
<1>0. TypeOK /\ Registered
  BY DEF EventsInv
<1>1. /\ emitted' = emitted + 1 /\ stack' = Append(stack, Emission(emitted'))
      /\ queue' = queue /\ handed' = handed /\ lost' = lost
  BY DEF Emit, drains
<1>2. PICK f \in Frames : /\ f = Emission(emitted') /\ f.kind = "emit" /\ f.rest = subscribers
                          /\ f.value = emitted + 1
  <2>1. PICK n \in Nat, r \in Seq(Subscribers) : n = emitted' /\ r = subscribers
    BY <1>0, <1>1 DEF TypeOK, HistoryType, RegistryType
  <2>2. /\ Frame("emit", "none", n, r) \in Frames
        /\ Frame("emit", "none", n, r).kind = "emit" /\ Frame("emit", "none", n, r).rest = r
        /\ Frame("emit", "none", n, r).value = n
    BY FrameType
  <2>3. Emission(emitted') = Frame("emit", "none", n, r)
    BY <2>1 DEF Emission
  <2>4. QED
    BY <1>1, <2>1, <2>2, <2>3
<1>3. stack \in Seq(Frames) /\ stack' = Append(stack, f)
  BY <1>0, <1>1, <1>2 DEF TypeOK, StackType
<1>4. /\ ToCall(stack', x, v) = ToCall(stack, x, v) + One(f \in Calling(x, v))
      /\ ToHand(stack', x, v) = ToHand(stack, x, v) + One(f \in Handing(x, v))
  BY <1>2, <1>3, WayAppended
<1>5. f \notin Handing(x, v) /\ (f \in Calling(x, v) <=> Active(x) /\ v = emitted + 1)
  BY <1>0, <1>2, OnWay DEF Registered
<1>6. One(f \in Handing(x, v)) = 0 /\ One(f \in Calling(x, v)) = One(Active(x) /\ v = emitted + 1)
  BY <1>5 DEF One
<1>7. Handed(x, v)' = Handed(x, v) /\ Queued(x, v)' = Queued(x, v) /\ lost'[x] = lost[x]
  BY <1>1 DEF Handed, Queued
<1>8. One(Active(x) /\ v = emitted + 1) \in Nat
  BY DEF One
<1>9. QED
  BY <1>0, <1>4, <1>6, <1>7, <1>8, TallyType DEF Tally

LEMMA CallTallies ==
  ASSUME EventsInv, RestsDistinct(stack), CallPlain \/ Enqueue, NEW x \in Subscribers, NEW v \in Nat
  PROVE  Tally(x, v)' = Tally(x, v) /\ RestsDistinct(stack')
<1>0. TypeOK /\ stack \in Seq(Frames)
  BY DEF EventsInv, TypeOK, StackType
<1>1. On("emit") /\ Top.rest # <<>> /\ lost' = lost
  BY DEF CallPlain, Enqueue, history
<1>2. PICK h \in Subscribers, w \in Nat : h = Head(Top.rest) /\ w = Top.value
  BY <1>0, <1>1, RestType, FrameType DEF On
<1>3. PICK s \in Seq(Frames) : s = Retop(Rest)
  BY <1>0, <1>1, RestOnStack DEF EventsInv
<1>4. /\ RestsDistinct(s)
      /\ ToCall(stack, x, v) = ToCall(s, x, v) + One(x = h /\ v = w)
      /\ ToHand(stack, x, v) = ToHand(s, x, v)
  BY <1>0, <1>1, <1>2, <1>3, DistinctNext, NextCall
<1>5. One(x = h /\ v = w) \in Nat /\ ToCall(s, x, v) \in Nat /\ ToHand(s, x, v) \in Nat
  BY WayAppended, FrameType, CountType DEF One, ToCall, ToHand
<1>6. CASE CallPlain
  <2>1. /\ h \in Plain /\ queue' = queue /\ handed' = [handed EXCEPT ![h] = Append(@, w)]
        /\ stack' = Append(s, Call(h, w))
    BY <1>2, <1>3, <1>6 DEF CallPlain, drains
  <2>2. PICK f \in Frames : f = Call(h, w) /\ f.kind = "call" /\ f.rest = <<>>
    BY <2>1, FrameType DEF Call
  <2>3. ToCall(stack', x, v) = ToCall(s, x, v) /\ ToHand(stack', x, v) = ToHand(s, x, v)
    BY <2>1, <2>2, WaySame
  <2>4. RestsDistinct(stack')
    <3>1. Distinct(<<>>)
      BY DEF Distinct
    <3>2. QED
      BY <1>4, <2>1, <2>2, <3>1, DistinctRests
  <2>5. Handed(x, v)' = Handed(x, v) + One(x = h /\ v = w)
    <3>1. handed[h] \in Seq(Nat) /\ handed \in [Subscribers -> Seq(Nat)]
      BY <1>0 DEF TypeOK, HistoryType
    <3>2. CASE x = h
      <4>1. handed'[x] = Append(handed[h], w)
        BY <2>1, <3>1, <3>2
      <4>2. Count(Append(handed[h], w), {v}) = Count(handed[h], {v}) + One(w \in {v})
        BY <3>1, CountAppended
      <4>3. One(w \in {v}) = One(x = h /\ v = w)
        BY <3>2 DEF One
      <4>4. QED
        BY <3>2, <4>1, <4>2, <4>3 DEF Handed
    <3>3. CASE x # h
      <4>1. handed'[x] = handed[x] /\ One(x = h /\ v = w) = 0
        BY <2>1, <3>1, <3>3 DEF One
      <4>2. Handed(x, v)' = Handed(x, v)
        BY <4>1 DEF Handed
      <4>3. QED
        BY <1>0, <4>1, <4>2, TallyType
    <3>4. QED
      BY <3>2, <3>3
  <2>6. Queued(x, v)' = Queued(x, v)
    BY <2>1 DEF Queued
  <2>7. QED
    BY <1>0, <1>1, <1>4, <1>5, <2>3, <2>4, <2>5, <2>6, TallyType DEF Tally
<1>7. CASE Enqueue
  <2>1. /\ h \in Listeners /\ handed' = handed /\ queue' = [queue EXCEPT ![h] = Append(@, w)]
        /\ stack' = s
    BY <1>2, <1>3, <1>7 DEF Enqueue, history
  <2>2. Queued(x, v)' = Queued(x, v) + One(x = h /\ v = w)
    <3>1. queue[h] \in Seq(Nat) /\ queue \in [Listeners -> Seq(Nat)]
      BY <1>0, <2>1 DEF TypeOK, DrainsType
    <3>2. CASE x = h
      <4>1. queue'[x] = Append(queue[h], w) /\ x \in Listeners
        BY <2>1, <3>1, <3>2
      <4>2. Count(Append(queue[h], w), {v}) = Count(queue[h], {v}) + One(w \in {v})
        BY <3>1, CountAppended
      <4>3. One(w \in {v}) = One(x = h /\ v = w)
        BY <3>2 DEF One
      <4>4. QED
        BY <3>2, <4>1, <4>2, <4>3 DEF Queued
    <3>3. CASE x # h
      <4>1. (x \in Listeners => queue'[x] = queue[x]) /\ One(x = h /\ v = w) = 0
        BY <2>1, <3>1, <3>3 DEF One
      <4>2. Queued(x, v)' = Queued(x, v)
        BY <4>1 DEF Queued
      <4>3. QED
        BY <1>0, <4>1, <4>2, TallyType
    <3>4. QED
      BY <3>2, <3>3
  <2>3. Handed(x, v)' = Handed(x, v)
    BY <2>1 DEF Handed
  <2>4. QED
    BY <1>0, <1>1, <1>4, <1>5, <2>1, <2>2, <2>3, TallyType DEF Tally
<1>8. QED
  BY <1>6, <1>7

LEMMA RunDrainTallies ==
  ASSUME EventsInv, Once, RestsDistinct(stack), NEW l \in Listeners, RunDrain(l),
         NEW x \in Subscribers, NEW v \in Nat
  PROVE  Tally(x, v)' = Tally(x, v) /\ RestsDistinct(stack')
<1>0. TypeOK /\ stack \in Seq(Frames)
  BY DEF EventsInv, TypeOK, StackType
<1>1. handed' = handed /\ lost' = lost
  BY DEF RunDrain, history
<1>2. Handed(x, v)' = Handed(x, v)
  BY <1>1 DEF Handed
<1>3. CASE queue' = queue /\ stack' = stack
  <2>1. Queued(x, v)' = Queued(x, v)
    BY <1>3 DEF Queued
  <2>2. QED
    BY <1>1, <1>2, <1>3, <2>1 DEF Tally
<1>4. CASE queue' = [queue EXCEPT ![l] = <<>>] /\ stack' = Append(stack, Drain(l))
  <2>1. PICK f \in Frames : f = Drain(l) /\ f.kind = "drain" /\ f.who = l /\ f.rest = queue[l]
    BY <1>0, FrameType DEF Drain, TypeOK, DrainsType
  <2>2. Distinct(queue[l]) /\ Queued(l, v) = One(Contains(queue[l], v))
    BY <1>0, QueueOnce
  <2>3. RestsDistinct(stack')
    BY <1>0, <1>4, <2>1, <2>2, DistinctRests
  <2>4. f \notin Calling(x, v) /\ (f \in Handing(x, v) <=> x = l /\ Contains(queue[l], v))
    BY <2>1, OnWay
  <2>5. /\ ToCall(stack', x, v) = ToCall(stack, x, v) + One(f \in Calling(x, v))
        /\ ToHand(stack', x, v) = ToHand(stack, x, v) + One(f \in Handing(x, v))
    BY <1>0, <1>4, <2>1, WayAppended
  <2>6. One(f \in Calling(x, v)) = 0 /\ One(f \in Handing(x, v)) = One(x = l /\ Contains(queue[l], v))
    BY <2>4 DEF One
  <2>7. Queued(x, v) = Queued(x, v)' + One(x = l /\ Contains(queue[l], v))
    <3>1. CASE x = l
      <4>1. queue'[l] = <<>>
        BY <1>0, <1>4 DEF TypeOK, DrainsType
      <4>2. Queued(x, v)' = 0
        BY <3>1, <4>1, CountNone DEF Queued
      <4>3. One(x = l /\ Contains(queue[l], v)) = One(Contains(queue[l], v))
        BY <3>1 DEF One
      <4>4. One(Contains(queue[l], v)) \in Nat
        BY DEF One
      <4>5. QED
        BY <2>2, <3>1, <4>2, <4>3, <4>4
    <3>2. CASE x # l
      <4>1. One(x = l /\ Contains(queue[l], v)) = 0 /\ (x \in Listeners => queue'[x] = queue[x])
        BY <1>0, <1>4, <3>2 DEF One, TypeOK, DrainsType
      <4>2. Queued(x, v)' = Queued(x, v)
        BY <4>1 DEF Queued
      <4>3. QED
        BY <1>0, <4>1, <4>2, TallyType
    <3>3. QED
      BY <3>1, <3>2
  <2>8. Queued(x, v)' \in Nat
    <3>1. TypeOK'
      BY RunDrainKeeps DEF EventsInv
    <3>2. x \in Listeners => queue'[x] \in Seq(Nat)
      BY <3>1 DEF TypeOK, DrainsType
    <3>3. QED
      BY <3>2, CountType DEF Queued
  <2>9. One(x = l /\ Contains(queue[l], v)) \in Nat
    BY DEF One
  <2>10. QED
    BY <1>0, <1>1, <1>2, <2>3, <2>5, <2>6, <2>7, <2>8, <2>9, TallyType DEF Tally
<1>5. QED
  BY <1>3, <1>4 DEF RunDrain

LEMMA HandleTallies ==
  ASSUME EventsInv, RestsDistinct(stack), CallHandler, NEW x \in Subscribers, NEW v \in Nat
  PROVE  Tally(x, v)' = Tally(x, v) /\ RestsDistinct(stack')
<1>0. TypeOK /\ stack \in Seq(Frames)
  BY DEF EventsInv, TypeOK, StackType
<1>1. On("drain") /\ Top.rest # <<>> /\ lost' = lost /\ queue' = queue
  BY DEF CallHandler, drains
<1>2. PICK l \in Listeners, w \in Nat : l = Top.who /\ w = Head(Top.rest)
  BY <1>0, <1>1, RestType, FrameType DEF On
<1>3. PICK s \in Seq(Frames) : s = Retop(Rest)
  BY <1>0, <1>1, RestOnStack DEF EventsInv
<1>4. /\ RestsDistinct(s)
      /\ ToHand(stack, x, v) = ToHand(s, x, v) + One(x = l /\ v = w)
      /\ ToCall(stack, x, v) = ToCall(s, x, v)
  BY <1>0, <1>1, <1>2, <1>3, DistinctNext, NextHandling
<1>5. One(x = l /\ v = w) \in Nat /\ ToCall(s, x, v) \in Nat /\ ToHand(s, x, v) \in Nat
  BY CountType DEF One, ToCall, ToHand
<1>6. handed' = [handed EXCEPT ![l] = Append(@, w)] /\ stack' = Append(s, Handle(l, w))
  BY <1>2, <1>3 DEF CallHandler
<1>7. PICK f \in Frames : f = Handle(l, w) /\ f.kind = "handle" /\ f.rest = <<>>
  BY FrameType DEF Handle
<1>8. ToCall(stack', x, v) = ToCall(s, x, v) /\ ToHand(stack', x, v) = ToHand(s, x, v)
  BY <1>6, <1>7, WaySame
<1>9. RestsDistinct(stack')
  <2>1. Distinct(<<>>)
    BY DEF Distinct
  <2>2. QED
    BY <1>4, <1>6, <1>7, <2>1, DistinctRests
<1>10. Handed(x, v)' = Handed(x, v) + One(x = l /\ v = w)
  <2>1. handed[l] \in Seq(Nat) /\ handed \in [Subscribers -> Seq(Nat)]
    BY <1>0 DEF TypeOK, HistoryType, Subscribers
  <2>2. CASE x = l
    <3>1. handed'[x] = Append(handed[l], w)
      BY <1>6, <2>1, <2>2
    <3>2. Count(Append(handed[l], w), {v}) = Count(handed[l], {v}) + One(w \in {v})
      BY <2>1, CountAppended
    <3>3. One(w \in {v}) = One(x = l /\ v = w)
      BY <2>2 DEF One
    <3>4. QED
      BY <2>2, <3>1, <3>2, <3>3 DEF Handed
  <2>3. CASE x # l
    <3>1. handed'[x] = handed[x] /\ One(x = l /\ v = w) = 0
      BY <1>6, <2>1, <2>3 DEF One
    <3>2. Handed(x, v)' = Handed(x, v)
      BY <3>1 DEF Handed
    <3>3. QED
      BY <1>0, <3>1, <3>2, TallyType
  <2>4. QED
    BY <2>2, <2>3
<1>11. Queued(x, v)' = Queued(x, v)
  BY <1>1 DEF Queued
<1>12. QED
  BY <1>0, <1>1, <1>4, <1>5, <1>8, <1>9, <1>10, <1>11, TallyType DEF Tally

(* A frame that is done has nothing on its way; one that unwinds loses it.  *)
LEMMA PopTallies ==
  ASSUME EventsInv, Once, RestsDistinct(stack), Trigger \/ EndDrain \/ Return \/ Unwind,
         NEW x \in Subscribers, NEW v \in Nat
  PROVE  Tally(x, v)' = Tally(x, v) /\ RestsDistinct(stack')
<1>0. TypeOK /\ stack \in Seq(Frames)
  BY DEF EventsInv, TypeOK, StackType
<1>1. ~Idle /\ stack' = Pop
  BY <1>0, OnTop DEF Trigger, EndDrain, Return, Unwind, On, TypeOK, StackType
<1>2. /\ Pop \in Seq(Frames) /\ Top \in Frames /\ stack = Append(Pop, Top)
  BY <1>0, <1>1, TopType
<1>3. RestsDistinct(stack') /\ Distinct(Top.rest)
  BY <1>1, <1>2, DistinctRests
<1>4. /\ ToCall(Pop, x, v) \in Nat /\ ToHand(Pop, x, v) \in Nat
      /\ ToCall(stack, x, v) = ToCall(Pop, x, v) + One(Top \in Calling(x, v))
      /\ ToHand(stack, x, v) = ToHand(Pop, x, v) + One(Top \in Handing(x, v))
  BY <1>2, WayAppended
<1>5. /\ Top \in Calling(x, v) <=> On("emit") /\ Top.value = v /\ Contains(Top.rest, x)
      /\ Top \in Handing(x, v) <=> On("drain") /\ Top.who = x /\ Contains(Top.rest, v)
  BY <1>2, OnWay DEF On
<1>6. /\ One(Top \in Calling(x, v)) \in {0, 1} /\ One(Top \in Handing(x, v)) \in {0, 1}
      /\ One(v \in lost'[x]) \in {0, 1}
  BY DEF One
<1>7. handed' = handed /\ queue' = queue
  BY DEF Trigger, EndDrain, Return, Unwind, history, drains
<1>8. Handed(x, v)' = Handed(x, v) /\ Queued(x, v)' = Queued(x, v)
  BY <1>7 DEF Handed, Queued
<1> DEFINE c == One(Top \in Calling(x, v))
           h == One(Top \in Handing(x, v))
           g == One(v \in lost[x])
<1>9. /\ Handed(x, v) \in Nat /\ Queued(x, v) \in Nat /\ g \in {0, 1} /\ c \in {0, 1} /\ h \in {0, 1}
      /\ ToCall(stack, x, v) = ToCall(Pop, x, v) + c /\ ToHand(stack, x, v) = ToHand(Pop, x, v) + h
      /\ Tally(x, v) = Handed(x, v) + Queued(x, v) + ToCall(stack, x, v) + ToHand(stack, x, v) + g
  BY <1>0, <1>4, <1>6, TallyType DEF Tally
<1> HIDE DEF c, h, g
<1>10. Tally(x, v) = Handed(x, v) + Queued(x, v) + ToCall(Pop, x, v) + ToHand(Pop, x, v) + c + h + g
  BY <1>4, <1>9
<1>11. One(v \in lost'[x]) = g + c + h
  <2>1. CASE Trigger \/ EndDrain \/ Return
    <3>1. lost' = lost
      BY <2>1 DEF Trigger, EndDrain, Return, history
    <3>2. ~Contains(<<>>, x) /\ ~Contains(<<>>, v)
      BY DEF Contains
    <3>3. Top \notin Calling(x, v) /\ Top \notin Handing(x, v)
      BY <1>5, <2>1, <3>2 DEF Trigger, EndDrain, Return, On
    <3>4. QED
      BY <3>1, <3>3 DEF One, c, h, g
  <2>2. CASE Unwind
    <3>1. v \in lost'[x] <=> v \in lost[x] \/ Top \in Calling(x, v) \/ Top \in Handing(x, v)
      <4>1. On("drain") => (v \in ToSet(Top.rest) <=> Contains(Top.rest, v))
        <5>1. On("drain") => Top.rest \in Seq(Nat)
          BY <1>2, FrameType DEF On
        <5>2. \A s \in Seq(Nat) : v \in ToSet(s) <=> Contains(s, v)
          BY LenProperties DEF ToSet, Contains
        <5>3. QED
          BY <5>1, <5>2
      <4>2. v \in lost'[x] <=>
              \/ v \in lost[x]
              \/ On("emit") /\ Contains(Top.rest, x) /\ v = Top.value
              \/ On("drain") /\ Top.who = x /\ v \in ToSet(Top.rest)
        BY <2>2, LostIs
      <4>3. QED
        BY <1>5, <4>1, <4>2
    <3>2. ~(Top \in Calling(x, v) /\ Top \in Handing(x, v))
      BY <1>5 DEF On
    <3>3. Tally(x, v) \in {0, 1}
      BY DEF Once
    <3>4. c + h + g <= 1
      BY <1>4, <1>9, <1>10, <3>3
    <3>5. QED
      BY <3>1, <3>2, <3>4 DEF One, c, h, g
  <2>3. QED
    BY <2>1, <2>2
<1>12. Tally(x, v)' = Handed(x, v) + Queued(x, v) + ToCall(Pop, x, v) + ToHand(Pop, x, v) + (g + c + h)
  BY <1>1, <1>8, <1>11 DEF Tally
<1>13. QED
  BY <1>3, <1>4, <1>9, <1>10, <1>12

LEMMA SameTallies ==
  ASSUME EventsInv, RestsDistinct(stack),
         handed' = handed, queue' = queue, stack' = stack, lost' = lost,
         NEW x \in Subscribers, NEW v \in Nat
  PROVE  Tally(x, v)' = Tally(x, v) /\ RestsDistinct(stack')
BY DEF Tally, Handed, Queued

LEMMA OnceInit == Init => OnceInv
<1> SUFFICES ASSUME Init PROVE OnceInv
  OBVIOUS
<1>1. TypeOK
  BY EventsInit DEF EventsInv
<1>2. RestsDistinct(stack)
  BY DEF Init, RestsDistinct
<1>3. ASSUME NEW x \in Subscribers, NEW v \in Nat PROVE Tally(x, v) = 0
  <2>1. handed[x] = <<>> /\ (x \in Listeners => queue[x] = <<>>) /\ stack = <<>> /\ lost[x] = {}
    BY DEF Init
  <2>2. Handed(x, v) = 0 /\ Queued(x, v) = 0 /\ ToCall(stack, x, v) = 0 /\ ToHand(stack, x, v) = 0
    BY <2>1, CountNone DEF Handed, Queued, ToCall, ToHand
  <2>3. One(v \in lost[x]) = 0
    BY <2>1 DEF One
  <2>4. QED
    BY <2>2, <2>3 DEF Tally
<1>4. \A x \in Subscribers : since[x] = 0 /\ subscription[x] = "none"
  BY DEF Init
<1>5. emitted = 0
  BY DEF Init
<1>6. Once
  BY <1>3, <1>4, <1>5 DEF Once, Active
<1>7. QED
  BY <1>2, <1>6 DEF OnceInv

(* A step that moves no value and subscribes nobody. *)
LEMMA OnceKept ==
  ASSUME EventsInv, Once, UNCHANGED <<subscription, since, emitted>>,
         \A x \in Subscribers, v \in Nat : Tally(x, v)' = Tally(x, v)
  PROVE  Once'
<1> SUFFICES ASSUME NEW x \in Subscribers, NEW v \in Nat
             PROVE  /\ since'[x] <= emitted' /\ Tally(x, v)' \in {0, 1}
                    /\ subscription'[x] = "none" => Tally(x, v)' = 0
                    /\ Active(x)' => Tally(x, v)' = One(since'[x] < v /\ v <= emitted')
  BY DEF Once
<1>1. Tally(x, v)' = Tally(x, v)
  OBVIOUS
<1>2. Active(x)' <=> Active(x)
  BY DEF Active
<1>3. QED
  BY <1>1, <1>2 DEF Once

LEMMA OnceStep == EventsInv /\ OnceInv /\ [Next]_vars => OnceInv'
<1> SUFFICES ASSUME EventsInv, OnceInv, [Next]_vars PROVE OnceInv'
  OBVIOUS
<1>0. TypeOK /\ Once /\ RestsDistinct(stack) /\ stack \in Seq(Frames)
  BY DEF EventsInv, OnceInv, TypeOK, StackType
<1>t. /\ subscription \in [Subscribers -> {"none", "active", "cancelled"}]
      /\ since \in [Subscribers -> Nat] /\ emitted \in Nat
  BY <1>0 DEF TypeOK, RegistryType, HistoryType
<1>1. ASSUME NEW y \in Subscribers, Subscribe(y) PROVE OnceInv'
  <2>1. /\ handed' = handed /\ queue' = queue /\ stack' = stack /\ lost' = lost /\ emitted' = emitted
        /\ subscription[y] = "none" /\ subscription' = [subscription EXCEPT ![y] = "active"]
        /\ since' = [since EXCEPT ![y] = emitted]
    BY <1>1 DEF Subscribe, control
  <2>2. ASSUME NEW x \in Subscribers, NEW v \in Nat
        PROVE  /\ since'[x] <= emitted' /\ Tally(x, v)' \in {0, 1}
               /\ subscription'[x] = "none" => Tally(x, v)' = 0
               /\ Active(x)' => Tally(x, v)' = One(since'[x] < v /\ v <= emitted')
    <3>1. Tally(x, v)' = Tally(x, v)
      BY <1>0, <2>1, SameTallies
    <3>2. CASE x = y
      <4>1. since'[x] = emitted /\ Tally(x, v) = 0 /\ subscription'[x] = "active"
        BY <1>0, <1>t, <2>1, <3>2 DEF Once
      <4>2. ~(since'[x] < v /\ v <= emitted')
        BY <1>t, <2>1, <4>1
      <4>3. One(since'[x] < v /\ v <= emitted') = 0
        BY <4>2 DEF One
      <4>4. QED
        BY <1>t, <2>1, <3>1, <4>1, <4>3
    <3>3. CASE x # y
      <4>1. since'[x] = since[x] /\ subscription'[x] = subscription[x] /\ emitted' = emitted
        BY <1>t, <2>1, <3>3
      <4>2. Active(x)' <=> Active(x)
        BY <4>1 DEF Active
      <4>3. QED
        BY <1>0, <3>1, <4>1, <4>2 DEF Once
    <3>4. QED
      BY <3>2, <3>3
  <2>3. Once'
    BY <2>2 DEF Once
  <2>4. QED
    BY <1>0, <2>1, <2>3 DEF OnceInv
<1>2. ASSUME NEW y \in Subscribers, Unsubscribe(y) PROVE OnceInv'
  <2>1. /\ handed' = handed /\ queue' = queue /\ stack' = stack /\ lost' = lost /\ emitted' = emitted
        /\ since' = since /\ subscription' = [subscription EXCEPT ![y] = "cancelled"]
    BY <1>2 DEF Unsubscribe, control, history
  <2>2. ASSUME NEW x \in Subscribers, NEW v \in Nat
        PROVE  /\ since'[x] <= emitted' /\ Tally(x, v)' \in {0, 1}
               /\ subscription'[x] = "none" => Tally(x, v)' = 0
               /\ Active(x)' => Tally(x, v)' = One(since'[x] < v /\ v <= emitted')
    <3>1. Tally(x, v)' = Tally(x, v)
      BY <1>0, <2>1, SameTallies
    <3>2. /\ Active(x)' => Active(x)
          /\ subscription'[x] = "none" => subscription[x] = "none"
      BY <1>t, <2>1 DEF Active
    <3>3. QED
      BY <1>0, <2>1, <3>1, <3>2 DEF Once
  <2>3. Once'
    BY <2>2 DEF Once
  <2>4. QED
    BY <1>0, <2>1, <2>3 DEF OnceInv
<1>3. CASE Emit
  <2>1. subscription' = subscription /\ since' = since /\ emitted' = emitted + 1
    BY <1>3 DEF Emit, registry
  <2>2. ASSUME NEW x \in Subscribers, NEW v \in Nat
        PROVE  /\ since'[x] <= emitted' /\ Tally(x, v)' \in {0, 1}
               /\ subscription'[x] = "none" => Tally(x, v)' = 0
               /\ Active(x)' => Tally(x, v)' = One(since'[x] < v /\ v <= emitted')
    <3>1. Tally(x, v)' = Tally(x, v) + One(Active(x) /\ v = emitted + 1)
      BY <1>3, EmitTallies
    <3>2. Active(x)' <=> Active(x)
      BY <2>1 DEF Active
    <3>3. since[x] \in Nat /\ since[x] <= emitted /\ Tally(x, v) \in {0, 1}
      BY <1>0, <1>t DEF Once
    <3>4. CASE Active(x) /\ v = emitted + 1
      <4>1. Tally(x, v) = One(since[x] < v /\ v <= emitted) /\ subscription[x] # "none"
        BY <1>0, <3>4 DEF Once, Active
      <4>2. ~(since[x] < v /\ v <= emitted) /\ since[x] < v /\ v <= emitted + 1
        BY <1>t, <3>3, <3>4
      <4>3. Tally(x, v) = 0 /\ One(since'[x] < v /\ v <= emitted') = 1
        BY <2>1, <4>1, <4>2 DEF One
      <4>4. One(Active(x) /\ v = emitted + 1) = 1
        BY <3>4 DEF One
      <4>5. QED
        BY <1>t, <2>1, <3>1, <3>3, <4>1, <4>3, <4>4
    <3>5. CASE ~(Active(x) /\ v = emitted + 1)
      <4>1. One(Active(x) /\ v = emitted + 1) = 0
        BY <3>5 DEF One
      <4>2. Tally(x, v)' = Tally(x, v)
        BY <3>1, <3>3, <4>1
      <4>3. Active(x) => (since'[x] < v /\ v <= emitted' <=> since[x] < v /\ v <= emitted)
        BY <1>t, <2>1, <3>5
      <4>4. Active(x) => One(since'[x] < v /\ v <= emitted') = One(since[x] < v /\ v <= emitted)
        BY <4>3 DEF One
      <4>5. since'[x] <= emitted'
        BY <1>t, <2>1, <3>3
      <4>6. QED
        BY <1>0, <2>1, <3>2, <4>2, <4>4, <4>5 DEF Once
    <3>6. QED
      BY <3>4, <3>5
  <2>3. Once'
    BY <2>2 DEF Once
  <2>4. RestsDistinct(stack')
    <3>1. /\ Emission(emitted') \in Frames /\ Emission(emitted').rest = subscribers
          /\ stack' = Append(stack, Emission(emitted'))
      BY <1>0, <1>t, <1>3, <2>1, FrameType DEF Emission, TypeOK, RegistryType, Emit
    <3>2. PICK f \in Frames : f = Emission(emitted')
      BY <3>1
    <3>3. Distinct(f.rest)
      BY <3>1, <3>2 DEF EventsInv, Registered
    <3>4. QED
      BY <1>0, <3>1, <3>2, <3>3, DistinctRests
  <2>5. QED
    BY <2>3, <2>4 DEF OnceInv
<1>4. CASE UNCHANGED <<subscription, since, emitted>> /\ RestsDistinct(stack') /\
           \A x \in Subscribers, v \in Nat : Tally(x, v)' = Tally(x, v)
  BY <1>0, <1>4, OnceKept DEF OnceInv
<1>5. ASSUME NEW l \in Listeners, RunDrain(l) PROVE OnceInv'
  <2>1. UNCHANGED <<subscription, since, emitted>>
    BY <1>5 DEF RunDrain, registry, history
  <2>2. \A x \in Subscribers, v \in Nat : Tally(x, v)' = Tally(x, v) /\ RestsDistinct(stack')
    BY <1>0, <1>5, RunDrainTallies
  <2>3. l \in Subscribers /\ 0 \in Nat
    BY DEF Subscribers
  <2>4. QED
    BY <1>4, <2>1, <2>2, <2>3
<1>6. CASE CallPlain \/ Enqueue
  <2>1. UNCHANGED <<subscription, since, emitted>>
    BY <1>6 DEF CallPlain, Enqueue, registry, history
  <2>2. \A x \in Subscribers, v \in Nat : Tally(x, v)' = Tally(x, v) /\ RestsDistinct(stack')
    BY <1>0, <1>6, CallTallies
  <2>3. Head(Top.rest) \in Subscribers /\ 0 \in Nat
    BY <1>6 DEF CallPlain, Enqueue, Subscribers
  <2>4. QED
    BY <1>4, <2>1, <2>2, <2>3
<1>7. CASE CallHandler
  <2>1. UNCHANGED <<subscription, since, emitted>>
    BY <1>7 DEF CallHandler, registry
  <2>2. \A x \in Subscribers, v \in Nat : Tally(x, v)' = Tally(x, v) /\ RestsDistinct(stack')
    BY <1>0, <1>7, HandleTallies
  <2>3. Top.who \in Subscribers /\ 0 \in Nat
    <3>1. On("drain") /\ Top.rest # <<>>
      BY <1>7 DEF CallHandler
    <3>2. Top \in Drains
      BY <1>0, <3>1, RestType
    <3>3. QED
      BY <3>2, FrameType DEF Subscribers
  <2>4. QED
    BY <1>4, <2>1, <2>2, <2>3
<1>8. CASE Trigger \/ EndDrain \/ Return \/ Unwind
  <2>1. UNCHANGED <<subscription, since, emitted>>
    BY <1>8 DEF Trigger, EndDrain, Return, Unwind, registry, history
  <2>2. \A x \in Subscribers, v \in Nat : Tally(x, v)' = Tally(x, v)
    BY <1>0, <1>8, PopTallies
  <2>3. RestsDistinct(stack')
    <3>1. ~Idle /\ stack' = Pop
      BY <1>0, <1>8, OnTop DEF Trigger, EndDrain, Return, Unwind, On, TypeOK, StackType
    <3>2. Pop \in Seq(Frames) /\ Top \in Frames /\ stack = Append(Pop, Top)
      BY <1>0, <3>1, TopType
    <3>3. QED
      BY <1>0, <3>1, <3>2, DistinctRests
  <2>4. QED
    BY <1>4, <2>1, <2>2, <2>3
<1>9. CASE Panic \/ UNCHANGED vars
  <2>1. UNCHANGED <<subscription, since, emitted>> /\ handed' = handed /\ queue' = queue
        /\ stack' = stack /\ lost' = lost
    BY <1>9 DEF Panic, vars, registry, drains, control, history
  <2>2. \A x \in Subscribers, v \in Nat : Tally(x, v)' = Tally(x, v)
    BY <1>0, <2>1, SameTallies
  <2>3. QED
    BY <1>0, <1>4, <2>1, <2>2
<1>10. QED
  BY <1>1, <1>2, <1>3, <1>5, <1>6, <1>7, <1>8, <1>9 DEF Next

LEMMA OnceCorrect == Spec => [](EventsInv /\ OnceInv)
BY EventsInit, EventsStep, OnceInit, OnceStep, PTL DEF Spec

(* Every value reaches everyone who was subscribed when it was emitted and  *)
(* still is, once: emissions and drains in the middle of one another, a     *)
(* queue that is filled while it is drained, subscribers that come and go   *)
(* and panics neither lose a value nor deliver it twice.                    *)
THEOREM EachValueOnceCorrect == Spec => []EachValueOnce
<1>1. ASSUME EventsInv, OnceInv PROVE EachValueOnce
  <2> SUFFICES ASSUME NEW x \in Subscribers, Active(x), NEW v \in since[x] + 1 .. emitted
               PROVE  Times(v, handed[x]) + (IF x \in Listeners THEN Times(v, queue[x]) ELSE 0)
                        + Cardinality(Waiting("emit", x, v)) + Cardinality(Waiting("drain", x, v))
                        + (IF v \in lost[x] THEN 1 ELSE 0) = 1
    BY DEF EachValueOnce
  <2>0. TypeOK /\ stack \in Seq(Frames) /\ since[x] \in Nat /\ emitted \in Nat
    BY <1>1 DEF EventsInv, TypeOK, StackType, HistoryType
  <2>1. v \in Nat /\ since[x] < v /\ v <= emitted
    BY <2>0
  <2>2. Tally(x, v) = 1
    BY <1>1, <2>1 DEF OnceInv, Once, One
  <2>3. \A s : Times(v, s) = Count(s, {v})
    <3>1. \A s : {i \in DOMAIN s : s[i] = v} = Spots(s, {v})
      BY DEF Spots
    <3>2. QED
      BY <3>1 DEF Times, Count
  <2>4. \A i \in DOMAIN stack : stack[i] \in Frames
    BY <2>0, LenProperties, ElementOfSeq
  <2>5. Waiting("emit", x, v) = Spots(stack, Calling(x, v))
    BY <2>4, OnWay DEF Waiting, Spots
  <2>6. Waiting("drain", x, v) = Spots(stack, Handing(x, v))
    BY <2>4, OnWay DEF Waiting, Spots
  <2>7. /\ Cardinality(Waiting("emit", x, v)) = ToCall(stack, x, v)
        /\ Cardinality(Waiting("drain", x, v)) = ToHand(stack, x, v)
    BY <2>5, <2>6 DEF ToCall, ToHand, Count
  <2>8. /\ Times(v, handed[x]) = Handed(x, v)
        /\ (IF x \in Listeners THEN Times(v, queue[x]) ELSE 0) = Queued(x, v)
        /\ (IF v \in lost[x] THEN 1 ELSE 0) = One(v \in lost[x])
    BY <2>3 DEF Handed, Queued, One
  <2>9. QED
    BY <2>2, <2>7, <2>8 DEF Tally
<1>2. QED
  BY <1>1, OnceCorrect, PTL

-----------------------------------------------------------------------------
(* The order in which a listener is handed the values.                     *)

(* The top of a stack on which something was pushed. *)
LEMMA TopPushed ==
  ASSUME NEW stk \in Seq(Frames), NEW f \in Frames
  PROVE  /\ Append(stk, f) # <<>> /\ Front(Append(stk, f)) = stk /\ Last(Append(stk, f)) = f
<1> DEFINE s == Append(stk, f)
<1>1. s \in Seq(Frames) /\ s # <<>> /\ Len(s) = Len(stk) + 1 /\ Len(stk) \in Nat
      /\ \A i \in 1 .. Len(stk) : s[i] = stk[i]
      /\ s[Len(stk) + 1] = f
  BY Appended
<1> HIDE DEF s
<1>2. /\ Front(s) \in Seq(Frames) /\ Len(Front(s)) = Len(s) - 1 /\ Last(s) = s[Len(s)]
      /\ \A i \in 1 .. Len(s) - 1 : Front(s)[i] = s[i]
  BY <1>1, Shortened
<1>3. Len(Front(s)) = Len(stk) /\ \A i \in 1 .. Len(stk) : Front(s)[i] = stk[i]
  BY <1>1, <1>2
<1>4. Front(s) = stk
  BY <1>2, <1>3, SeqEqual
<1>5. QED
  BY <1>1, <1>2, <1>4 DEF s

LEMMA OrderOnStack ==
  ASSUME NEW stk \in Seq(Frames), NEW f \in Frames, NEW l
  PROVE  /\ Pending(Append(stk, f), l) <=> Pending(stk, l) \/ (f.kind = "emit" /\ Contains(f.rest, l))
         /\ \A h, q, n : DrainsFit(Append(stk, f), l, h, q, n) <=>
              /\ DrainsFit(stk, l, h, q, n)
              /\ f.kind = "drain" /\ f.who = l => DrainFits(f.rest, h, q, n)
<1> DEFINE s == Append(stk, f)
           m == Len(stk)
<1>1. /\ DOMAIN s = 1 .. m + 1 /\ DOMAIN stk = 1 .. m /\ m \in Nat
      /\ \A i \in 1 .. m : s[i] = stk[i]
      /\ s[m + 1] = f
  BY Appended
<1>2. /\ \A i \in 1 .. m + 1 : i \in 1 .. m \/ i = m + 1
      /\ \A i \in 1 .. m : i \in 1 .. m + 1
      /\ m + 1 \in 1 .. m + 1
  BY <1>1
<1> HIDE DEF s, m
<1>3. Pending(s, l) <=> Pending(stk, l) \/ (f.kind = "emit" /\ Contains(f.rest, l))
  <2>1. Pending(s, l) => Pending(stk, l) \/ (f.kind = "emit" /\ Contains(f.rest, l))
    BY <1>1, <1>2 DEF Pending
  <2>2. Pending(stk, l) => Pending(s, l)
    BY <1>1, <1>2 DEF Pending
  <2>3. f.kind = "emit" /\ Contains(f.rest, l) => Pending(s, l)
    BY <1>1, <1>2 DEF Pending
  <2>4. QED
    BY <2>1, <2>2, <2>3
<1>4. ASSUME NEW h, NEW q, NEW n
      PROVE  DrainsFit(s, l, h, q, n) <=>
               /\ DrainsFit(stk, l, h, q, n)
               /\ f.kind = "drain" /\ f.who = l => DrainFits(f.rest, h, q, n)
  <2>1. ASSUME DrainsFit(s, l, h, q, n)
        PROVE  /\ DrainsFit(stk, l, h, q, n)
               /\ f.kind = "drain" /\ f.who = l => DrainFits(f.rest, h, q, n)
    BY <1>1, <1>2, <2>1 DEF DrainsFit
  <2>2. ASSUME DrainsFit(stk, l, h, q, n), f.kind = "drain" /\ f.who = l => DrainFits(f.rest, h, q, n)
        PROVE  DrainsFit(s, l, h, q, n)
    BY <1>1, <1>2, <2>2 DEF DrainsFit
  <2>3. QED
    BY <2>1, <2>2
<1>5. QED
  BY <1>3, <1>4 DEF s

(* How the order grows: a value later than all, and one that is handed on.  *)
LEMMA OrderGrows ==
  ASSUME NEW s \in Seq(Nat), NEW v \in Nat, UpTo(s, v), ~Contains(s, v)
  PROVE  /\ \A a \in DOMAIN s : s[a] < v
         /\ Ordered(s) => Ordered(Append(s, v))
         /\ UpTo(Append(s, v), v)
         /\ \A h : AllBelow(h, s) /\ (\A a \in DOMAIN h : h[a] < v) => AllBelow(h, Append(s, v))
<1>1. /\ DOMAIN Append(s, v) = 1 .. Len(s) + 1 /\ DOMAIN s = 1 .. Len(s) /\ Len(s) \in Nat
      /\ \A i \in 1 .. Len(s) : Append(s, v)[i] = s[i] /\ s[i] \in Nat
      /\ Append(s, v)[Len(s) + 1] = v
  BY Appended, ElementOfSeq
<1>2. /\ \A i \in 1 .. Len(s) + 1 : i \in 1 .. Len(s) \/ i = Len(s) + 1
      /\ \A i \in 1 .. Len(s) : i < Len(s) + 1
  BY <1>1
<1>3. \A a \in DOMAIN s : s[a] < v
  BY <1>1 DEF UpTo, Contains
<1>4. Ordered(s) => Ordered(Append(s, v))
  <2> SUFFICES ASSUME Ordered(s), NEW i \in 1 .. Len(s) + 1, NEW j \in 1 .. Len(s) + 1, i < j
               PROVE  Append(s, v)[i] < Append(s, v)[j]
    BY <1>1 DEF Ordered
  <2>1. i \in 1 .. Len(s)
    BY <1>1
  <2>2. CASE j \in 1 .. Len(s)
    BY <1>1, <2>1, <2>2 DEF Ordered
  <2>3. CASE j = Len(s) + 1
    BY <1>1, <1>3, <2>1, <2>3
  <2>4. QED
    BY <1>2, <2>2, <2>3
<1>5. UpTo(Append(s, v), v)
  BY <1>1, <1>2, <1>3 DEF UpTo
<1>6. \A h : AllBelow(h, s) /\ (\A a \in DOMAIN h : h[a] < v) => AllBelow(h, Append(s, v))
  BY <1>1, <1>2 DEF AllBelow
<1>7. QED
  BY <1>3, <1>4, <1>5, <1>6

LEMMA OrderMoves ==
  ASSUME NEW h \in Seq(Nat), NEW r \in Seq(Nat), r # <<>>, NEW q \in Seq(Nat), NEW n \in Nat,
         InOrder(h, q, n), DrainFits(r, h, q, n)
  PROVE  InOrder(Append(h, Head(r)), q, n) /\ DrainFits(Tail(r), Append(h, Head(r)), q, n)
<1> DEFINE g == Append(h, Head(r))
           t == Tail(r)
<1>1. /\ Head(r) \in Nat /\ t \in Seq(Nat) /\ Len(r) \in Nat \ {0}
      /\ DOMAIN r = 1 .. Len(r) /\ DOMAIN t = 1 .. Len(r) - 1
      /\ Head(r) = r[1] /\ \A i \in 1 .. Len(r) - 1 : t[i] = r[i + 1]
  BY HeadTail
<1>2. /\ DOMAIN g = 1 .. Len(h) + 1 /\ DOMAIN h = 1 .. Len(h) /\ Len(h) \in Nat
      /\ \A i \in 1 .. Len(h) : g[i] = h[i]
      /\ g[Len(h) + 1] = r[1]
  BY <1>1, Appended
<1>3. \A i \in 1 .. Len(h) + 1 : i \in 1 .. Len(h) \/ i = Len(h) + 1
  BY <1>2
<1>4. 1 \in DOMAIN r /\ \A i \in 1 .. Len(r) - 1 : i + 1 \in DOMAIN r /\ 1 < i + 1
  BY <1>1
<1> HIDE DEF g, t
<1>5. Ordered(g)
  <2> SUFFICES ASSUME NEW i \in 1 .. Len(h) + 1, NEW j \in 1 .. Len(h) + 1, i < j
               PROVE  g[i] < g[j]
    BY <1>2 DEF Ordered
  <2>1. i \in 1 .. Len(h)
    BY <1>2
  <2>2. CASE j \in 1 .. Len(h)
    BY <1>2, <2>1, <2>2 DEF Ordered, InOrder
  <2>3. CASE j = Len(h) + 1
    BY <1>2, <1>4, <2>1, <2>3 DEF DrainFits, AllBelow
  <2>4. QED
    BY <1>3, <2>2, <2>3
<1>6. AllBelow(g, q) /\ UpTo(g, n)
  BY <1>2, <1>3, <1>4 DEF AllBelow, UpTo, InOrder, DrainFits
<1>7. InOrder(g, q, n)
  BY <1>5, <1>6 DEF InOrder
<1>8. Ordered(t)
  <2> SUFFICES ASSUME NEW i \in 1 .. Len(r) - 1, NEW j \in 1 .. Len(r) - 1, i < j
               PROVE  t[i] < t[j]
    BY <1>1 DEF Ordered
  <2>1. i + 1 \in DOMAIN r /\ j + 1 \in DOMAIN r /\ i + 1 < j + 1
    BY <1>4
  <2>2. QED
    BY <1>1, <2>1 DEF Ordered, DrainFits
<1>9. AllBelow(g, t)
  <2> SUFFICES ASSUME NEW a \in 1 .. Len(h) + 1, NEW b \in 1 .. Len(r) - 1 PROVE g[a] < t[b]
    BY <1>1, <1>2 DEF AllBelow
  <2>1. t[b] = r[b + 1] /\ b + 1 \in DOMAIN r /\ 1 < b + 1
    BY <1>1, <1>4
  <2>2. CASE a \in 1 .. Len(h)
    BY <1>2, <2>1, <2>2 DEF DrainFits, AllBelow
  <2>3. CASE a = Len(h) + 1
    BY <1>2, <1>4, <2>1, <2>3 DEF DrainFits, Ordered
  <2>4. QED
    BY <1>3, <2>2, <2>3
<1>10. AllBelow(t, q) /\ UpTo(t, n)
  BY <1>1, <1>4 DEF DrainFits, AllBelow, UpTo
<1>11. QED
  BY <1>7, <1>8, <1>9, <1>10 DEF DrainFits, g, t

(* A list without its first entry. *)
LEMMA BeforeTail ==
  ASSUME NEW s \in Seq(Subscribers), s # <<>>, NEW l, Before(s, l)
  PROVE  /\ Before(Tail(s), l)
         /\ Contains(s, l) => Head(s) = l \/ Head(s) \in Listeners
<1>1. /\ Len(s) \in Nat \ {0} /\ DOMAIN s = 1 .. Len(s) /\ DOMAIN Tail(s) = 1 .. Len(s) - 1
      /\ Head(s) = s[1] /\ \A i \in 1 .. Len(s) - 1 : Tail(s)[i] = s[i + 1]
  BY HeadTail
<1>2. Before(Tail(s), l)
  <2> SUFFICES ASSUME NEW i \in 1 .. Len(s) - 1, NEW j \in 1 .. Len(s) - 1, i < j, Tail(s)[j] = l
               PROVE  Tail(s)[i] \in Listeners
    BY <1>1 DEF Before
  <2>1. i + 1 \in DOMAIN s /\ j + 1 \in DOMAIN s /\ i + 1 < j + 1
    BY <1>1
  <2>2. QED
    BY <1>1, <2>1 DEF Before
<1>3. ASSUME Contains(s, l) PROVE Head(s) = l \/ Head(s) \in Listeners
  <2>1. PICK j \in 1 .. Len(s) : s[j] = l
    BY <1>3 DEF Contains
  <2>2. 1 \in DOMAIN s /\ j \in DOMAIN s /\ (j = 1 \/ 1 < j)
    BY <1>1
  <2>3. QED
    BY <1>1, <2>1, <2>2 DEF Before
<1>4. QED
  BY <1>2, <1>3

LEMMA LastCallPushed ==
  ASSUME NEW stk \in Seq(Frames), NEW f \in Frames, stack' = Append(stk, f), NEW l
  PROVE  LastCall(l)' <=>
           /\ ~Pending(stk, l)
           /\ f.kind = "emit" /\ Contains(f.rest, l) => Before(f.rest, l) /\ f.value = emitted'
<1>1. ~Idle' /\ Pop' = stk /\ Top' = f
  BY TopPushed DEF Idle, Pop, Top
<1>2. \A p : p = Pop' => (Pending(Pop, l)' <=> Pending(p, l))
  BY DEF Pending
<1>3. \A t : t = Top' => /\ On("emit")' <=> t.kind = "emit"
                         /\ Contains(Top.rest, l)' <=> Contains(t.rest, l)
                         /\ Before(Top.rest, l)' <=> Before(t.rest, l)
  BY DEF On, Contains, Before
<1>4. QED
  BY <1>1, <1>2, <1>3 DEF LastCall

(* Where no emission has l before it, none has it in what is below the top. *)
LEMMA LastCallFree ==
  ASSUME stack' \in Seq(Frames), NEW l, ~Pending(stack', l)
  PROVE  LastCall(l)'
<1>1. CASE stack' = <<>>
  BY <1>1 DEF LastCall, Idle
<1>2. CASE stack' # <<>>
  <2>1. Front(stack') \in Seq(Frames) /\ Last(stack') \in Frames
        /\ stack' = Append(Front(stack'), Last(stack'))
    BY <1>2, Shortened, FrontAndLast
  <2>2. PICK stk \in Seq(Frames), f \in Frames : stack' = Append(stk, f)
    BY <2>1
  <2>3. ~Pending(stk, l) /\ ~(f.kind = "emit" /\ Contains(f.rest, l))
    BY <2>2, OrderOnStack
  <2>4. QED
    BY <2>2, <2>3, LastCallPushed
<1>3. QED
  BY <1>1, <1>2

LEMMA NotPending ==
  ASSUME stack \in Seq(Frames), NEW l, LastCall(l), ~On("emit")
  PROVE  ~Pending(stack, l)
<1>1. CASE Idle
  BY <1>1 DEF Idle, Pending
<1>2. CASE ~Idle
  <2>1. Pop \in Seq(Frames) /\ Top \in Frames /\ stack = Append(Pop, Top)
    BY <1>2, TopType
  <2>2. ~Pending(Pop, l) /\ Top.kind # "emit"
    BY <1>2 DEF LastCall, On
  <2>3. Pending(Append(Pop, Top), l) <=> Pending(Pop, l) \/ (Top.kind = "emit" /\ Contains(Top.rest, l))
    BY <2>1, OrderOnStack
  <2>4. QED
    BY <2>1, <2>2, <2>3
<1>3. QED
  BY <1>1, <1>2

(* Nothing of x is anywhere. *)
LEMMA Nowhere ==
  ASSUME TypeOK, NEW l \in Listeners, \A v \in Nat : Tally(l, v) = 0
  PROVE  handed[l] = <<>> /\ queue[l] = <<>> /\ ~Pending(stack, l)
<1>0. l \in Subscribers /\ handed[l] \in Seq(Nat) /\ queue[l] \in Seq(Nat) /\ stack \in Seq(Frames)
  BY DEF TypeOK, HistoryType, DrainsType, StackType, Subscribers
<1>1. ASSUME NEW v \in Nat PROVE Handed(l, v) = 0 /\ Queued(l, v) = 0 /\ ToCall(stack, l, v) = 0
  <2> DEFINE g == One(v \in lost[l])
  <2>1. /\ Handed(l, v) \in Nat /\ Queued(l, v) \in Nat /\ ToCall(stack, l, v) \in Nat
        /\ ToHand(stack, l, v) \in Nat /\ g \in {0, 1}
    BY <1>0, TallyType
  <2>2. Handed(l, v) + Queued(l, v) + ToCall(stack, l, v) + ToHand(stack, l, v) + g = 0
    BY DEF Tally
  <2> HIDE DEF g
  <2>3. PICK a \in Nat : a = Handed(l, v)
    BY <2>1
  <2>4. PICK b \in Nat : b = Queued(l, v)
    BY <2>1
  <2>5. PICK c \in Nat : c = ToCall(stack, l, v)
    BY <2>1
  <2>6. PICK d \in Nat : d = ToHand(stack, l, v)
    BY <2>1
  <2>7. a + b + c + d + g = 0
    BY <2>2, <2>3, <2>4, <2>5, <2>6
  <2>8. a = 0 /\ b = 0 /\ c = 0
    BY <2>1, <2>7
  <2>9. QED
    BY <2>3, <2>4, <2>5, <2>8
<1>2. ASSUME NEW s \in Seq(Nat), \A v \in Nat : Count(s, {v}) = 0 PROVE s = <<>>
  <2>1. ASSUME s # <<>> PROVE FALSE
    <3>1. Head(s) \in Nat /\ Contains(s, Head(s))
      BY <2>1, HeadTail, RestContains
    <3>2. PICK v \in Nat : v = Head(s)
      BY <3>1
    <3>3. Count(s, {v}) = 0
      BY <1>2
    <3>4. Count(s, {v}) = One(Contains(s, v))
      BY <3>3, CountOnce
    <3>5. QED
      BY <3>1, <3>2, <3>3, <3>4 DEF One
  <2>2. QED
    BY <2>1
<1>3. \A v \in Nat : Count(handed[l], {v}) = 0 /\ Count(queue[l], {v}) = 0
  BY <1>1 DEF Handed, Queued
<1>4. ASSUME Pending(stack, l) PROVE FALSE
  <2>1. PICK i \in DOMAIN stack : stack[i].kind = "emit" /\ Contains(stack[i].rest, l)
    BY <1>4 DEF Pending
  <2>2. stack[i] \in Frames
    BY <1>0, LenProperties, ElementOfSeq
  <2>3. PICK v \in Nat : v = stack[i].value
    BY <2>1, <2>2, FrameType
  <2>4. i \in Spots(stack, Calling(l, v))
    BY <2>1, <2>2, <2>3, OnWay DEF Spots
  <2>5. IsFiniteSet(Spots(stack, Calling(l, v)))
    BY <1>0, CountType
  <2>6. Cardinality(Spots(stack, Calling(l, v))) = 0
    BY <1>1 DEF ToCall, Count
  <2>7. QED
    BY <2>4, <2>5, <2>6, FS_EmptySet
<1>5. QED
  BY <1>0, <1>2, <1>3, <1>4

(* The value an emission has still before it for l is nowhere else yet.     *)
LEMMA NotYet ==
  ASSUME TypeOK, Once, On("emit"), NEW l \in Listeners, Contains(Top.rest, l)
  PROVE  /\ ~Contains(handed[l], Top.value) /\ ~Contains(queue[l], Top.value)
         /\ \A i \in DOMAIN stack : stack[i].kind = "drain" /\ stack[i].who = l =>
              ~Contains(stack[i].rest, Top.value)
<1>0. l \in Subscribers /\ handed[l] \in Seq(Nat) /\ queue[l] \in Seq(Nat) /\ stack \in Seq(Frames)
  BY DEF TypeOK, HistoryType, DrainsType, StackType, Subscribers
<1>1. ~Idle
  BY OnTop DEF On
<1>2. Pop \in Seq(Frames) /\ Top \in Frames /\ stack = Append(Pop, Top)
  BY <1>0, <1>1, TopType
<1>3. PICK v \in Nat : v = Top.value
  BY <1>2, FrameType DEF On
<1>4. Top \in Calling(l, v)
  BY <1>2, <1>3, OnWay DEF On
<1>5. ToCall(stack, l, v) = ToCall(Pop, l, v) + 1 /\ ToCall(Pop, l, v) \in Nat
  BY <1>2, <1>4, WayAppended DEF One
<1>6. Tally(l, v) \in {0, 1}
  BY <1>0 DEF Once
<1>7. Handed(l, v) = 0 /\ Queued(l, v) = 0 /\ ToHand(stack, l, v) = 0
  <2> DEFINE g == One(v \in lost[l])
  <2>1. /\ Handed(l, v) \in Nat /\ Queued(l, v) \in Nat /\ ToHand(stack, l, v) \in Nat /\ g \in {0, 1}
    BY <1>0, TallyType
  <2>2. Handed(l, v) + Queued(l, v) + ToCall(stack, l, v) + ToHand(stack, l, v) + g \in {0, 1}
    BY <1>6 DEF Tally
  <2> HIDE DEF g
  <2>3. QED
    BY <1>5, <2>1, <2>2
<1>8. ASSUME NEW s \in Seq(Nat), Count(s, {v}) = 0 PROVE ~Contains(s, v)
  <2>1. Count(s, {v}) = One(Contains(s, v))
    BY <1>8, CountOnce
  <2>2. QED
    BY <1>8, <2>1 DEF One
<1>9. ~Contains(handed[l], v) /\ ~Contains(queue[l], v)
  BY <1>0, <1>7, <1>8 DEF Handed, Queued
<1>10. ASSUME NEW i \in DOMAIN stack, stack[i].kind = "drain", stack[i].who = l, Contains(stack[i].rest, v)
       PROVE  FALSE
  <2>1. stack[i] \in Frames
    BY <1>0, LenProperties, ElementOfSeq
  <2>2. i \in Spots(stack, Handing(l, v))
    BY <1>10, <2>1, OnWay DEF Spots
  <2>3. IsFiniteSet(Spots(stack, Handing(l, v)))
    BY <1>0, CountType
  <2>4. Cardinality(Spots(stack, Handing(l, v))) = 0
    BY <1>7 DEF ToHand, Count
  <2>5. QED
    BY <2>2, <2>3, <2>4, FS_EmptySet
<1>11. QED
  BY <1>3, <1>9, <1>10

LEMMA OrderInit == Init => OrderInv
BY DEF Init, OrderInv, First, Subscribers

LEMMA SubscribeOrders ==
  ASSUME EventsInv, OnceInv, OrderInv, NEW y \in Subscribers, Subscribe(y),
         NEW l \in Listeners, First(l)'
  PROVE  Fits(l)'
<1>0. /\ TypeOK /\ Once /\ stack \in Seq(Frames) /\ subscribers \in Seq(Subscribers)
      /\ l \in Subscribers /\ handed[l] \in Seq(Nat) /\ queue[l] \in Seq(Nat)
      /\ subscription \in [Subscribers -> {"none", "active", "cancelled"}]
      /\ ahead \in [Subscribers -> SUBSET Plain]
  BY DEF EventsInv, OnceInv, TypeOK, StackType, RegistryType, HistoryType, DrainsType, Subscribers
<1>1. /\ subscription[y] = "none" /\ subscription' = [subscription EXCEPT ![y] = "active"]
      /\ subscribers' = Append(subscribers, y)
      /\ ahead' = [ahead EXCEPT ![y] = ToSet(subscribers) \cap Plain]
      /\ queue' = queue /\ stack' = stack /\ handed' = handed /\ emitted' = emitted
  BY DEF Subscribe, control
<1>2. /\ DOMAIN subscribers' = 1 .. Len(subscribers) + 1 /\ DOMAIN subscribers = 1 .. Len(subscribers)
      /\ Len(subscribers) \in Nat
      /\ \A i \in 1 .. Len(subscribers) : subscribers'[i] = subscribers[i] /\ subscribers[i] \in Subscribers
      /\ subscribers'[Len(subscribers) + 1] = y
  BY <1>0, <1>1, Appended, ElementOfSeq
<1>3. \A i \in 1 .. Len(subscribers) + 1, j \in 1 .. Len(subscribers) + 1 :
        i < j => i \in 1 .. Len(subscribers) /\ (j \in 1 .. Len(subscribers) \/ j = Len(subscribers) + 1)
  BY <1>2
<1>4. LastCall(l)' <=> LastCall(l)
  BY <1>1 DEF LastCall, Idle, Pop, Top, On, Pending
<1>5. CASE l = y
  <2>1. \A v \in Nat : Tally(l, v) = 0
    BY <1>0, <1>1, <1>5 DEF Once
  <2>2. handed[l] = <<>> /\ queue[l] = <<>> /\ ~Pending(stack, l)
    BY <1>0, <2>1, Nowhere
  <2>3. ~HasDrain(stack, l)
    BY <1>1, <1>5 DEF EventsInv, Attached
  <2>4. Before(subscribers', l)
    <3>1. ToSet(subscribers) \cap Plain = {}
      BY <1>0, <1>1, <1>5 DEF First
    <3>2. \A i \in 1 .. Len(subscribers) : subscribers[i] \in Listeners
      BY <1>2, <3>1 DEF ToSet, Subscribers
    <3>3. QED
      BY <1>2, <1>3, <3>2 DEF Before
  <2>5. LastCall(l)'
    BY <1>0, <1>1, <2>2, LastCallFree
  <2>6. InOrder(handed'[l], queue'[l], emitted')
    BY <1>1, <2>2 DEF InOrder, Ordered, AllBelow, UpTo
  <2>7. DrainsFit(stack', l, handed'[l], queue'[l], emitted')
    BY <1>1, <2>3 DEF DrainsFit, HasDrain
  <2>8. QED
    BY <2>4, <2>5, <2>6, <2>7 DEF Fits, Before
<1>6. CASE l # y
  <2>1. First(l)
    BY <1>0, <1>1, <1>6 DEF First
  <2>2. Fits(l)
    BY <2>1 DEF OrderInv
  <2>3. Before(subscribers', l)
    BY <1>2, <1>3, <1>6, <2>2 DEF Fits, Before
  <2>4. QED
    BY <1>1, <1>4, <2>2, <2>3 DEF Fits, Before
<1>7. QED
  BY <1>5, <1>6

LEMMA UnsubscribeOrders ==
  ASSUME EventsInv, OrderInv, NEW y \in Subscribers, Unsubscribe(y), NEW l \in Listeners, First(l)'
  PROVE  Fits(l)'
<1>0. l \in Subscribers /\ subscribers \in Seq(Subscribers) /\ Distinct(subscribers)
  BY DEF EventsInv, TypeOK, RegistryType, Registered, Subscribers
<1>1. /\ subscription[y] = "active" /\ subscription' = [subscription EXCEPT ![y] = "cancelled"]
      /\ queue' = queue /\ stack' = stack /\ handed' = handed /\ emitted' = emitted /\ ahead' = ahead
  BY DEF Unsubscribe, control, history, Active
<1>2. PICK k \in DOMAIN subscribers : subscribers' = RemoveAt(subscribers, k)
  BY DEF Unsubscribe
<1>3. \A i, j \in DOMAIN subscribers' : i < j =>
        \E a, b \in DOMAIN subscribers :
          a < b /\ subscribers'[i] = subscribers[a] /\ subscribers'[j] = subscribers[b]
  BY <1>0, <1>2, Removed
<1>4. First(l)
  BY <1>0, <1>1 DEF First, EventsInv, TypeOK, RegistryType
<1>5. Fits(l)
  BY <1>4 DEF OrderInv
<1>6. Before(subscribers', l)
  BY <1>3, <1>5 DEF Fits, Before
<1>7. LastCall(l)' <=> LastCall(l)
  BY <1>1 DEF LastCall, Idle, Pop, Top, On, Pending
<1>8. QED
  BY <1>1, <1>5, <1>6, <1>7 DEF Fits, Before

(* What there is to show of a step that leaves the registry alone.          *)
LEMMA SameOrder ==
  ASSUME EventsInv, UNCHANGED <<registry, ahead>>, NEW l \in Listeners, Fits(l), LastCall(l)',
         InOrder(handed'[l], queue'[l], emitted'),
         DrainsFit(stack', l, handed'[l], queue'[l], emitted')
  PROVE  Fits(l)'
BY DEF Fits, Before, registry

LEMMA LaterFits ==
  ASSUME NEW h, NEW q, NEW n \in Nat, NEW m \in Nat, n <= m, NEW stk, NEW l,
         h \in Seq(Nat), q \in Seq(Nat), stk \in Seq(Frames),
         InOrder(h, q, n), DrainsFit(stk, l, h, q, n)
  PROVE  InOrder(h, q, m) /\ DrainsFit(stk, l, h, q, m)
<1>1. \A s \in Seq(Nat) : UpTo(s, n) => UpTo(s, m)
  <2> SUFFICES ASSUME NEW s \in Seq(Nat), UpTo(s, n), NEW a \in DOMAIN s PROVE s[a] <= m
    BY DEF UpTo
  <2>1. s[a] \in Nat /\ s[a] <= n
    BY LenProperties, ElementOfSeq DEF UpTo
  <2>2. QED
    BY <2>1
<1>2. InOrder(h, q, m)
  BY <1>1 DEF InOrder
<1>3. ASSUME NEW i \in DOMAIN stk, stk[i].kind = "drain", stk[i].who = l
      PROVE  DrainFits(stk[i].rest, h, q, m)
  <2>1. stk[i] \in Frames
    BY LenProperties, ElementOfSeq
  <2>2. stk[i].rest \in Seq(Nat)
    BY <1>3, <2>1, FrameType
  <2>3. DrainFits(stk[i].rest, h, q, n)
    BY <1>3 DEF DrainsFit
  <2>4. QED
    BY <1>1, <2>2, <2>3 DEF DrainFits
<1>4. QED
  BY <1>2, <1>3 DEF DrainsFit

LEMMA EmitOrders ==
  ASSUME EventsInv, Emit, NEW l \in Listeners, Fits(l)
  PROVE  Fits(l)'
<1>0. /\ stack \in Seq(Frames) /\ subscribers \in Seq(Subscribers) /\ emitted \in Nat
      /\ l \in Subscribers /\ handed[l] \in Seq(Nat) /\ queue[l] \in Seq(Nat)
  BY DEF EventsInv, TypeOK, StackType, RegistryType, HistoryType, DrainsType, Subscribers
<1>1. /\ emitted' = emitted + 1 /\ stack' = Append(stack, Emission(emitted')) /\ ~On("emit")
      /\ UNCHANGED <<registry, ahead>> /\ queue' = queue /\ handed' = handed
  BY DEF Emit, drains, MayOpen, UserCode, On, Top, Frame
<1>2. PICK f \in Frames : /\ f = Emission(emitted') /\ f.kind = "emit" /\ f.rest = subscribers
                          /\ f.value = emitted'
  BY <1>0, <1>1, FrameType DEF Emission
<1>3. ~Pending(stack, l)
  BY <1>0, <1>1, NotPending DEF Fits
<1>4. LastCall(l)'
  BY <1>0, <1>1, <1>2, <1>3, LastCallPushed DEF Fits
<1>5. InOrder(handed[l], queue[l], emitted + 1) /\ DrainsFit(stack, l, handed[l], queue[l], emitted + 1)
  BY <1>0, LaterFits DEF Fits
<1>6. DrainsFit(stack', l, handed[l], queue[l], emitted + 1)
  <2>1. f.kind # "drain"
    BY <1>2
  <2>2. QED
    BY <1>0, <1>1, <1>2, <1>5, <2>1, OrderOnStack
<1>7. QED
  BY <1>1, <1>4, <1>5, <1>6, SameOrder

LEMMA PopOrders ==
  ASSUME EventsInv, Trigger \/ EndDrain \/ Return \/ Unwind, NEW l \in Listeners, Fits(l)
  PROVE  Fits(l)'
<1>0. stack \in Seq(Frames)
  BY DEF EventsInv, TypeOK, StackType
<1>1. ~Idle /\ stack' = Pop
  BY OnTop DEF Trigger, EndDrain, Return, Unwind, On, EventsInv, TypeOK, StackType
<1>2. /\ UNCHANGED <<registry, ahead>> /\ queue' = queue /\ handed' = handed /\ emitted' = emitted
  BY DEF Trigger, EndDrain, Return, Unwind, history, drains
<1>3. Pop \in Seq(Frames) /\ Top \in Frames /\ stack = Append(Pop, Top)
  BY <1>0, <1>1, TopType
<1>4. LastCall(l)'
  BY <1>1, <1>3, LastCallFree DEF Fits, LastCall
<1>5. DrainsFit(stack', l, handed[l], queue[l], emitted)
  <2>1. DrainsFit(Append(Pop, Top), l, handed[l], queue[l], emitted)
    BY <1>3 DEF Fits
  <2>2. DrainsFit(Pop, l, handed[l], queue[l], emitted)
    BY <1>3, <2>1, OrderOnStack
  <2>3. QED
    BY <1>1, <2>2
<1>6. QED
  BY <1>2, <1>4, <1>5, SameOrder DEF Fits

LEMMA CallPlainOrders ==
  ASSUME EventsInv, CallPlain, NEW l \in Listeners, Fits(l)
  PROVE  Fits(l)'
<1>0. stack \in Seq(Frames)
  BY DEF EventsInv, TypeOK, StackType
<1>1. /\ On("emit") /\ Top.rest # <<>> /\ Head(Top.rest) \in Plain
      /\ stack' = Append(Retop(Rest), Call(Head(Top.rest), Top.value))
      /\ handed' = [handed EXCEPT ![Head(Top.rest)] = Append(@, Top.value)]
      /\ UNCHANGED <<registry, ahead>> /\ queue' = queue /\ emitted' = emitted
  BY DEF CallPlain, drains
<1>2. /\ ~Idle /\ Pop \in Seq(Frames) /\ stack = Append(Pop, Top) /\ Top \in Frames /\ Top \in Emissions
      /\ Rest \in Frames /\ Rest.kind = "emit" /\ Rest.rest = Tail(Top.rest)
      /\ Retop(Rest) = Append(Pop, Rest) /\ Top.kind = "emit"
  BY <1>0, <1>1, RestType DEF On
<1>3. PICK x \in Plain, v \in Nat : x = Head(Top.rest) /\ v = Top.value
  BY <1>1, <1>2, FrameType
<1>4. PICK f \in Frames : f = Call(x, v) /\ f.kind = "call"
  BY FrameType DEF Call
<1>5. PICK s \in Seq(Frames) : s = Append(Pop, Rest)
  BY <1>2, Appended
<1>6. stack' = Append(s, f)
  BY <1>1, <1>2, <1>3, <1>4, <1>5
<1>7. x # l
  BY EventsAssumption
<1>8. ~Contains(Rest.rest, l)
  <2> SUFFICES ASSUME Contains(Tail(Top.rest), l) PROVE FALSE
    BY <1>2
  <2>1. Top.rest \in Seq(Subscribers)
    BY <1>2, FrameType
  <2>2. Contains(Top.rest, l)
    BY <1>1, <2>1, RestContains
  <2>3. Before(Top.rest, l)
    BY <1>1, <1>2, <2>2 DEF Fits, LastCall
  <2>4. Head(Top.rest) = l \/ Head(Top.rest) \in Listeners
    BY <1>1, <2>1, <2>2, <2>3, BeforeTail
  <2>5. QED
    BY <1>3, <1>7, <2>4, EventsAssumption
<1>9. ~Pending(s, l)
  <2>1. ~Pending(Pop, l)
    BY <1>2 DEF Fits, LastCall
  <2>2. QED
    BY <1>2, <1>5, <1>8, <2>1, OrderOnStack
<1>10. LastCall(l)'
  BY <1>4, <1>6, <1>9, LastCallPushed
<1>11. handed'[l] = handed[l]
  BY <1>1, <1>3, <1>7 DEF EventsInv, TypeOK, HistoryType, Subscribers
<1>12. DrainsFit(stack', l, handed[l], queue[l], emitted)
  <2>1. DrainsFit(Pop, l, handed[l], queue[l], emitted)
    BY <1>2, OrderOnStack DEF Fits
  <2>2. DrainsFit(s, l, handed[l], queue[l], emitted)
    BY <1>2, <1>5, <2>1, OrderOnStack
  <2>3. QED
    BY <1>4, <1>6, <2>2, OrderOnStack
<1>13. QED
  BY <1>1, <1>10, <1>11, <1>12, SameOrder DEF Fits

LEMMA EnqueueOrders ==
  ASSUME EventsInv, OnceInv, Enqueue, NEW l \in Listeners, Fits(l)
  PROVE  Fits(l)'
<1>0. /\ TypeOK /\ Once /\ stack \in Seq(Frames) /\ emitted \in Nat
      /\ l \in Subscribers /\ handed[l] \in Seq(Nat) /\ queue[l] \in Seq(Nat)
  BY DEF EventsInv, OnceInv, TypeOK, StackType, HistoryType, DrainsType, Subscribers
<1>1. /\ On("emit") /\ Top.rest # <<>> /\ Head(Top.rest) \in Listeners
      /\ stack' = Retop(Rest)
      /\ queue' = [queue EXCEPT ![Head(Top.rest)] = Append(@, Top.value)]
      /\ UNCHANGED <<registry, ahead>> /\ handed' = handed /\ emitted' = emitted
  BY DEF Enqueue, history
<1>2. /\ ~Idle /\ Pop \in Seq(Frames) /\ stack = Append(Pop, Top) /\ Top \in Frames /\ Top \in Emissions
      /\ Rest \in Frames /\ Rest.kind = "emit" /\ Rest.rest = Tail(Top.rest) /\ Rest.value = Top.value
      /\ Retop(Rest) = Append(Pop, Rest) /\ Top.kind = "emit"
  BY <1>0, <1>1, RestType DEF On
<1>3. /\ Top.rest \in Seq(Subscribers)
      /\ \A x : Contains(Top.rest, x) <=> x = Head(Top.rest) \/ Contains(Tail(Top.rest), x)
  BY <1>1, <1>2, FrameType, RestContains
<1>4. ~Pending(Pop, l) /\ (Contains(Top.rest, l) => Before(Top.rest, l) /\ Top.value = emitted)
  BY <1>1, <1>2 DEF Fits, LastCall
<1>5. LastCall(l)'
  <2>1. Contains(Rest.rest, l) => Before(Rest.rest, l) /\ Rest.value = emitted'
    BY <1>1, <1>2, <1>3, <1>4, BeforeTail
  <2>2. stack' = Append(Pop, Rest)
    BY <1>1, <1>2
  <2>3. QED
    BY <1>2, <1>4, <2>1, <2>2, LastCallPushed
<1>6. \A q : DrainsFit(stack', l, handed[l], q, emitted) <=> DrainsFit(stack, l, handed[l], q, emitted)
  <2>1. stack' = Append(Pop, Rest)
    BY <1>1, <1>2
  <2>2. \A q : DrainsFit(Append(Pop, Rest), l, handed[l], q, emitted) <=> DrainsFit(Pop, l, handed[l], q, emitted)
    BY <1>2, OrderOnStack
  <2>3. \A q : DrainsFit(Append(Pop, Top), l, handed[l], q, emitted) <=> DrainsFit(Pop, l, handed[l], q, emitted)
    BY <1>2, OrderOnStack
  <2>4. QED
    BY <1>2, <2>1, <2>2, <2>3
<1>7. CASE Head(Top.rest) # l
  <2>1. queue'[l] = queue[l]
    BY <1>0, <1>1, <1>7 DEF TypeOK, DrainsType
  <2>2. QED
    BY <1>1, <1>5, <1>6, <2>1, SameOrder DEF Fits
<1>8. CASE Head(Top.rest) = l
  <2>1. Contains(Top.rest, l) /\ Top.value = emitted
    BY <1>3, <1>4, <1>8
  <2>2. queue'[l] = Append(queue[l], emitted)
    BY <1>0, <1>1, <1>8, <2>1 DEF TypeOK, DrainsType
  <2>3. /\ ~Contains(handed[l], emitted) /\ ~Contains(queue[l], emitted)
        /\ \A i \in DOMAIN stack : stack[i].kind = "drain" /\ stack[i].who = l =>
             ~Contains(stack[i].rest, emitted)
    BY <1>0, <1>1, <2>1, NotYet
  <2>4. PICK h \in Seq(Nat), q \in Seq(Nat) : h = handed[l] /\ q = queue[l]
    BY <1>0
  <2>5. InOrder(h, q, emitted)
    BY <2>4 DEF Fits
  <2>6. \A a \in DOMAIN h : h[a] < emitted
    BY <1>0, <2>3, <2>4, <2>5, OrderGrows DEF InOrder
  <2>7. InOrder(h, Append(q, emitted), emitted)
    <3>1. Ordered(Append(q, emitted)) /\ UpTo(Append(q, emitted), emitted) /\ AllBelow(h, Append(q, emitted))
      BY <1>0, <2>3, <2>4, <2>5, <2>6, OrderGrows DEF InOrder
    <3>2. QED
      BY <2>5, <3>1 DEF InOrder
  <2>8. ASSUME NEW i \in DOMAIN stack, stack[i].kind = "drain", stack[i].who = l
        PROVE  DrainFits(stack[i].rest, h, Append(q, emitted), emitted)
    <3>1. stack[i] \in Frames
      BY <1>0, LenProperties, ElementOfSeq
    <3>2. PICK r \in Seq(Nat) : r = stack[i].rest
      BY <2>8, <3>1, FrameType
    <3>3. DrainFits(r, h, q, emitted) /\ ~Contains(r, emitted)
      BY <2>3, <2>4, <2>8, <3>2 DEF Fits, DrainsFit
    <3>4. \A a \in DOMAIN r : r[a] < emitted
      BY <1>0, <3>3, OrderGrows DEF DrainFits
    <3>5. UpTo(q, emitted) /\ ~Contains(q, emitted) /\ AllBelow(r, q)
      BY <2>3, <2>4, <2>5, <3>3 DEF InOrder, DrainFits
    <3>6. AllBelow(r, Append(q, emitted))
      BY <1>0, <3>4, <3>5, OrderGrows
    <3>7. QED
      BY <3>2, <3>3, <3>6 DEF DrainFits
  <2>9. DrainsFit(stack', l, handed[l], queue'[l], emitted)
    BY <1>6, <2>2, <2>4, <2>8 DEF DrainsFit
  <2>10. QED
    BY <1>1, <1>5, <2>2, <2>4, <2>7, <2>9, SameOrder
<1>9. QED
  BY <1>7, <1>8

LEMMA RunDrainOrders ==
  ASSUME EventsInv, NEW k \in Listeners, RunDrain(k), NEW l \in Listeners, Fits(l)
  PROVE  Fits(l)'
<1>0. /\ stack \in Seq(Frames) /\ queue \in [Listeners -> Seq(Nat)]
  BY DEF EventsInv, TypeOK, StackType, DrainsType
<1>1. /\ UNCHANGED <<registry, ahead>> /\ handed' = handed /\ emitted' = emitted /\ ~On("emit")
  BY DEF RunDrain, history, MayOpen, UserCode, On, Top, Frame
<1>2. ~Pending(stack, l)
  BY <1>0, <1>1, NotPending DEF Fits
<1>3. CASE queue' = queue /\ stack' = stack
  <2>1. LastCall(l)'
    BY <1>0, <1>2, <1>3, LastCallFree
  <2>2. QED
    BY <1>1, <1>3, <2>1, SameOrder DEF Fits
<1>4. CASE ~HasDrain(stack, k) /\ queue' = [queue EXCEPT ![k] = <<>>] /\ stack' = Append(stack, Drain(k))
  <2>1. PICK f \in Frames : f = Drain(k) /\ f.kind = "drain" /\ f.who = k /\ f.rest = queue[k]
    BY <1>0, FrameType DEF Drain
  <2>2. LastCall(l)'
    BY <1>0, <1>2, <1>4, <2>1, LastCallPushed
  <2>3. CASE k # l
    <3>1. queue'[l] = queue[l]
      BY <1>0, <1>4, <2>3
    <3>2. DrainsFit(stack', l, handed[l], queue[l], emitted)
      BY <1>0, <1>4, <2>1, <2>3, OrderOnStack DEF Fits
    <3>3. QED
      BY <1>1, <2>2, <3>1, <3>2, SameOrder DEF Fits
  <2>4. CASE k = l
    <3>1. queue'[l] = <<>>
      BY <1>0, <1>4, <2>4
    <3>2. InOrder(handed[l], queue[l], emitted)
      BY DEF Fits
    <3>3. InOrder(handed[l], <<>>, emitted) /\ DrainFits(queue[l], handed[l], <<>>, emitted)
      BY <3>2 DEF InOrder, DrainFits, Ordered, AllBelow, UpTo
    <3>4. DrainsFit(stack, l, handed[l], <<>>, emitted)
      BY <1>4, <2>4 DEF DrainsFit, HasDrain
    <3>5. DrainsFit(stack', l, handed[l], <<>>, emitted)
      BY <1>0, <1>4, <2>1, <2>4, <3>3, <3>4, OrderOnStack
    <3>6. QED
      BY <1>1, <2>2, <3>1, <3>3, <3>5, SameOrder
  <2>5. QED
    BY <2>3, <2>4
<1>5. QED
  BY <1>3, <1>4 DEF RunDrain, Draining, HasDrain

LEMMA HandleOrders ==
  ASSUME EventsInv, CallHandler, NEW l \in Listeners, Fits(l)
  PROVE  Fits(l)'
<1>0. /\ stack \in Seq(Frames) /\ handed \in [Subscribers -> Seq(Nat)] /\ emitted \in Nat
      /\ l \in Subscribers /\ handed[l] \in Seq(Nat) /\ queue[l] \in Seq(Nat) /\ StackOnce(stack)
  BY DEF EventsInv, TypeOK, StackType, HistoryType, DrainsType, Subscribers
<1>1. /\ On("drain") /\ Top.rest # <<>> /\ ~On("emit")
      /\ stack' = Append(Retop(Rest), Handle(Top.who, Head(Top.rest)))
      /\ handed' = [handed EXCEPT ![Top.who] = Append(@, Head(Top.rest))]
      /\ UNCHANGED <<registry, ahead>> /\ queue' = queue /\ emitted' = emitted
  BY DEF CallHandler, drains, On
<1>2. /\ ~Idle /\ Pop \in Seq(Frames) /\ stack = Append(Pop, Top) /\ Top \in Frames /\ Top \in Drains
      /\ Rest \in Frames /\ Rest.kind = "drain" /\ Rest.who = Top.who /\ Rest.rest = Tail(Top.rest)
      /\ Retop(Rest) = Append(Pop, Rest) /\ Top.kind = "drain" /\ Head(Top.rest) \in Nat
  BY <1>0, <1>1, RestType DEF On
<1>3. PICK k \in Listeners, r \in Seq(Nat) : k = Top.who /\ r = Top.rest
  BY <1>2, FrameType
<1>4. PICK f \in Frames : f = Handle(k, Head(r)) /\ f.kind = "handle"
  BY <1>2, <1>3, FrameType DEF Handle
<1>5. PICK s \in Seq(Frames) : s = Append(Pop, Rest)
  BY <1>2, Appended
<1>6. stack' = Append(s, f)
  BY <1>1, <1>2, <1>3, <1>4, <1>5
<1>7. LastCall(l)'
  <2>1. ~Pending(Pop, l)
    BY <1>2 DEF Fits, LastCall
  <2>2. ~Pending(s, l)
    BY <1>2, <1>5, <2>1, OrderOnStack
  <2>3. QED
    BY <1>4, <1>6, <2>2, LastCallPushed
<1>8. /\ DrainsFit(Pop, l, handed[l], queue[l], emitted)
      /\ k = l => DrainFits(r, handed[l], queue[l], emitted)
  BY <1>2, <1>3, OrderOnStack DEF Fits
<1>9. \A h : DrainsFit(stack', l, h, queue[l], emitted) <=>
               /\ DrainsFit(Pop, l, h, queue[l], emitted)
               /\ k = l => DrainFits(Tail(r), h, queue[l], emitted)
  <2>1. PICK g \in Frames : g = Rest /\ g.kind = "drain" /\ g.who = k /\ g.rest = Tail(r)
    BY <1>2, <1>3
  <2>2. PICK p \in Seq(Frames) : p = Pop
    BY <1>2
  <2>3. PICK q \in Seq(Nat) : q = queue[l]
    BY <1>0
  <2>4. ASSUME NEW h
        PROVE  DrainsFit(stack', l, h, q, emitted) <=> DrainsFit(s, l, h, q, emitted)
    BY <1>4, <1>6, OrderOnStack
  <2>5. ASSUME NEW h
        PROVE  DrainsFit(s, l, h, q, emitted) <=>
                 /\ DrainsFit(p, l, h, q, emitted)
                 /\ k = l => DrainFits(Tail(r), h, q, emitted)
    <3>1. DrainsFit(Append(p, g), l, h, q, emitted) <=>
            /\ DrainsFit(p, l, h, q, emitted)
            /\ g.kind = "drain" /\ g.who = l => DrainFits(g.rest, h, q, emitted)
      BY <2>1, <2>2, OrderOnStack
    <3>2. s = Append(p, g)
      BY <1>5, <2>1, <2>2
    <3>3. DrainsFit(s, l, h, q, emitted) <=>
            /\ DrainsFit(p, l, h, q, emitted)
            /\ g.kind = "drain" /\ g.who = l => DrainFits(g.rest, h, q, emitted)
      BY <3>1, <3>2, Zenon
    <3>4. (g.kind = "drain" /\ g.who = l => DrainFits(g.rest, h, q, emitted)) <=>
            (k = l => DrainFits(Tail(r), h, q, emitted))
      BY <2>1, Zenon
    <3>5. QED
      BY <3>3, <3>4, Zenon
  <2>6. QED
    BY <2>2, <2>3, <2>4, <2>5
<1>10. CASE k # l
  <2>1. handed'[l] = handed[l]
    BY <1>0, <1>1, <1>3, <1>10
  <2>2. QED
    BY <1>1, <1>7, <1>8, <1>9, <1>10, <2>1, SameOrder DEF Fits
<1>11. CASE k = l
  <2>1. handed'[l] = Append(handed[l], Head(r))
    BY <1>0, <1>1, <1>3, <1>11
  <2>2. ~HasDrain(Pop, l)
    BY <1>0, <1>2, <1>3, <1>11, PopOnStack
  <2>3. PICK h \in Seq(Nat), q \in Seq(Nat) : h = handed[l] /\ q = queue[l]
    BY <1>0
  <2>4. InOrder(h, q, emitted) /\ DrainFits(r, h, q, emitted)
    BY <1>8, <1>11, <2>3 DEF Fits
  <2>5. InOrder(Append(h, Head(r)), q, emitted) /\ DrainFits(Tail(r), Append(h, Head(r)), q, emitted)
    BY <1>0, <1>1, <1>3, <2>4, OrderMoves
  <2>6. DrainsFit(Pop, l, Append(h, Head(r)), q, emitted)
    BY <2>2 DEF DrainsFit, HasDrain
  <2>7. DrainsFit(stack', l, Append(h, Head(r)), q, emitted)
    BY <1>9, <2>3, <2>5, <2>6
  <2>8. QED
    BY <1>1, <1>7, <2>1, <2>3, <2>5, <2>7, SameOrder
<1>12. QED
  BY <1>10, <1>11

LEMMA OrderStep == EventsInv /\ OnceInv /\ OrderInv /\ [Next]_vars => OrderInv'
<1> SUFFICES ASSUME EventsInv, OnceInv, OrderInv, [Next]_vars, NEW l \in Listeners, First(l)'
             PROVE  Fits(l)'
  BY DEF OrderInv
<1>1. ASSUME NEW y \in Subscribers, Subscribe(y) \/ Unsubscribe(y) PROVE Fits(l)'
  BY <1>1, SubscribeOrders, UnsubscribeOrders
<1>2. ASSUME UNCHANGED <<subscription, ahead>> PROVE Fits(l)
  BY <1>2 DEF OrderInv, First
<1>3. ASSUME NEW k \in Listeners, RunDrain(k) PROVE Fits(l)'
  BY <1>2, <1>3, RunDrainOrders DEF RunDrain, registry, history
<1>4. CASE Emit
  BY <1>2, <1>4, EmitOrders DEF Emit, registry
<1>5. CASE CallPlain
  BY <1>2, <1>5, CallPlainOrders DEF CallPlain, registry
<1>6. CASE Enqueue
  BY <1>2, <1>6, EnqueueOrders DEF Enqueue, registry, history
<1>7. CASE CallHandler
  BY <1>2, <1>7, HandleOrders DEF CallHandler, registry
<1>8. CASE Trigger \/ EndDrain \/ Return \/ Unwind
  <2>1. UNCHANGED <<subscription, ahead>>
    BY <1>8 DEF Trigger, EndDrain, Return, Unwind, registry, history
  <2>2. QED
    BY <1>2, <1>8, <2>1, PopOrders
<1>9. CASE Panic \/ UNCHANGED vars
  <2>1. /\ UNCHANGED <<registry, ahead>> /\ queue' = queue /\ handed' = handed /\ emitted' = emitted
        /\ stack' = stack
    BY <1>9 DEF Panic, vars, drains, control, history
  <2>2. Fits(l)
    BY <1>2, <2>1 DEF registry
  <2>3. LastCall(l)' <=> LastCall(l)
    BY <2>1 DEF LastCall, Idle, Pop, Top, On, Pending
  <2>4. QED
    BY <2>1, <2>2, <2>3, SameOrder DEF Fits
<1>10. QED
  BY <1>1, <1>3, <1>4, <1>5, <1>6, <1>7, <1>8, <1>9 DEF Next

(* A listener that no immediate subscriber comes before is handed the       *)
(* values in the order of their emission, however many flushes its own      *)
(* handler and those of others make in the middle of an emission or a drain *)
(* and whatever panics.                                                     *)
THEOREM FirstInEmissionOrderCorrect == Spec => []FirstInEmissionOrder
<1>1. EventsInv /\ OnceInv /\ OrderInv => FirstInEmissionOrder
  <2> SUFFICES ASSUME EventsInv, OnceInv, OrderInv, NEW l \in Listeners, ahead[l] = {}
               PROVE  Ordered(handed[l])
    BY DEF FirstInEmissionOrder
  <2>1. CASE First(l)
    BY <2>1 DEF OrderInv, Fits, InOrder
  <2>2. CASE ~First(l)
    <3>1. l \in Subscribers /\ subscription[l] = "none" /\ TypeOK /\ Once
      BY <2>2 DEF First, Subscribers, EventsInv, OnceInv
    <3>2. handed[l] = <<>>
      BY <3>1, Nowhere DEF Once
    <3>3. QED
      BY <3>2 DEF Ordered
  <2>3. QED
    BY <2>1, <2>2
<1>2. Spec => [](EventsInv /\ OnceInv /\ OrderInv)
  BY EventsInit, EventsStep, OnceInit, OnceStep, OrderInit, OrderStep, PTL DEF Spec
<1>3. QED
  BY <1>1, <1>2, PTL
=============================================================================
