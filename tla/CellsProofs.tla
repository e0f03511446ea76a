----------------------------- MODULE CellsProofs -----------------------------
(***************************************************************************)
(* Proof that a clean cell is current, for chains of computed nodes of any *)
(* length and form, whatever is written, read, refreshed and broken off by *)
(* whom while a cell is borrowed, compared or computed.                    *)
(***************************************************************************)
EXTENDS Cells, SequenceTheorems, TLAPS

USE DEF cells, history

-----------------------------------------------------------------------------
(* The inductive invariant.                                                *)

Refreshes == {"compute", "verify", "settle"}
Computing == {"compute", "settle"}
Plain == {"read", "with", "equal", "update"}

FrameFits(f) ==
  /\ f = [kind |-> f.kind, node |-> f.node, val |-> f.val, asked |-> f.asked]
  /\ f.kind \in Refreshes \cup Plain
  /\ f.kind \in Refreshes => f.node \in Computed
  /\ f.kind \in {"equal", "update"} => f.node \in Signals
  /\ f.kind = "verify" => f.val \in Nat
  /\ f.kind = "equal" => f.val \in Values
IsStack(stk) == (\E S : stk \in Seq(S)) /\ \A i \in DOMAIN stk : FrameFits(stk[i])

(* A refresh asks for what its node is made of, until a comparator of one   *)
(* of these nodes asks for anything.                                       *)
Chained(stk) ==
  \A i, j \in DOMAIN stk :
    i < j /\ stk[i].kind \in Refreshes =>
      \/ stk[j].kind \in Refreshes /\ stk[j].node \in Upstream[stk[i].node]
      \/ \E k \in DOMAIN stk :
           i <= k /\ k < j /\ stk[k].kind = "settle" /\ stk[k].node \in Upstream[stk[i].node]

(* Only memos compare; a node that computes is not refreshed inside.        *)
MemosCompare(stk) ==
  \A i \in DOMAIN stk : i < Len(stk) /\ stk[i].kind = "settle" => stk[i].node \in Memos
ComputesLast(stk) ==
  \A i, j \in DOMAIN stk :
    stk[i].kind = "compute" /\ stk[j].kind \in Refreshes /\ stk[j].node = stk[i].node => j <= i

StackInv(stk) == IsStack(stk) /\ Chained(stk) /\ MemosCompare(stk) /\ ComputesLast(stk)

CellTypes ==
  /\ DOMAIN value = Nodes /\ \A s \in Signals : value[s] \in Values
  /\ version \in [Nodes -> Nat]
  /\ state \in [Computed -> {"Clean", "Check", "Dirty"}]
  /\ seen \in [Computed -> Nat \cup {None}]
  /\ panicking \in BOOLEAN

(* A node is without an edge while it computes, and before it first did.    *)
EdgeInv ==
  /\ \A i \in DOMAIN stack : stack[i].kind = "compute" =>
       seen[stack[i].node] = None /\ state[stack[i].node] = "Clean"
  /\ \A c \in Computed : seen[c] = None => state[c] = "Dirty" \/ Active(c)

(* What was read was once there; a verification has not a newer version     *)
(* than the edge, which only a computation inside it takes away.            *)
SeenInv == \A c \in Computed : seen[c] # None => seen[c] <= version[Input[c]]
VerifyInv ==
  \A i \in DOMAIN stack : stack[i].kind = "verify" =>
    LET c == stack[i].node IN
    /\ stack[i].val <= version[Input[c]]
    /\ seen[c] # None => stack[i].val <= seen[c]
    /\ seen[c] = None =>
         \E j \in DOMAIN stack : i < j /\ stack[j].kind = "compute" /\ stack[j].node = c

(* A signal whose value may have changed without a new version. *)
Unsure(n) == n \in Signals /\ (n \in torn \/ Mutated(n))
ReadLast(c) == seen[c] # None /\ seen[c] = version[Input[c]] /\ ~Unsure(Input[c])

(* The value a node will get, or has, is right if its edge is the current   *)
(* version of its input.                                                   *)
WillBeRight(c, v) == seen[c] # None /\ (ReadLast(c) => v = Fun[c][value[Input[c]]])
Innermost(stk, i) ==
  \A j \in DOMAIN stk : stk[j].kind \in Computing /\ stk[j].node = stk[i].node => j <= i
SettleInv ==
  \A i \in DOMAIN stack :
    stack[i].kind = "settle" /\ Innermost(stack, i) => WillBeRight(stack[i].node, stack[i].val)
Settling(c) == \E i \in DOMAIN stack : stack[i].kind \in Computing /\ stack[i].node = c
ValueInv ==
  \A c \in Computed :
    c \notin lost /\ ~Settling(c) /\ ReadLast(c) => value[c] = Fun[c][value[Input[c]]]

(* The edge of a clean node is the current version of an input that is      *)
(* clean and at rest, unless the node is behind.                            *)
Busy(c) == \E i \in DOMAIN stack : stack[i].kind \in Refreshes /\ stack[i].node = c
Settled(n) == n \in Computed => state[n] = "Clean" /\ ~Busy(n)
ComparedAt(j, c) ==
  \E i \in DOMAIN stack : i < j /\ stack[i].kind = "settle" /\ stack[i].node \in Upstream[c] \ {c}
Excused(c) ==
  \/ c \in lost \cup behind
  \/ \E j \in DOMAIN stack : stack[j].kind = "settle" /\ stack[j].node = c /\ ComparedAt(j, c)
CleanInv ==
  \A c \in Computed :
    state[c] = "Clean" /\ seen[c] # None /\ ~Excused(c)
    => Settled(Input[c]) /\ seen[c] = version[Input[c]]

(* While a panic unwinds, what frames stand for is not needed any more.     *)
FramesInv == ~panicking => VerifyInv /\ SettleInv

-----------------------------------------------------------------------------
(* Recursion along the input: no node is made of itself.                   *)

(* A set of computed nodes that is not empty has one that is not made of    *)
(* another of it.                                                          *)
LEMMA Lowest ==
  ASSUME NEW C \in SUBSET Computed, C # {}
  PROVE  \E c \in C : Input[c] \notin C /\ Input[c] \in Nodes
BY CellsAssumption

LEMMA Kinds ==
  ASSUME NEW n \in Nodes
  PROVE  /\ n \in Signals \/ n \in Computed
         /\ n \in Signals => n \notin Computed
         /\ n \in Computed => Input[n] \in Nodes
BY CellsAssumption DEF Nodes

(* A recursive definition along the input defines a function. *)
Defined(X, base, G) ==
  \E f \in [Nodes -> X] : \A n \in Nodes :
    f[n] = IF n \in Signals THEN base[n] ELSE G[n][f[Input[n]]]

LEMMA Recursion ==
  ASSUME NEW X, X # {}, NEW base \in [Signals -> X], NEW G \in [Computed -> [X -> X]]
  PROVE  Defined(X, base, G)
<1> DEFINE E(f, n) == IF n \in Signals THEN base[n] ELSE G[n][f[Input[n]]]
           Fits(A, f) ==
             /\ A \subseteq Nodes /\ f \in [Nodes -> X]
             /\ \A n \in A : (n \in Computed => Input[n] \in A) /\ f[n] = E(f, n)
           Is(n, v) == \E A, f : Fits(A, f) /\ n \in A /\ v = f[n]
<1>1. ASSUME NEW A, NEW B, NEW f, NEW g, Fits(A, f), Fits(B, g), NEW n, n \in A, n \in B
      PROVE  f[n] = g[n]
  <2> DEFINE D == {c \in Computed : c \in A /\ c \in B /\ f[c] # g[c]}
  <2>1. ASSUME D # {} PROVE FALSE
    <3>1. PICK c \in D : Input[c] \notin D /\ Input[c] \in Nodes
      BY <2>1, Lowest
    <3>2. Input[c] \in A /\ Input[c] \in B
      BY <1>1, <3>1
    <3>3. f[Input[c]] = g[Input[c]]
      <4>1. CASE Input[c] \in Computed
        BY <3>1, <3>2, <4>1
      <4>2. CASE Input[c] \in Signals
        BY <1>1, <3>2, <4>2
      <4>3. QED
        BY <3>1, <4>1, <4>2, Kinds
    <3>4. c \notin Signals
      BY <3>1, Kinds DEF Nodes
    <3>5. f[c] = G[c][f[Input[c]]] /\ g[c] = G[c][g[Input[c]]]
      BY <1>1, <3>1, <3>4
    <3>6. QED
      BY <3>1, <3>3, <3>5
  <2>2. n \in Nodes
    BY <1>1
  <2>3. CASE n \in Computed
    BY <1>1, <2>1, <2>3
  <2>4. CASE n \in Signals
    BY <1>1, <2>4
  <2>5. QED
    BY <2>2, <2>3, <2>4, Kinds
<1>2. ASSUME NEW n \in Nodes
      PROVE  \E v \in X : Is(n, v)
  <2> DEFINE Here(m) == \E A, f : Fits(A, f) /\ m \in A
             U == {c \in Computed : ~Here(c)}
  <2>1. ASSUME NEW s \in Signals PROVE Here(s)
    <3>1. Fits({s}, [m \in Nodes |-> base[s]])
      BY Kinds DEF Nodes
    <3>2. QED
      BY <3>1
  <2>2. ASSUME U # {} PROVE FALSE
    <3>1. PICK c \in U : Input[c] \notin U /\ Input[c] \in Nodes
      BY <2>2, Lowest
    <3>2. Here(Input[c])
      <4>1. CASE Input[c] \in Signals
        BY <2>1, <4>1
      <4>2. CASE Input[c] \in Computed
        <5> HIDE DEF Here
        <5>1. QED
          BY <3>1, <4>2
      <4>3. QED
        BY <3>1, <4>1, <4>2, Kinds
    <3>3. PICK A, f : Fits(A, f) /\ Input[c] \in A
      BY <3>2
    <3>4. c \notin A /\ c \in Computed /\ c \in Nodes /\ c \notin Signals
      BY <3>1, <3>3, Kinds DEF Nodes
    <3>5. PICK g : g = [f EXCEPT ![c] = G[c][f[Input[c]]]]
      OBVIOUS
    <3>6. g \in [Nodes -> X] /\ g[c] = G[c][f[Input[c]]] /\ \A m \in A : g[m] = f[m]
      BY <3>1, <3>3, <3>4, <3>5
    <3>7. \A m \in A : m \in Computed => Input[m] \in A
      BY <3>3
    <3>8. ASSUME NEW m \in A PROVE g[m] = E(g, m)
      <4>1. f[m] = E(f, m) /\ g[m] = f[m] /\ m \in Nodes
        BY <3>3, <3>6
      <4>2. CASE m \in Signals
        BY <4>1, <4>2
      <4>3. CASE m \in Computed
        <5>1. g[Input[m]] = f[Input[m]]
          BY <3>6, <3>7, <4>3
        <5>2. QED
          BY <4>1, <5>1
      <4>4. QED
        BY <4>1, <4>2, <4>3, Kinds
    <3>9. g[c] = E(g, c)
      BY <3>3, <3>4, <3>6
    <3>10. Fits(A \cup {c}, g)
      BY <3>3, <3>4, <3>6, <3>7, <3>8, <3>9
    <3>11. Here(c)
      <4>1. c \in A \cup {c}
        OBVIOUS
      <4> HIDE DEF Fits
      <4>2. QED
        BY <3>10, <4>1
    <3>12. ~Here(c)
      BY <3>1
    <3>13. QED
      BY <3>11, <3>12
  <2>3. Here(n)
    BY <2>1, <2>2, Kinds
  <2>4. QED
    BY <2>3
<1>3. ASSUME NEW n, NEW v, NEW w, Is(n, v), Is(n, w) PROVE v = w
  BY <1>1, <1>3
<1> DEFINE F == [n \in Nodes |-> CHOOSE v \in X : Is(n, v)]
<1>4. ASSUME NEW n \in Nodes PROVE F[n] \in X /\ Is(n, F[n])
  BY <1>2
<1> HIDE DEF F
<1>5. F \in [Nodes -> X]
  BY <1>4 DEF F
<1>6. ASSUME NEW n \in Nodes PROVE F[n] = E(F, n)
  <2>1. PICK A, f : Fits(A, f) /\ n \in A /\ F[n] = f[n]
    BY <1>4
  <2>2. CASE n \in Signals
    BY <2>1, <2>2
  <2>3. CASE n \in Computed
    <3>1. Input[n] \in A /\ Input[n] \in Nodes /\ n \notin Signals
      BY <2>1, <2>3, Kinds
    <3>2. Is(Input[n], f[Input[n]]) /\ Is(Input[n], F[Input[n]])
      BY <1>4, <2>1, <3>1
    <3>3. F[Input[n]] = f[Input[n]]
      <4> HIDE DEF Is
      <4>1. QED
        BY <1>3, <3>2
    <3>4. QED
      BY <2>1, <3>1, <3>3
  <2>4. QED
    BY <2>2, <2>3, Kinds
<1>7. QED
  BY <1>5, <1>6 DEF Defined

-----------------------------------------------------------------------------
(* What a node is made of.                                                 *)

LEMMA UpstreamIs ==
  /\ Upstream \in [Nodes -> SUBSET Nodes]
  /\ \A s \in Signals : Upstream[s] = {s}
  /\ \A c \in Computed : Upstream[c] = {c} \cup Upstream[Input[c]]
<1> DEFINE base == [s \in Signals |-> {s}]
           G == [c \in Computed |-> [x \in SUBSET Nodes |-> {c} \cup x]]
           Up(f) == [n \in Nodes |-> IF n \in Signals THEN {n} ELSE {n} \cup f[Input[n]]]
<1>1. base \in [Signals -> SUBSET Nodes] /\ G \in [Computed -> [SUBSET Nodes -> SUBSET Nodes]]
  BY DEF Nodes
<1>2. PICK f \in [Nodes -> SUBSET Nodes] :
        \A n \in Nodes : f[n] = IF n \in Signals THEN base[n] ELSE G[n][f[Input[n]]]
  <2>1. PICK X, b, g : X = SUBSET Nodes /\ b = base /\ g = G
    OBVIOUS
  <2>2. X # {} /\ b \in [Signals -> X] /\ g \in [Computed -> [X -> X]]
    BY <1>1, <2>1
  <2>3. Defined(X, b, g)
    BY <2>2, Recursion
  <2> HIDE DEF base, G
  <2>4. QED
    BY <2>1, <2>3 DEF Defined
<1>3. ASSUME NEW n \in Nodes
      PROVE  f[n] = IF n \in Signals THEN {n} ELSE {n} \cup f[Input[n]]
  <2>1. f[n] = IF n \in Signals THEN base[n] ELSE G[n][f[Input[n]]]
    BY <1>2
  <2>2. CASE n \in Signals
    BY <2>1, <2>2
  <2>3. CASE n \in Computed
    BY <1>2, <2>1, <2>3, Kinds
  <2>4. QED
    BY <2>2, <2>3, Kinds
<1>4. f = Up(f)
  BY <1>2, <1>3
<1>5. Upstream = CHOOSE g : g = Up(g)
  BY DEF Upstream
<1>6. Upstream = Up(Upstream)
  <2> HIDE DEF Up
  <2>1. QED
    BY <1>4, <1>5
<1>7. \A n \in Nodes : Upstream[n] = IF n \in Signals THEN {n} ELSE {n} \cup Upstream[Input[n]]
  BY <1>6
<1>8. \A s \in Signals : Upstream[s] = {s}
  BY <1>7 DEF Nodes
<1>9. \A c \in Computed : Upstream[c] = {c} \cup Upstream[Input[c]]
  <2>1. SUFFICES ASSUME NEW c \in Computed PROVE Upstream[c] = {c} \cup Upstream[Input[c]]
    OBVIOUS
  <2>2. c \in Nodes /\ c \notin Signals
    BY Kinds DEF Nodes
  <2>3. QED
    BY <1>7, <2>2
<1>10. Upstream \in [Nodes -> SUBSET Nodes]
  <2> DEFINE D == {c \in Computed : ~(Upstream[c] \subseteq Nodes)}
  <2>1. ASSUME D # {} PROVE FALSE
    <3>1. PICK c \in D : Input[c] \notin D /\ Input[c] \in Nodes
      BY <2>1, Lowest
    <3>2. Upstream[Input[c]] \subseteq Nodes
      BY <1>8, <3>1, Kinds
    <3>3. Upstream[c] \subseteq Nodes
      BY <1>9, <3>1, <3>2 DEF Nodes
    <3>4. QED
      BY <3>1, <3>3
  <2>2. \A n \in Nodes : Upstream[n] \in SUBSET Nodes
    BY <1>8, <2>1, Kinds
  <2>3. QED
    BY <1>6, <2>2
<1>11. QED
  BY <1>8, <1>9, <1>10

(* It is a set of nodes with the node in it and closed under Input, and no  *)
(* two nodes are made of each other.                                       *)
LEMMA UpstreamSelf ==
  ASSUME NEW n \in Nodes
  PROVE  n \in Upstream[n] /\ Upstream[n] \subseteq Nodes
BY UpstreamIs, Kinds

LEMMA UpstreamClosed ==
  ASSUME NEW n \in Nodes, NEW c \in Computed, c \in Upstream[n]
  PROVE  Input[c] \in Upstream[n]
<1> DEFINE D == {d \in Computed : c \in Upstream[d] /\ Input[c] \notin Upstream[d]}
<1>1. ASSUME D # {} PROVE FALSE
  <2>1. PICK d \in D : Input[d] \notin D /\ Input[d] \in Nodes
    BY <1>1, Lowest
  <2>2. Upstream[d] = {d} \cup Upstream[Input[d]] /\ Input[d] \in Upstream[Input[d]]
    BY <2>1, UpstreamIs, UpstreamSelf
  <2>3. c # d /\ c \in Upstream[Input[d]]
    BY <2>1, <2>2
  <2>4. Input[d] \notin Signals
    BY <2>3, UpstreamIs, Kinds
  <2>5. Input[d] \in Computed
    BY <2>1, <2>4, Kinds
  <2>6. QED
    BY <2>1, <2>2, <2>3, <2>5
<1>2. CASE n \in Signals
  BY <1>2, UpstreamIs, Kinds
<1>3. CASE n \in Computed
  BY <1>1, <1>3
<1>4. QED
  BY <1>2, <1>3, Kinds

LEMMA UpstreamTransitive ==
  ASSUME NEW n \in Nodes, NEW m \in Upstream[n]
  PROVE  m \in Nodes /\ Upstream[m] \subseteq Upstream[n]
<1> DEFINE D == {d \in Computed : m \in Upstream[d] /\ ~(Upstream[m] \subseteq Upstream[d])}
<1>1. ASSUME D # {} PROVE FALSE
  <2>1. PICK d \in D : Input[d] \notin D /\ Input[d] \in Nodes
    BY <1>1, Lowest
  <2>2. Upstream[d] = {d} \cup Upstream[Input[d]]
    BY <2>1, UpstreamIs
  <2>3. m # d /\ m \in Upstream[Input[d]]
    BY <2>1, <2>2
  <2>4. CASE Input[d] \in Signals
    BY <2>1, <2>2, <2>3, <2>4, UpstreamIs
  <2>5. CASE Input[d] \in Computed
    BY <2>1, <2>2, <2>3, <2>5
  <2>6. QED
    BY <2>1, <2>4, <2>5, Kinds
<1>2. CASE n \in Signals
  BY <1>2, UpstreamIs, UpstreamSelf
<1>3. CASE n \in Computed
  BY <1>1, <1>3, UpstreamSelf
<1>4. QED
  BY <1>2, <1>3, Kinds

LEMMA UpstreamAntisymmetric ==
  ASSUME NEW n \in Nodes, NEW m \in Upstream[n], n \in Upstream[m]
  PROVE  m = n
<1> SUFFICES ASSUME m # n PROVE FALSE
  OBVIOUS
<1> DEFINE C == {c \in Computed : c \in Upstream[n] /\ n \in Upstream[c]}
<1>1. m \in Nodes
  BY UpstreamTransitive
<1>2. n \in Computed
  BY UpstreamIs, Kinds
<1>3. n \in C
  BY <1>2, UpstreamSelf
<1>4. PICK c \in C : Input[c] \notin C /\ Input[c] \in Nodes
  BY <1>3, Lowest
<1>5. Input[c] \in Upstream[n] /\ Upstream[c] = {c} \cup Upstream[Input[c]]
  BY <1>4, UpstreamClosed, UpstreamIs
<1>6. n \in Upstream[Input[c]]
  <2>1. CASE c # n
    BY <1>4, <1>5, <2>1
  <2>2. CASE c = n
    <3>1. m \in Upstream[Input[n]]
      BY <1>5, <2>2
    <3>2. Upstream[m] \subseteq Upstream[Input[n]]
      BY <1>4, <2>2, <3>1, UpstreamTransitive
    <3>3. QED
      BY <2>2, <3>2
  <2>3. QED
    BY <2>1, <2>2
<1>7. Input[c] \in Computed
  <2>1. Input[c] \notin Signals
    BY <1>2, <1>6, UpstreamIs, Kinds
  <2>2. QED
    BY <1>4, <2>1, Kinds
<1>8. QED
  BY <1>4, <1>5, <1>6, <1>7

(* What a computed node reads is made of other nodes. *)
LEMMA InputBelow ==
  ASSUME NEW c \in Computed
  PROVE  /\ Input[c] \in Nodes /\ Input[c] # c /\ c \in Nodes
         /\ Input[c] \in Upstream[c] /\ c \notin Upstream[Input[c]]
         /\ Upstream[c] = {c} \cup Upstream[Input[c]]
<1>1. Input[c] \in Nodes /\ c \in Nodes /\ Upstream[c] = {c} \cup Upstream[Input[c]]
  BY UpstreamIs, Kinds DEF Nodes
<1>2. Input[c] # c
  BY Lowest, {c} # {}
<1>3. Input[c] \in Upstream[c]
  BY <1>1, UpstreamSelf
<1>4. QED
  BY <1>1, <1>2, <1>3, UpstreamAntisymmetric

-----------------------------------------------------------------------------
(* Stacks.                                                                 *)

(* What a call stack is after a push, *)
LEMMA Pushed ==
  ASSUME NEW stk, IsStack(stk), NEW f, FrameFits(f)
  PROVE  /\ IsStack(Append(stk, f))
         /\ Len(stk) \in Nat /\ DOMAIN stk = 1 .. Len(stk)
         /\ Len(Append(stk, f)) = Len(stk) + 1
         /\ DOMAIN Append(stk, f) = 1 .. Len(stk) + 1
         /\ \A i \in 1 .. Len(stk) : Append(stk, f)[i] = stk[i]
         /\ Append(stk, f)[Len(stk) + 1] = f
<1>1. PICK S : stk \in Seq(S)
  BY DEF IsStack
<1>2. PICK T : T = S \cup {f}
  OBVIOUS
<1>3. stk \in Seq(T) /\ f \in T
  <2>1. S \subseteq T /\ f \in T
    BY <1>2
  <2>2. QED
    BY <1>1, <2>1, SeqMonotonic
<1>4. /\ Append(stk, f) \in Seq(T)
      /\ Len(stk) \in Nat /\ DOMAIN stk = 1 .. Len(stk)
      /\ Len(Append(stk, f)) = Len(stk) + 1
      /\ DOMAIN Append(stk, f) = 1 .. Len(stk) + 1
      /\ \A i \in 1 .. Len(stk) : Append(stk, f)[i] = stk[i]
      /\ Append(stk, f)[Len(stk) + 1] = f
  BY <1>3
<1>5. \A i \in DOMAIN Append(stk, f) : FrameFits(Append(stk, f)[i])
  <2>1. SUFFICES ASSUME NEW i \in 1 .. Len(stk) + 1 PROVE FrameFits(Append(stk, f)[i])
    BY <1>4
  <2>2. i \in 1 .. Len(stk) \/ i = Len(stk) + 1
    BY <1>4
  <2>3. QED
    BY <1>4, <2>2 DEF IsStack
<1>6. QED
  BY <1>4, <1>5 DEF IsStack

(* after a pop, *)
LEMMA Popped ==
  ASSUME NEW stk, IsStack(stk), stk # <<>>
  PROVE  /\ IsStack(Front(stk))
         /\ Len(stk) \in Nat \ {0} /\ DOMAIN stk = 1 .. Len(stk)
         /\ Len(Front(stk)) = Len(stk) - 1
         /\ DOMAIN Front(stk) = 1 .. Len(stk) - 1
         /\ \A i \in 1 .. Len(stk) - 1 : Front(stk)[i] = stk[i]
         /\ Last(stk) = stk[Len(stk)] /\ FrameFits(Last(stk))
<1>1. PICK S : stk \in Seq(S)
  BY DEF IsStack
<1>2. Len(stk) \in Nat \ {0} /\ DOMAIN stk = 1 .. Len(stk)
  BY <1>1, EmptySeq
<1>3. Len(stk) - 1 \in 0 .. Len(stk) /\ Len(stk) \in 1 .. Len(stk)
  BY <1>2
<1>4. /\ Front(stk) \in Seq(S) /\ Len(Front(stk)) = Len(stk) - 1
      /\ \A i \in 1 .. Len(stk) - 1 : Front(stk)[i] = stk[i]
  <2>1. ASSUME NEW n \in 0 .. Len(stk)
        PROVE  /\ SubSeq(stk, 1, n) \in Seq(S) /\ Len(SubSeq(stk, 1, n)) = n
               /\ \A i \in 1 .. n : SubSeq(stk, 1, n)[i] = stk[i]
    BY <1>1
  <2>2. QED
    BY <1>3, <2>1 DEF Front
<1>5. DOMAIN Front(stk) = 1 .. Len(stk) - 1
  BY <1>4, LenProperties
<1>6. Last(stk) = stk[Len(stk)] /\ FrameFits(Last(stk))
  BY <1>2, <1>3 DEF Last, IsStack
<1>7. \A i \in DOMAIN Front(stk) : FrameFits(Front(stk)[i])
  BY <1>2, <1>4, <1>5 DEF IsStack
<1>8. QED
  BY <1>2, <1>4, <1>5, <1>6, <1>7 DEF IsStack

(* and when the frame on top is replaced. *)
LEMMA Swapped ==
  ASSUME NEW stk, IsStack(stk), stk # <<>>, NEW f, FrameFits(f)
  PROVE  LET new == [stk EXCEPT ![Len(stk)] = f] IN
         /\ IsStack(new) /\ Len(new) = Len(stk) /\ DOMAIN new = DOMAIN stk
         /\ \A i \in 1 .. Len(stk) - 1 : new[i] = stk[i]
         /\ new[Len(stk)] = f
<1> DEFINE new == [stk EXCEPT ![Len(stk)] = f]
<1>1. PICK S : stk \in Seq(S)
  BY DEF IsStack
<1>2. PICK T : T = S \cup {f}
  OBVIOUS
<1>3. stk \in Seq(T) /\ f \in T
  <2>1. S \subseteq T /\ f \in T
    BY <1>2
  <2>2. QED
    BY <1>1, <2>1, SeqMonotonic
<1>4. Len(stk) \in Nat \ {0} /\ DOMAIN stk = 1 .. Len(stk) /\ Len(stk) \in 1 .. Len(stk)
  BY Popped
<1>5. /\ new \in Seq(T) /\ Len(new) = Len(stk)
      /\ \A i \in 1 .. Len(stk) : new[i] = IF i = Len(stk) THEN f ELSE stk[i]
  BY <1>3, <1>4, ExceptSeq
<1>6. DOMAIN new = DOMAIN stk
  BY <1>4, <1>5, LenProperties
<1> HIDE DEF new
<1>7. (\A i \in 1 .. Len(stk) - 1 : new[i] = stk[i]) /\ new[Len(stk)] = f
  <2>1. \A i \in 1 .. Len(stk) - 1 : i \in 1 .. Len(stk) /\ i # Len(stk)
    <3>1. PICK n \in Nat : n = Len(stk)
      BY <1>4
    <3>2. \A i \in 1 .. n - 1 : i \in 1 .. n /\ i # n
      OBVIOUS
    <3>3. QED
      BY <3>1, <3>2
  <2>2. QED
    BY <1>4, <1>5, <2>1
<1>8. \A i \in DOMAIN new : FrameFits(new[i])
  BY <1>4, <1>5, <1>6 DEF IsStack
<1>9. QED
  BY <1>5, <1>6, <1>7, <1>8 DEF IsStack, new

(* The frame on top. *)
LEMMA TopIs ==
  ASSUME IsStack(stack), ~Idle
  PROVE  /\ Len(stack) \in Nat \ {0} /\ Len(stack) \in DOMAIN stack /\ DOMAIN stack = 1 .. Len(stack)
         /\ Top = stack[Len(stack)] /\ FrameFits(Top)
BY Popped DEF Idle, Top

(* What may be pushed: user code runs in a frame of its own or in a memo's  *)
(* comparator, and a computation or a verification asks for its input; a    *)
(* node that computes is not refreshed.                                    *)
MayPush(stk, f) ==
  /\ FrameFits(f)
  /\ stk # <<>> =>
       LET g == stk[Len(stk)] IN
       \/ g.kind \in Plain
       \/ g.kind = "settle" /\ g.node \in Memos
       \/ f.kind \in Refreshes /\ g.kind \in {"compute", "verify"} /\ f.node = Input[g.node]
  /\ f.kind \in Refreshes =>
       \A i \in DOMAIN stk : stk[i].kind = "compute" => stk[i].node # f.node

LEMMA PushKeeps ==
  ASSUME NEW stk, StackInv(stk), NEW f, MayPush(stk, f)
  PROVE  StackInv(Append(stk, f))
<1> DEFINE n == Len(stk)
           new == Append(stk, f)
<1>1. /\ IsStack(new) /\ n \in Nat /\ DOMAIN stk = 1 .. n
      /\ Len(new) = n + 1 /\ DOMAIN new = 1 .. n + 1
      /\ \A i \in 1 .. n : new[i] = stk[i]
      /\ new[n + 1] = f
  BY Pushed DEF StackInv, MayPush
<1>2. \A i \in 1 .. n : FrameFits(stk[i])
  BY <1>1 DEF StackInv, IsStack
<1>3. ASSUME n # 0 PROVE n \in DOMAIN stk /\ stk # <<>>
  BY <1>1, <1>3
<1> HIDE DEF n, new
<1>4. MemosCompare(new)
  <2>1. SUFFICES ASSUME NEW i \in 1 .. n + 1, i < n + 1, new[i].kind = "settle"
                 PROVE  new[i].node \in Memos
    BY <1>1 DEF MemosCompare
  <2>2. i \in 1 .. n /\ new[i] = stk[i] /\ n # 0
    BY <1>1, <2>1
  <2>3. CASE i < n
    BY <1>1, <2>1, <2>2, <2>3 DEF StackInv, MemosCompare, n
  <2>4. CASE i = n
    BY <1>3, <2>1, <2>2, <2>4 DEF MayPush, n, Plain
  <2>5. QED
    BY <1>1, <2>2, <2>3, <2>4
<1>5. ComputesLast(new)
  <2>1. SUFFICES ASSUME NEW i \in 1 .. n + 1, NEW j \in 1 .. n + 1,
                        new[i].kind = "compute", new[j].kind \in Refreshes, new[j].node = new[i].node,
                        i < j
                 PROVE  FALSE
    BY <1>1 DEF ComputesLast
  <2>2. i \in 1 .. n /\ new[i] = stk[i]
    BY <1>1, <2>1
  <2>3. CASE j \in 1 .. n
    BY <1>1, <2>1, <2>2, <2>3 DEF StackInv, ComputesLast
  <2>4. CASE j = n + 1
    BY <1>1, <2>1, <2>2, <2>4 DEF MayPush
  <2>5. QED
    BY <1>1, <2>3, <2>4
<1>6. Chained(new)
  <2>1. SUFFICES ASSUME NEW i \in 1 .. n + 1, NEW j \in 1 .. n + 1, i < j, new[i].kind \in Refreshes
                 PROVE  \/ new[j].kind \in Refreshes /\ new[j].node \in Upstream[new[i].node]
                        \/ \E k \in 1 .. n + 1 : i <= k /\ k < j /\ new[k].kind = "settle"
                                                 /\ new[k].node \in Upstream[new[i].node]
    BY <1>1 DEF Chained
  <2>2. i \in 1 .. n /\ new[i] = stk[i] /\ n # 0
    BY <1>1, <2>1
  <2>3. stk[i].node \in Computed /\ stk[i].node \in Nodes
    BY <1>2, <2>1, <2>2 DEF FrameFits, Nodes
  <2>4. ASSUME NEW k \in 1 .. n, i <= k, k < j, stk[k].kind = "settle",
               stk[k].node \in Upstream[stk[i].node]
        PROVE  \E l \in 1 .. n + 1 : i <= l /\ l < j /\ new[l].kind = "settle"
                                     /\ new[l].node \in Upstream[new[i].node]
    BY <1>1, <2>2, <2>4
  <2>5. CASE j \in 1 .. n
    <3>1. \/ stk[j].kind \in Refreshes /\ stk[j].node \in Upstream[stk[i].node]
          \/ \E k \in 1 .. n : i <= k /\ k < j /\ stk[k].kind = "settle"
                               /\ stk[k].node \in Upstream[stk[i].node]
      BY <1>1, <2>1, <2>2, <2>5 DEF StackInv, Chained
    <3>2. QED
      BY <1>1, <2>2, <2>4, <2>5, <3>1
  <2>6. CASE j = n + 1
    <3>1. PICK g : g = stk[n]
      OBVIOUS
    <3>2. \/ g.kind \in Refreshes /\ g.node \in Upstream[stk[i].node]
          \/ \E k \in 1 .. n : i <= k /\ k < n /\ stk[k].kind = "settle"
                               /\ stk[k].node \in Upstream[stk[i].node]
      <4>1. CASE i = n
        BY <2>1, <2>2, <2>3, <3>1, <4>1, UpstreamSelf
      <4>2. CASE i < n
        BY <1>1, <1>3, <2>1, <2>2, <3>1, <4>2 DEF StackInv, Chained
      <4>3. QED
        BY <1>1, <2>2, <4>1, <4>2
    <3>3. CASE \E k \in 1 .. n : i <= k /\ k < n /\ stk[k].kind = "settle"
                                 /\ stk[k].node \in Upstream[stk[i].node]
      <4>1. PICK k \in 1 .. n : i <= k /\ k < n /\ stk[k].kind = "settle"
                                /\ stk[k].node \in Upstream[stk[i].node]
        BY <3>3
      <4>2. k < j
        BY <1>1, <2>6, <4>1
      <4>3. QED
        BY <2>4, <4>1, <4>2
    <3>4. CASE g.kind \in Refreshes /\ g.node \in Upstream[stk[i].node]
      <4>1. \/ g.kind = "settle"
            \/ f.kind \in Refreshes /\ g.kind \in {"compute", "verify"} /\ f.node = Input[g.node]
        BY <1>3, <2>2, <3>1, <3>4 DEF MayPush, n, Plain, Refreshes
      <4>2. CASE g.kind = "settle"
        <5>1. n \in 1 .. n /\ i <= n /\ n < j
          BY <1>1, <2>2, <2>6
        <5>2. QED
          BY <2>4, <3>1, <3>4, <4>2, <5>1
      <4>3. CASE f.kind \in Refreshes /\ f.node = Input[g.node]
        <5>1. g.node \in Computed
          BY <1>1, <1>2, <2>2, <3>1, <3>4 DEF FrameFits
        <5>2. f.node \in Upstream[stk[i].node]
          BY <2>3, <3>4, <4>3, <5>1, UpstreamClosed
        <5>3. QED
          BY <1>1, <2>2, <2>6, <4>3, <5>2
      <4>4. QED
        BY <4>1, <4>2, <4>3
    <3>5. QED
      BY <3>2, <3>3, <3>4
  <2>7. QED
    BY <1>1, <2>5, <2>6
<1>7. QED
  BY <1>1, <1>4, <1>5, <1>6 DEF StackInv, new

LEMMA PopKeeps ==
  ASSUME NEW stk, StackInv(stk), stk # <<>>
  PROVE  StackInv(Front(stk))
<1> DEFINE n == Len(stk)
           new == Front(stk)
<1>1. /\ IsStack(new) /\ n \in Nat \ {0} /\ DOMAIN stk = 1 .. n
      /\ Len(new) = n - 1 /\ DOMAIN new = 1 .. n - 1
      /\ \A i \in 1 .. n - 1 : new[i] = stk[i]
  BY Popped DEF StackInv
<1> HIDE DEF n, new
<1>2. \A i \in 1 .. n - 1 : i \in 1 .. n /\ i < n
  BY <1>1
<1>3. MemosCompare(new)
  BY <1>1, <1>2 DEF StackInv, MemosCompare, n
<1>4. ComputesLast(new)
  BY <1>1, <1>2 DEF StackInv, ComputesLast
<1>5. Chained(new)
  <2>1. SUFFICES ASSUME NEW i \in 1 .. n - 1, NEW j \in 1 .. n - 1, i < j, new[i].kind \in Refreshes
                 PROVE  \/ new[j].kind \in Refreshes /\ new[j].node \in Upstream[new[i].node]
                        \/ \E k \in 1 .. n - 1 : i <= k /\ k < j /\ new[k].kind = "settle"
                                                 /\ new[k].node \in Upstream[new[i].node]
    BY <1>1 DEF Chained
  <2>2. \/ stk[j].kind \in Refreshes /\ stk[j].node \in Upstream[stk[i].node]
        \/ \E k \in 1 .. n : i <= k /\ k < j /\ stk[k].kind = "settle"
                             /\ stk[k].node \in Upstream[stk[i].node]
    BY <1>1, <1>2, <2>1 DEF StackInv, Chained
  <2>3. ASSUME NEW k \in 1 .. n, k < j PROVE k \in 1 .. n - 1
    BY <1>1, <2>1, <2>3
  <2>4. QED
    BY <1>1, <2>1, <2>2, <2>3
<1>6. QED
  BY <1>1, <1>3, <1>4, <1>5 DEF StackInv, new

(* A refresh on top goes on as another of the same node, or what is not one *)
(* as what is not one.                                                     *)
LEMMA SwapKeeps ==
  ASSUME NEW stk, StackInv(stk), stk # <<>>, NEW f, FrameFits(f),
         f.kind \in Refreshes <=> stk[Len(stk)].kind \in Refreshes,
         f.kind \in Refreshes => f.node = stk[Len(stk)].node
  PROVE  StackInv([stk EXCEPT ![Len(stk)] = f])
<1> DEFINE n == Len(stk)
           new == [stk EXCEPT ![Len(stk)] = f]
<1>1. /\ IsStack(new) /\ n \in Nat \ {0} /\ DOMAIN stk = 1 .. n
      /\ Len(new) = n /\ DOMAIN new = 1 .. n
      /\ \A i \in 1 .. n - 1 : new[i] = stk[i]
      /\ new[n] = f
  BY Popped, Swapped DEF StackInv
<1> HIDE DEF n, new
<1>2. \A i \in 1 .. n : i < n => i \in 1 .. n - 1 /\ new[i] = stk[i]
  BY <1>1
<1>3. \A i \in 1 .. n : i < n \/ i = n
  BY <1>1
<1>4. MemosCompare(new)
  BY <1>1, <1>2 DEF StackInv, MemosCompare, n
<1>5. ComputesLast(new)
  <2>1. SUFFICES ASSUME NEW i \in 1 .. n, NEW j \in 1 .. n,
                        new[i].kind = "compute", new[j].kind \in Refreshes, new[j].node = new[i].node,
                        i < j
                 PROVE  FALSE
    BY <1>1 DEF ComputesLast
  <2>2. i < n /\ new[i] = stk[i]
    BY <1>1, <1>2, <2>1
  <2>3. stk[j].kind \in Refreshes /\ stk[j].node = new[j].node
    BY <1>1, <1>2, <1>3, <2>1 DEF n
  <2>4. QED
    BY <1>1, <2>1, <2>2, <2>3 DEF StackInv, ComputesLast
<1>6. Chained(new)
  <2>1. SUFFICES ASSUME NEW i \in 1 .. n, NEW j \in 1 .. n, i < j, new[i].kind \in Refreshes
                 PROVE  \/ new[j].kind \in Refreshes /\ new[j].node \in Upstream[new[i].node]
                        \/ \E k \in 1 .. n : i <= k /\ k < j /\ new[k].kind = "settle"
                                             /\ new[k].node \in Upstream[new[i].node]
    BY <1>1 DEF Chained
  <2>2. i < n /\ new[i] = stk[i]
    BY <1>1, <1>2, <2>1
  <2>3. \/ stk[j].kind \in Refreshes /\ stk[j].node \in Upstream[stk[i].node]
        \/ \E k \in 1 .. n : i <= k /\ k < j /\ stk[k].kind = "settle"
                             /\ stk[k].node \in Upstream[stk[i].node]
    BY <1>1, <2>1, <2>2 DEF StackInv, Chained
  <2>4. ASSUME NEW k \in 1 .. n, k < j PROVE new[k] = stk[k]
    BY <1>1, <1>2, <2>1, <2>4
  <2>5. CASE stk[j].kind \in Refreshes /\ stk[j].node \in Upstream[stk[i].node]
    <3>1. new[j].kind \in Refreshes /\ new[j].node = stk[j].node
      BY <1>1, <1>2, <1>3, <2>5 DEF n
    <3>2. QED
      BY <2>2, <2>5, <3>1
  <2>6. QED
    BY <2>2, <2>3, <2>4, <2>5
<1>7. QED
  BY <1>1, <1>4, <1>5, <1>6 DEF StackInv, new, n

-----------------------------------------------------------------------------
(* Types and the shape of the stack are kept by every step.                *)

LEMMA UserMayPush ==
  ASSUME StackInv(stack), UserCode, NEW f, FrameFits(f),
         f.kind \in Refreshes => ~Active(f.node)
  PROVE  MayPush(stack, f)
<1>1. f.kind \in Refreshes =>
        \A i \in DOMAIN stack : stack[i].kind = "compute" => stack[i].node # f.node
  BY DEF Active
<1>2. ASSUME stack # <<>>
      PROVE  \/ stack[Len(stack)].kind \in Plain
             \/ stack[Len(stack)].kind = "settle" /\ stack[Len(stack)].node \in Memos
  <2>1. Top = stack[Len(stack)] /\ ~Idle
    BY <1>2, TopIs DEF StackInv, Idle
  <2>2. QED
    BY <2>1 DEF UserCode, OnTop, Plain
<1>3. QED
  BY <1>1, <1>2 DEF MayPush

(* The frame that asks for a refresh takes a note of that. *)
SameFrame(f, g) == f.kind = g.kind /\ f.node = g.node /\ f.val = g.val

LEMMA Asking ==
  ASSUME NEW stk, StackInv(stk), stk # <<>>
  PROVE  LET new == [stk EXCEPT ![Len(stk)].asked = TRUE] IN
         /\ StackInv(new) /\ Len(new) = Len(stk) /\ DOMAIN new = DOMAIN stk
         /\ \A i \in DOMAIN stk : SameFrame(new[i], stk[i])
<1>1. Len(stk) \in Nat \ {0} /\ DOMAIN stk = 1 .. Len(stk) /\ Len(stk) \in DOMAIN stk
  BY Popped DEF StackInv
<1>2. PICK g : g = stk[Len(stk)]
  OBVIOUS
<1>3. FrameFits(g)
  BY <1>1, <1>2 DEF StackInv, IsStack
<1>4. PICK f : f = [g EXCEPT !.asked = TRUE]
  OBVIOUS
<1>5. /\ f = [kind |-> g.kind, node |-> g.node, val |-> g.val, asked |-> TRUE]
      /\ SameFrame(f, g)
  BY <1>3, <1>4 DEF FrameFits, SameFrame
<1>6. FrameFits(f)
  BY <1>3, <1>5 DEF FrameFits, SameFrame
<1>7. PICK new : new = [stk EXCEPT ![Len(stk)] = f]
  OBVIOUS
<1>8. new = [stk EXCEPT ![Len(stk)].asked = TRUE]
  BY <1>2, <1>4, <1>7
<1>9. StackInv(new)
  BY <1>2, <1>5, <1>6, <1>7, SwapKeeps DEF SameFrame
<1>10. /\ Len(new) = Len(stk) /\ DOMAIN new = DOMAIN stk
       /\ \A i \in 1 .. Len(stk) - 1 : new[i] = stk[i]
       /\ new[Len(stk)] = f
  BY <1>6, <1>7, Swapped DEF StackInv
<1>11. \A i \in DOMAIN stk : SameFrame(new[i], stk[i])
  <2>1. PICK n \in Nat : n = Len(stk)
    BY <1>1
  <2>2. \A i \in 1 .. n : i = n \/ i \in 1 .. n - 1
    OBVIOUS
  <2>3. QED
    BY <1>1, <1>2, <1>5, <1>10, <2>1, <2>2 DEF SameFrame
<1>12. QED
  BY <1>8, <1>9, <1>10, <1>11

LEMMA AskKeeps ==
  ASSUME StackInv(stack), Asks, NEW f, FrameFits(f), f.node = Wanted,
         f.kind \in Refreshes, ~Active(f.node), Enter(f)
  PROVE  StackInv(stack')
<1>1. /\ Top = stack[Len(stack)] /\ stack # <<>> /\ Len(stack) \in DOMAIN stack
      /\ Top.kind \in {"read", "compute", "verify"}
      /\ Top.kind # "read" => f.node = Input[Top.node]
  BY TopIs DEF StackInv, Asks, OnTop, Wanted, Idle
<1>2. PICK mid : mid = [stack EXCEPT ![Len(stack)].asked = TRUE]
  OBVIOUS
<1>3. /\ StackInv(mid) /\ Len(mid) = Len(stack) /\ DOMAIN mid = DOMAIN stack
      /\ \A i \in DOMAIN stack : SameFrame(mid[i], stack[i])
  BY <1>1, <1>2, Asking
<1>4. MayPush(mid, f)
  <2>1. PICK g : g = mid[Len(mid)]
    OBVIOUS
  <2>2. g.kind = Top.kind /\ g.node = Top.node
    BY <1>1, <1>3, <2>1 DEF SameFrame
  <2>3. \/ g.kind \in Plain
        \/ f.kind \in Refreshes /\ g.kind \in {"compute", "verify"} /\ f.node = Input[g.node]
    BY <1>1, <2>2 DEF Plain
  <2>4. \A i \in DOMAIN mid : mid[i].kind = "compute" => mid[i].node # f.node
    BY <1>3 DEF Active, SameFrame
  <2>5. QED
    BY <2>1, <2>3, <2>4 DEF MayPush
<1>5. stack' = Append(mid, f)
  BY <1>2 DEF Enter
<1>6. QED
  BY <1>3, <1>4, <1>5, PushKeeps

(* A mark leaves a state a state. *)
LEMMA TriggerTypes ==
  ASSUME CellTypes, NEW s \in Signals, Trigger(s)
  PROVE  /\ version' \in [Nodes -> Nat]
         /\ state' \in [Computed -> {"Clean", "Check", "Dirty"}]
         /\ seen' \in [Computed -> Nat \cup {None}]
         /\ version'[s] = version[s] + 1 /\ version[s] \in Nat
         /\ \A n \in Nodes : n # s => version'[n] = version[n]
         /\ seen' = seen /\ lost' = lost /\ behind' = behind /\ torn' = torn \ {s}
<1>1. s \in Nodes
  BY DEF Nodes
<1>2. version' = [version EXCEPT ![s] = version[s] + 1] /\ version \in [Nodes -> Nat]
  BY DEF Trigger, CellTypes
<1>3. state' \in [Computed -> {"Clean", "Check", "Dirty"}]
  BY DEF Trigger, Mark, CellTypes
<1>4. QED
  BY <1>1, <1>2, <1>3 DEF Trigger, CellTypes

(* A refresh enters a frame of its node. *)
LEMMA RefreshEnters ==
  ASSUME CellTypes, EdgeInv, NEW c \in Computed, ~Active(c), state[c] # "Clean", Refresh(c)
  PROVE  \E f : /\ FrameFits(f) /\ f.node = c /\ Enter(f)
                /\ f.kind = IF state[c] = "Dirty" THEN "compute" ELSE "verify"
                /\ f.kind = "verify" => f.val = seen[c] /\ seen[c] # None
<1>1. CASE state[c] = "Dirty"
  <2>1. PICK f : f = Frame("compute", c, None)
    OBVIOUS
  <2>2. f.kind = "compute" /\ f.node = c /\ Enter(f)
    BY <1>1, <2>1 DEF Refresh, Frame
  <2>3. FrameFits(f)
    BY <2>1 DEF FrameFits, Refreshes, Plain, Frame
  <2>4. QED
    BY <1>1, <2>2, <2>3
<1>2. CASE state[c] # "Dirty"
  <2>1. PICK f : f = Frame("verify", c, seen[c])
    OBVIOUS
  <2>2. f.kind = "verify" /\ f.node = c /\ f.val = seen[c] /\ Enter(f)
    BY <1>2, <2>1 DEF Refresh, Frame
  <2>3. seen[c] # None /\ seen[c] \in Nat
    BY <1>2 DEF EdgeInv, CellTypes
  <2>4. FrameFits(f)
    BY <2>1, <2>3 DEF FrameFits, Refreshes, Plain, Frame
  <2>5. QED
    BY <1>2, <2>2, <2>3, <2>4
<1>3. QED
  BY <1>1, <1>2

LEMMA StartComputeTypes ==
  ASSUME CellTypes, NEW c \in Computed, StartCompute(c)
  PROVE  /\ state' \in [Computed -> {"Clean", "Check", "Dirty"}]
         /\ seen' \in [Computed -> Nat \cup {None}]
         /\ state'[c] = "Clean" /\ seen'[c] = None
         /\ \A d \in Computed : d # c => state'[d] = state[d] /\ seen'[d] = seen[d]
BY DEF CellTypes, StartCompute

LEMMA RefreshTypes ==
  ASSUME CellTypes, NEW c \in Computed, Refresh(c)
  PROVE  /\ state' \in [Computed -> {"Clean", "Check", "Dirty"}]
         /\ seen' \in [Computed -> Nat \cup {None}]
<1>1. CASE state[c] = "Dirty"
  BY <1>1, StartComputeTypes DEF Refresh
<1>2. CASE state[c] # "Dirty"
  BY <1>2 DEF Refresh, CellTypes
<1>3. QED
  BY <1>1, <1>2

(* A user's frame is plain. *)
LEMMA PlainFits ==
  ASSUME NEW k \in Plain, NEW n \in Nodes, NEW v, k \in {"equal", "update"} => n \in Signals, k = "equal" => v \in Values
  PROVE  /\ FrameFits(Frame(k, n, v))
         /\ Frame(k, n, v).kind = k /\ Frame(k, n, v).node = n /\ Frame(k, n, v).val = v
BY DEF Frame, FrameFits, Plain, Refreshes

Shape == CellTypes /\ StackInv(stack)

LEMMA WriteShape ==
  ASSUME Shape, NEW s \in Signals, NEW v \in Values, Replace(s, v) \/ Set(s, v)
  PROVE  Shape'
<1>1. s \in Nodes
  BY DEF Nodes
<1>2. CASE Panics
  BY <1>2 DEF Panics, Shape, CellTypes
<1>3. CASE Replace(s, v) /\ ~Panics
  <2>1. Trigger(s) /\ value' = [value EXCEPT ![s] = v] /\ UNCHANGED <<stack, panicking>>
    BY <1>3 DEF Replace
  <2>2. DOMAIN value' = Nodes /\ \A t \in Signals : value'[t] \in Values
    BY <1>1, <2>1 DEF Shape, CellTypes
  <2>3. QED
    BY <2>1, <2>2, TriggerTypes DEF Shape, CellTypes
<1>4. CASE Set(s, v) /\ ~Panics
  <2>1. PICK f : f = Frame("equal", s, v)
    OBVIOUS
  <2>2. UserCode /\ Push(f) /\ UNCHANGED <<value, version, state, seen, panicking>>
    BY <1>4, <2>1 DEF Set, Writable
  <2>3. FrameFits(f) /\ f.kind = "equal"
    BY <1>1, <2>1, PlainFits DEF Plain
  <2>4. StackInv(stack')
    BY <2>2, <2>3, UserMayPush, PushKeeps DEF Shape, Push, Refreshes
  <2>5. QED
    BY <2>2, <2>4 DEF Shape, CellTypes
<1>5. QED
  BY <1>2, <1>3, <1>4

LEMMA UpdateShape ==
  ASSUME Shape, NEW s \in Signals, Update(s)
  PROVE  Shape'
<1>1. s \in Nodes
  BY DEF Nodes
<1>2. CASE Panics
  BY <1>2 DEF Panics, Shape, CellTypes
<1>3. CASE ~Panics
  <2>1. PICK f : f = Frame("update", s, None)
    OBVIOUS
  <2>2. UserCode /\ Push(f) /\ UNCHANGED <<value, version, state, seen, panicking>>
    BY <1>3, <2>1 DEF Update, Writable
  <2>3. FrameFits(f) /\ f.kind = "update"
    BY <1>1, <2>1, PlainFits DEF Plain
  <2>4. StackInv(stack')
    BY <2>2, <2>3, UserMayPush, PushKeeps DEF Shape, Push, Refreshes
  <2>5. QED
    BY <2>2, <2>4 DEF Shape, CellTypes
<1>4. QED
  BY <1>2, <1>3

LEMMA MutateShape ==
  ASSUME Shape, NEW v \in Values, Mutate(v)
  PROVE  Shape'
<1>1. Top.node \in Signals
  BY TopIs DEF Mutate, OnTop, Shape, StackInv, FrameFits
<1>2. value' = [value EXCEPT ![Top.node] = v] /\ UNCHANGED <<version, state, seen, stack, panicking>>
  BY DEF Mutate
<1>3. DOMAIN value' = Nodes /\ \A t \in Signals : value'[t] \in Values
  BY <1>1, <1>2 DEF Shape, CellTypes
<1>4. QED
  BY <1>2, <1>3 DEF Shape, CellTypes

LEMMA ReturnShape ==
  ASSUME Shape, SetReturn \/ UpdateReturn \/ WithReturn
  PROVE  Shape'
<1>1. ~Idle /\ Pop
  BY DEF SetReturn, UpdateReturn, WithReturn, OnTop
<1>2. StackInv(stack')
  BY <1>1, PopKeeps DEF Shape, Idle, Pop
<1>3. CASE WithReturn
  BY <1>2, <1>3 DEF WithReturn, Shape, CellTypes
<1>4. CASE UpdateReturn
  <2>1. Top.node \in Signals /\ Trigger(Top.node) /\ UNCHANGED <<value, panicking>>
    BY <1>4, TopIs DEF UpdateReturn, OnTop, Shape, StackInv, FrameFits
  <2>2. QED
    BY <1>2, <2>1, TriggerTypes DEF Shape, CellTypes
<1>5. CASE SetReturn
  <2>1. Top.node \in Signals /\ Top.val \in Values
    BY <1>5, TopIs DEF SetReturn, OnTop, Shape, StackInv, FrameFits
  <2>2. CASE UNCHANGED <<value, version, state, seen>> /\ panicking' \in BOOLEAN
    BY <1>2, <2>2 DEF Shape, CellTypes
  <2>3. CASE value' = [value EXCEPT ![Top.node] = Top.val] /\ Trigger(Top.node) /\ UNCHANGED panicking
    <3>1. DOMAIN value' = Nodes /\ \A t \in Signals : value'[t] \in Values
      BY <2>1, <2>3 DEF Shape, CellTypes
    <3>2. QED
      BY <1>2, <2>1, <2>3, <3>1, TriggerTypes DEF Shape, CellTypes
  <2>4. QED
    BY <1>5, <2>2, <2>3 DEF SetReturn, Shape, CellTypes
<1>6. QED
  BY <1>3, <1>4, <1>5

LEMMA WithShape ==
  ASSUME Shape, NEW n \in Nodes, With(n)
  PROVE  Shape'
<1>1. CASE Panics
  BY <1>1 DEF Panics, Shape, CellTypes
<1>2. CASE With(n) /\ ~Panics
  <2>1. PICK k : k = IF n \in Signals THEN "with" ELSE "read"
    OBVIOUS
  <2>2. PICK f : f = Frame(k, n, None)
    OBVIOUS
  <2>3. UserCode /\ Push(f) /\ UNCHANGED <<value, version, state, seen, panicking>>
    BY <1>2, <2>1, <2>2 DEF With
  <2>4. k \in Plain /\ k \notin {"equal", "update"}
    BY <2>1 DEF Plain
  <2>5. FrameFits(f) /\ f.kind = k
    BY <2>2, <2>4, PlainFits
  <2>6. f.kind \notin Refreshes
    BY <2>4, <2>5 DEF Plain, Refreshes
  <2>7. StackInv(stack')
    BY <2>3, <2>5, <2>6, UserMayPush, PushKeeps DEF Shape, Push
  <2>8. QED
    BY <2>3, <2>7 DEF Shape, CellTypes
<1>3. QED
  BY <1>1, <1>2

LEMMA LendShape ==
  ASSUME Shape, Lend
  PROVE  Shape'
<1>1. /\ ~Idle /\ stack # <<>> /\ Top.kind = "read" /\ Top = stack[Len(stack)]
      /\ UNCHANGED <<value, version, state, seen, panicking>>
  BY TopIs DEF Lend, Ready, OnTop, Idle, Shape, StackInv
<1>2. PICK f : f = Frame("with", Top.node, None)
  OBVIOUS
<1>3. FrameFits(f) /\ f.kind = "with" /\ Retop(f)
  BY <1>2 DEF Lend, Frame, FrameFits, Refreshes, Plain
<1>4. StackInv(stack')
  BY <1>1, <1>3, SwapKeeps DEF Shape, Retop, Refreshes
<1>5. QED
  BY <1>1, <1>4 DEF Shape, CellTypes

(* A computed node is on top in a refresh. *)
LEMMA TopComputed ==
  ASSUME StackInv(stack), ~Idle, Top.kind \in Refreshes
  PROVE  Top.node \in Computed /\ Top.node \in Nodes
BY TopIs DEF StackInv, FrameFits, Nodes

LEMMA AskShape ==
  ASSUME Shape, EdgeInv, RefreshWanted
  PROVE  Shape'
<1>1. CASE Panics
  BY <1>1 DEF Panics, Shape, CellTypes
<1>2. CASE ~Panics
  <2>1. PICK d : d = Wanted
    OBVIOUS
  <2>2. Asks /\ ~Current(d) /\ ~Active(d) /\ Refresh(d) /\ UNCHANGED <<value, version, panicking>>
    BY <1>2, <2>1 DEF RefreshWanted
  <2>3. d \in Computed /\ state[d] # "Clean"
    BY <2>2 DEF Current
  <2>4. PICK f : FrameFits(f) /\ f.node = d /\ Enter(f)
                 /\ f.kind = IF state[d] = "Dirty" THEN "compute" ELSE "verify"
    BY <2>2, <2>3, RefreshEnters DEF Shape
  <2>5. f.kind \in Refreshes
    BY <2>4 DEF Refreshes
  <2>6. StackInv(stack')
    BY <2>1, <2>2, <2>4, <2>5, AskKeeps DEF Shape
  <2>7. QED
    BY <2>2, <2>3, <2>6, RefreshTypes DEF Shape, CellTypes
<1>3. QED
  BY <1>1, <1>2

LEMMA RefreshShape ==
  ASSUME Shape, EdgeInv, Compute \/ Verified
  PROVE  Shape'
<1>1. /\ ~Idle /\ stack # <<>> /\ Top.kind \in {"compute", "verify"}
      /\ Top.node \in Computed /\ Top.node \in Nodes /\ Input[Top.node] \in Nodes
      /\ Top = stack[Len(stack)]
  BY TopComputed, TopIs, Kinds
     DEF Compute, Verified, Ready, OnTop, Idle, Refreshes, Shape, StackInv
<1>2. CASE Panics
  BY <1>2 DEF Panics, Shape, CellTypes
<1>3. CASE Compute /\ ~Panics
  <2>1. PICK c \in Computed : c = Top.node
    BY <1>1
  <2>2. PICK f : f = Frame("settle", c, Fun[c][value[Input[c]]])
    OBVIOUS
  <2>3. seen' = [seen EXCEPT ![c] = version[Input[c]]] /\ Retop(f)
        /\ UNCHANGED <<value, version, state, panicking>>
    BY <1>3, <2>1, <2>2 DEF Compute
  <2>4. FrameFits(f) /\ f.kind = "settle" /\ f.node = c
    BY <2>2 DEF Frame, FrameFits, Refreshes, Plain
  <2>5. StackInv(stack')
    BY <1>1, <2>1, <2>3, <2>4, SwapKeeps DEF Shape, Retop, Refreshes
  <2>6. version[Input[c]] \in Nat
    BY <1>1, <2>1 DEF Shape, CellTypes
  <2>7. QED
    BY <2>3, <2>5, <2>6 DEF Shape, CellTypes
<1>4. CASE Verified /\ ~Panics
  <2>1. PICK c \in Computed : c = Top.node
    BY <1>1
  <2>2. CASE version[Input[c]] # Top.val
    <3>1. PICK f : f = Frame("compute", c, None)
      OBVIOUS
    <3>2. StartCompute(c) /\ Retop(f) /\ UNCHANGED <<value, version, panicking>>
      BY <1>4, <2>1, <2>2, <3>1 DEF Verified
    <3>3. FrameFits(f) /\ f.kind = "compute" /\ f.node = c
      BY <3>1 DEF Frame, FrameFits, Refreshes, Plain
    <3>4. StackInv(stack')
      BY <1>1, <2>1, <3>2, <3>3, SwapKeeps DEF Shape, Retop, Refreshes
    <3>5. QED
      BY <3>2, <3>4, StartComputeTypes DEF Shape, CellTypes
  <2>3. CASE version[Input[c]] = Top.val
    <3>1. state' = [state EXCEPT ![c] = "Clean"] /\ Pop /\ UNCHANGED <<value, version, seen, panicking>>
      BY <1>4, <2>1, <2>3 DEF Verified
    <3>2. StackInv(stack')
      BY <1>1, <3>1, PopKeeps DEF Shape, Pop
    <3>3. QED
      BY <3>1, <3>2 DEF Shape, CellTypes
  <2>4. QED
    BY <2>2, <2>3
<1>5. QED
  BY <1>2, <1>3, <1>4

LEMMA EndShape ==
  ASSUME Shape, EdgeInv, Settle \/ Unwind \/ Panic, panicking => ~Idle
  PROVE  Shape'
<1>1. CASE Panics
  BY <1>1 DEF Panics, Shape, CellTypes
<1>2. ASSUME ~Idle, Pop PROVE StackInv(stack')
  BY <1>2, PopKeeps DEF Shape, Idle, Pop
<1>3. CASE Settle /\ ~Panics
  <2>1. /\ ~Idle /\ Pop
        /\ Top.node \in Computed /\ Top.node \in Nodes
        /\ value' = [value EXCEPT ![Top.node] = Top.val]
        /\ \/ version' = [version EXCEPT ![Top.node] = @ + 1]
           \/ version' = [version EXCEPT ![Top.node] = @]
        /\ UNCHANGED <<state, seen, panicking>>
    BY <1>3, TopComputed DEF Settle, Store, OnTop, Shape, Refreshes
  <2>2. version' \in [Nodes -> Nat]
    BY <2>1 DEF Shape, CellTypes
  <2>3. DOMAIN value' = Nodes /\ \A t \in Signals : value'[t] \in Values
    BY <2>1, Kinds DEF Shape, CellTypes
  <2>4. QED
    BY <1>2, <2>1, <2>2, <2>3 DEF Shape, CellTypes
<1>4. CASE Unwind
  <2>1. /\ ~Idle /\ Pop /\ UNCHANGED <<value, version, seen>> /\ panicking' \in BOOLEAN
        /\ \/ state' = [state EXCEPT ![Top.node] = "Dirty"]
           \/ state' = state
    BY <1>4 DEF Unwind
  <2>2. state' \in [Computed -> {"Clean", "Check", "Dirty"}]
    BY <2>1 DEF Shape, CellTypes
  <2>3. QED
    BY <1>2, <2>1, <2>2 DEF Shape, CellTypes
<1>5. QED
  BY <1>1, <1>3, <1>4 DEF Panic

(* A panic is in flight only while there is a frame to unwind. *)
PanicHasFrame == panicking => ~Idle

LEMMA PanicHasFrameStep ==
  ASSUME Shape, PanicHasFrame, [Next]_vars
  PROVE  PanicHasFrame'
<1> SUFFICES ASSUME panicking' PROVE stack' # <<>>
  BY DEF PanicHasFrame, Idle
<1>1. ASSUME stack = <<>>
      PROVE  \A n : ~Held(n) /\ ~Mutated(n) /\ ~Active(n) /\ ~HeldBelow(n)
  BY <1>1 DEF Held, Mutated, Active, HeldBelow, Below
<1>2. CASE UNCHANGED vars
  BY <1>2 DEF vars, PanicHasFrame, Idle
<1>3. CASE stack' = stack /\ stack # <<>>
  BY <1>3
<1>4. ASSUME NEW s \in Signals, NEW v \in Values, Replace(s, v) PROVE stack' # <<>>
  BY <1>1, <1>3, <1>4 DEF Replace, Panics, Writable, UserCode
<1>5. ASSUME NEW s \in Signals, NEW v \in Values, Set(s, v) PROVE stack' # <<>>
  BY <1>1, <1>3, <1>5 DEF Set, Panics, Writable, UserCode, Push
<1>6. ASSUME NEW s \in Signals, Update(s) PROVE stack' # <<>>
  BY <1>1, <1>3, <1>6 DEF Update, Panics, Writable, UserCode, Push
<1>7. ASSUME NEW v \in Values, Mutate(v) PROVE stack' # <<>>
  BY <1>3, <1>7 DEF Mutate, OnTop, Idle
<1>8. CASE SetReturn
  <2>1. /\ stack # <<>> /\ stack' = Front(stack) /\ ~panicking
        /\ panicking' # panicking => HeldBelow(Top.node)
    BY <1>8 DEF SetReturn, OnTop, Idle, Pop
  <2>2. PICK i \in 1 .. Len(stack) - 1 : TRUE
    BY <2>1 DEF HeldBelow, Below
  <2>3. DOMAIN Front(stack) = 1 .. Len(stack) - 1
    BY <2>1, Popped DEF Shape, StackInv
  <2>4. QED
    BY <2>1, <2>2, <2>3
<1>9. CASE UpdateReturn \/ WithReturn
  BY <1>9 DEF UpdateReturn, WithReturn
<1>10. CASE Lend
  <2>1. stack # <<>> /\ stack' = [stack EXCEPT ![Len(stack)] = Frame("with", Top.node, None)]
        /\ panicking' = panicking /\ ~panicking
    BY <1>10 DEF Lend, Ready, OnTop, Idle, Retop
  <2>2. QED
    BY <2>1
<1>11. ASSUME NEW n \in Nodes, With(n) PROVE stack' # <<>>
  BY <1>1, <1>3, <1>11 DEF With, Panics, UserCode, Push
<1>12. CASE RefreshWanted
  BY <1>3, <1>12 DEF RefreshWanted, Panics, Asks, OnTop, Idle
<1>13. CASE Compute
  BY <1>3, <1>13 DEF Compute, Ready, Panics, OnTop, Idle
<1>14. CASE Verified
  BY <1>3, <1>14 DEF Verified, Ready, Panics, OnTop, Idle
<1>15. CASE Settle
  BY <1>3, <1>15 DEF Settle, Store, Panics, OnTop, Idle
<1>16. CASE Panic
  BY <1>3, <1>16 DEF Panic, Panics, Idle
<1>17. CASE Unwind
  <2>1. stack # <<>> /\ stack' = Front(stack) /\ Len(stack) > 1
    BY <1>17 DEF Unwind, PanicHasFrame, Idle, Pop
  <2>2. Len(Front(stack)) = Len(stack) - 1 /\ Len(stack) \in Nat
    BY <2>1, Popped DEF Shape, StackInv
  <2>3. QED
    BY <2>1, <2>2
<1>18. QED
  BY <1>2, <1>4, <1>5, <1>6, <1>7, <1>8, <1>9, <1>10, <1>11, <1>12, <1>13, <1>14, <1>15, <1>16, <1>17
     DEF Next

LEMMA ShapeStep ==
  ASSUME Shape, EdgeInv, PanicHasFrame, [Next]_vars
  PROVE  Shape'
<1>1. CASE UNCHANGED vars
  BY <1>1 DEF vars, Shape, CellTypes
<1>2. ASSUME NEW s \in Signals, NEW v \in Values, Replace(s, v) \/ Set(s, v) PROVE Shape'
  BY <1>2, WriteShape
<1>3. ASSUME NEW s \in Signals, Update(s) PROVE Shape'
  BY <1>3, UpdateShape
<1>4. ASSUME NEW v \in Values, Mutate(v) PROVE Shape'
  BY <1>4, MutateShape
<1>5. CASE RefreshWanted \/ Lend
  BY <1>5, AskShape, LendShape
<1>6. ASSUME NEW n \in Nodes, With(n) PROVE Shape'
  BY <1>6, WithShape
<1>7. CASE SetReturn \/ UpdateReturn \/ WithReturn
  BY <1>7, ReturnShape
<1>8. CASE Compute \/ Verified
  BY <1>8, RefreshShape
<1>9. CASE Settle \/ Unwind \/ Panic
  BY <1>9, EndShape DEF PanicHasFrame
<1>10. QED
  BY <1>1, <1>2, <1>3, <1>4, <1>5, <1>6, <1>7, <1>8, <1>9 DEF Next

-----------------------------------------------------------------------------
(* What the frames are after a push, a pop, or a replaced top.              *)

LEMMA PushIs ==
  ASSUME Shape, NEW f, FrameFits(f), Push(f)
  PROVE  /\ Len(stack) \in Nat /\ Len(stack) + 1 \in DOMAIN stack'
         /\ stack'[Len(stack) + 1] = f
         /\ \A i \in DOMAIN stack :
              i \in Nat /\ i \in DOMAIN stack' /\ stack'[i] = stack[i] /\ i < Len(stack) + 1
         /\ \A i \in DOMAIN stack' : i \in Nat /\ (i \in DOMAIN stack \/ i = Len(stack) + 1)
BY Pushed DEF Shape, StackInv, Push

LEMMA EnterIs ==
  ASSUME Shape, ~Idle, NEW f, FrameFits(f), Enter(f)
  PROVE  /\ Len(stack) \in Nat /\ Len(stack) + 1 \in DOMAIN stack'
         /\ stack'[Len(stack) + 1] = f
         /\ \A i \in DOMAIN stack :
              i \in Nat /\ i \in DOMAIN stack' /\ SameFrame(stack'[i], stack[i]) /\ i < Len(stack) + 1
         /\ \A i \in DOMAIN stack' : i \in Nat /\ (i \in DOMAIN stack \/ i = Len(stack) + 1)
<1>1. PICK mid : mid = [stack EXCEPT ![Len(stack)].asked = TRUE]
  OBVIOUS
<1>2. /\ StackInv(mid) /\ Len(mid) = Len(stack) /\ DOMAIN mid = DOMAIN stack
      /\ \A i \in DOMAIN stack : SameFrame(mid[i], stack[i])
  BY <1>1, Asking DEF Shape, Idle
<1>3. stack' = Append(mid, f)
  BY <1>1 DEF Enter
<1>4. /\ Len(mid) \in Nat /\ DOMAIN mid = 1 .. Len(mid)
      /\ DOMAIN stack' = 1 .. Len(mid) + 1
      /\ \A i \in 1 .. Len(mid) : stack'[i] = mid[i]
      /\ stack'[Len(mid) + 1] = f
  BY <1>2, <1>3, Pushed DEF StackInv
<1>5. PICK n \in Nat : n = Len(stack)
  BY <1>2, <1>4
<1>6. /\ n + 1 \in 1 .. n + 1 /\ \A i \in 1 .. n : i \in Nat /\ i \in 1 .. n + 1 /\ i < n + 1
      /\ \A i \in 1 .. n + 1 : i \in Nat /\ (i \in 1 .. n \/ i = n + 1)
  OBVIOUS
<1>7. QED
  BY <1>2, <1>4, <1>5, <1>6

LEMMA PopIs ==
  ASSUME Shape, ~Idle, Pop
  PROVE  /\ Len(stack) \in Nat /\ Len(stack) \in DOMAIN stack /\ Top = stack[Len(stack)]
         /\ Len(stack) \notin DOMAIN stack'
         /\ \A i \in DOMAIN stack :
              i \in Nat /\ (i \in DOMAIN stack' \/ i = Len(stack)) /\ i <= Len(stack)
         /\ \A i \in DOMAIN stack' :
              i \in Nat /\ i \in DOMAIN stack /\ stack'[i] = stack[i] /\ i < Len(stack)
BY Popped, TopIs DEF Shape, StackInv, Pop, Idle

LEMMA SwapIs ==
  ASSUME Shape, ~Idle, NEW f, FrameFits(f), Retop(f)
  PROVE  /\ Len(stack) \in Nat /\ Len(stack) \in DOMAIN stack /\ Top = stack[Len(stack)]
         /\ DOMAIN stack' = DOMAIN stack /\ stack'[Len(stack)] = f
         /\ \A i \in DOMAIN stack :
              i \in Nat /\ i <= Len(stack) /\ (i # Len(stack) => stack'[i] = stack[i] /\ i < Len(stack))
<1>1. /\ Len(stack) \in Nat \ {0} /\ DOMAIN stack = 1 .. Len(stack) /\ Len(stack) \in DOMAIN stack
      /\ Top = stack[Len(stack)]
  BY TopIs DEF Shape, StackInv
<1>2. /\ DOMAIN stack' = DOMAIN stack /\ stack'[Len(stack)] = f
      /\ \A i \in 1 .. Len(stack) - 1 : stack'[i] = stack[i]
  BY Swapped DEF Shape, StackInv, Retop, Idle
<1>3. \A i \in 1 .. Len(stack) : i \in Nat /\ i <= Len(stack)
                                /\ (i # Len(stack) => i \in 1 .. Len(stack) - 1 /\ i < Len(stack))
  <2>1. PICK n \in Nat : n = Len(stack)
    BY <1>1
  <2>2. \A i \in 1 .. n : i \in Nat /\ i <= n /\ (i # n => i \in 1 .. n - 1 /\ i < n)
    OBVIOUS
  <2>3. QED
    BY <2>1, <2>2
<1>4. QED
  BY <1>1, <1>2, <1>3

(* A step that leaves the refreshes on the stack alone. *)
SameRefreshes ==
  /\ \A i \in DOMAIN stack : stack[i].kind \in Refreshes => i \in DOMAIN stack' /\ stack'[i] = stack[i]
  /\ \A i \in DOMAIN stack' : stack'[i].kind \in Refreshes => i \in DOMAIN stack /\ stack'[i] = stack[i]

LEMMA SameFrames ==
  ASSUME SameRefreshes, NEW c
  PROVE  /\ Active(c)' <=> Active(c)
         /\ Busy(c)' <=> Busy(c)
         /\ Settling(c)' <=> Settling(c)
         /\ \A j : ComparedAt(j, c)' <=> ComparedAt(j, c)
         /\ lost' = lost /\ behind' = behind => (Excused(c)' <=> Excused(c))
<1>1. /\ Active(c)' <=> Active(c)
      /\ Busy(c)' <=> Busy(c)
      /\ Settling(c)' <=> Settling(c)
  BY DEF SameRefreshes, Active, Busy, Settling, Refreshes, Computing
<1>2. \A j : ComparedAt(j, c)' <=> ComparedAt(j, c)
  BY DEF SameRefreshes, ComparedAt, Refreshes
<1>3. lost' = lost /\ behind' = behind => (Excused(c)' <=> Excused(c))
  BY <1>2 DEF SameRefreshes, Excused, Refreshes
<1>4. QED
  BY <1>1, <1>2, <1>3

LEMMA PlainPush ==
  ASSUME Shape, NEW f, FrameFits(f), Push(f), f.kind \in Plain
  PROVE  SameRefreshes
BY PushIs DEF SameRefreshes, Plain, Refreshes

LEMMA PlainSwap ==
  ASSUME Shape, ~Idle, NEW f, FrameFits(f), Retop(f), f.kind \in Plain, Top.kind \in Plain
  PROVE  SameRefreshes
BY SwapIs DEF SameRefreshes, Plain, Refreshes

LEMMA PlainPop ==
  ASSUME Shape, ~Idle, Pop, Top.kind \in Plain
  PROVE  SameRefreshes
BY PopIs DEF SameRefreshes, Plain, Refreshes

(* A signal under an update stays under it unless the frame goes.           *)
LEMMA PushMutated ==
  ASSUME Shape, NEW f, FrameFits(f), Push(f), NEW n
  PROVE  /\ Mutated(n) => Mutated(n)'
         /\ Mutated(n)' => Mutated(n) \/ (f.kind = "update" /\ f.node = n)
BY PushIs DEF Mutated

LEMMA PopMutated ==
  ASSUME Shape, ~Idle, Pop, NEW n
  PROVE  /\ Mutated(n)' => Mutated(n)
         /\ Mutated(n) => Mutated(n)' \/ (Top.kind = "update" /\ Top.node = n)
BY PopIs DEF Mutated

LEMMA SwapMutated ==
  ASSUME Shape, ~Idle, NEW f, FrameFits(f), Retop(f), f.kind # "update", Top.kind # "update", NEW n
  PROVE  Mutated(n)' <=> Mutated(n)
BY SwapIs DEF Mutated

-----------------------------------------------------------------------------
(* Steps that refresh nothing and tell nobody, those of a panic included.   *)

Rest == EdgeInv /\ SeenInv /\ FramesInv /\ ValueInv /\ CleanInv

QuietStep ==
  /\ SameRefreshes /\ UNCHANGED <<version, state, seen, lost, behind>>
  /\ ~panicking' => ~panicking \/ stack' = <<>>
  /\ \A n \in Nodes : Unsure(n) => Unsure(n)'
  /\ \A n \in Nodes : value'[n] = value[n] \/ Unsure(n)'

LEMMA FramesInvEmpty ==
  ASSUME stack' = <<>>
  PROVE  FramesInv'
BY DEF FramesInv, VerifyInv, SettleInv

LEMMA QuietReadLast ==
  ASSUME QuietStep, NEW c \in Computed, ReadLast(c)'
  PROVE  ReadLast(c) /\ value'[Input[c]] = value[Input[c]]
<1>1. Input[c] \in Nodes
  BY InputBelow
<1>2. QED
  BY <1>1 DEF QuietStep, ReadLast

LEMMA QuietKeeps ==
  ASSUME Shape, Shape', Rest, QuietStep
  PROVE  Rest'
<1>1. /\ SameRefreshes /\ version' = version /\ state' = state /\ seen' = seen /\ lost' = lost /\ behind' = behind
      /\ ~panicking' => ~panicking \/ stack' = <<>>
  BY DEF QuietStep
<1>2. \A c : /\ Active(c)' <=> Active(c)
             /\ Busy(c)' <=> Busy(c)
             /\ Settling(c)' <=> Settling(c)
             /\ Excused(c)' <=> Excused(c)
  BY <1>1, SameFrames
<1>3. EdgeInv'
  BY <1>1, <1>2 DEF Rest, EdgeInv, SameRefreshes, Refreshes
<1>4. SeenInv'
  BY <1>1 DEF Rest, SeenInv
<1>5. ASSUME ~panicking, VerifyInv PROVE VerifyInv'
  BY <1>1, <1>5 DEF VerifyInv, SameRefreshes, Refreshes
<1>6. ASSUME ~panicking, SettleInv PROVE SettleInv'
  <2>1. SUFFICES ASSUME NEW i \in DOMAIN stack', stack'[i].kind = "settle", Innermost(stack', i)
                 PROVE  WillBeRight(stack[i].node, stack[i].val)'
    BY DEF SettleInv
  <2>2. i \in DOMAIN stack /\ stack'[i] = stack[i]
    BY <1>1, <2>1 DEF SameRefreshes, Refreshes
  <2>3. Innermost(stack, i)
    BY <1>1, <2>1, <2>2 DEF SameRefreshes, Refreshes, Computing, Innermost
  <2> PICK v : v = stack[i].val
    OBVIOUS
  <2>4. PICK c \in Computed : c = stack[i].node
    BY <2>1, <2>2 DEF Shape, StackInv, IsStack, FrameFits, Refreshes
  <2>5. WillBeRight(c, v)
    BY <1>6, <2>1, <2>2, <2>3, <2>4 DEF SettleInv
  <2>6. ReadLast(c)' => ReadLast(c) /\ value'[Input[c]] = value[Input[c]]
    BY QuietReadLast
  <2>7. WillBeRight(c, v)'
    BY <1>1, <2>5, <2>6 DEF WillBeRight
  <2>8. QED
    BY <2>2, <2>4, <2>7
<1>7. FramesInv'
  BY <1>1, <1>5, <1>6, FramesInvEmpty DEF Rest, FramesInv
<1>8. ValueInv'
  <2>1. SUFFICES ASSUME NEW c \in Computed, c \notin lost', ~Settling(c)', ReadLast(c)'
                 PROVE  value'[c] = Fun[c][value'[Input[c]]]
    BY DEF ValueInv
  <2>2. ReadLast(c) /\ value'[Input[c]] = value[Input[c]] /\ c \notin lost /\ ~Settling(c)
    BY <1>1, <1>2, <2>1, QuietReadLast
  <2>3. value'[c] = value[c]
    BY Kinds DEF QuietStep, Unsure, Nodes
  <2>4. QED
    BY <2>2, <2>3 DEF Rest, ValueInv
<1>9. CleanInv'
  BY <1>1, <1>2 DEF Rest, CleanInv, Settled
<1>10. QED
  BY <1>3, <1>4, <1>7, <1>8, <1>9 DEF Rest

-----------------------------------------------------------------------------
(* Steps that write a signal and tell.                                     *)

WriteStep(s) ==
  /\ SameRefreshes /\ Trigger(s) /\ panicking' = panicking
  /\ \A n \in Nodes : n # s /\ Unsure(n) => Unsure(n)'
  /\ \A n \in Nodes : n # s => value'[n] = value[n]

(* What is reached is marked, and what is not stays as it is. *)
LEMMA Marks ==
  ASSUME Shape, NEW s \in Signals, Mark(s), NEW c \in Computed
  PROVE  /\ c \in Reached(s) => state'[c] # "Clean" /\ seen[c] # None
         /\ c \notin Reached(s) => state'[c] = state[c]
         /\ state[c] = "Dirty" => state'[c] = "Dirty"
<1>1. state'[c] = IF c \notin Reached(s) THEN state[c]
                  ELSE IF Input[c] = s THEN "Dirty"
                  ELSE IF state[c] = "Clean" THEN "Check" ELSE state[c]
  BY DEF Mark
<1>2. ASSUME c \in Reached(s) PROVE seen[c] # None
  <2>1. c \in Upstream[c] \ {s}
    BY UpstreamSelf, Kinds DEF Nodes
  <2>2. QED
    BY <1>2, <2>1 DEF Reached
<1>3. QED
  BY <1>1, <1>2

(* A mark stops at nothing clean that has an edge. *)
LEMMA ReachedAbove ==
  ASSUME NEW s \in Signals, NEW c \in Computed, seen[c] # None,
         \/ Input[c] = s
         \/ Input[c] \in Reached(s) /\ state[Input[c]] = "Clean"
  PROVE  c \in Reached(s)
<1>1. Upstream[c] = {c} \cup Upstream[Input[c]] /\ Input[c] \in Nodes
  BY InputBelow
<1>2. CASE Input[c] = s
  <2>1. Upstream[c] = {c, s}
    BY <1>1, <1>2, UpstreamIs
  <2>2. QED
    BY <2>1 DEF Reached
<1>3. CASE Input[c] \in Reached(s) /\ state[Input[c]] = "Clean"
  <2>1. s \in Upstream[c]
    BY <1>1, <1>3 DEF Reached
  <2>2. \A d \in Upstream[Input[c]] \ {s} : seen[d] # None /\ state[d] = "Clean"
    BY <1>3 DEF Reached
  <2>3. QED
    BY <1>1, <2>1, <2>2 DEF Reached
<1>4. QED
  BY <1>2, <1>3

LEMMA WriteReadLast ==
  ASSUME Shape, SeenInv, NEW s \in Signals, WriteStep(s), NEW c \in Computed, ReadLast(c)'
  PROVE  ReadLast(c) /\ value'[Input[c]] = value[Input[c]] /\ Input[c] # s
<1>1. Input[c] \in Nodes
  BY InputBelow
<1>2. /\ seen'[c] = seen[c] /\ version'[s] = version[s] + 1 /\ version[s] \in Nat
      /\ \A n \in Nodes : n # s => version'[n] = version[n]
  BY TriggerTypes DEF WriteStep, Shape
<1>3. seen[c] # None /\ seen[c] = version'[Input[c]]
  BY <1>2 DEF ReadLast
<1>4. seen[c] <= version[Input[c]]
  BY <1>3 DEF SeenInv
<1>5. Input[c] # s
  BY <1>2, <1>3, <1>4
<1>6. QED
  BY <1>1, <1>2, <1>3, <1>5 DEF ReadLast, WriteStep

LEMMA WriteKeeps ==
  ASSUME Shape, Shape', Rest, NEW s \in Signals, WriteStep(s)
  PROVE  Rest'
<1>1. /\ SameRefreshes /\ seen' = seen /\ lost' = lost /\ behind' = behind /\ panicking' = panicking /\ Mark(s)
      /\ version'[s] = version[s] + 1 /\ version[s] \in Nat
      /\ \A n \in Nodes : n # s => version'[n] = version[n]
  BY TriggerTypes DEF WriteStep, Shape, Trigger
<1>2. \A c : /\ Active(c)' <=> Active(c)
             /\ Busy(c)' <=> Busy(c)
             /\ Settling(c)' <=> Settling(c)
             /\ Excused(c)' <=> Excused(c)
  BY <1>1, SameFrames
<1>3. \A c \in Computed :
        /\ c \in Reached(s) => state'[c] # "Clean" /\ seen[c] # None
        /\ c \notin Reached(s) => state'[c] = state[c]
        /\ state[c] = "Dirty" => state'[c] = "Dirty"
  BY <1>1, Marks
<1>4. \A c \in Computed : Input[c] \in Nodes /\ version[Input[c]] \in Nat
                          /\ version[Input[c]] <= version'[Input[c]] /\ version'[Input[c]] \in Nat
  <2>1. SUFFICES ASSUME NEW c \in Computed
                 PROVE  Input[c] \in Nodes /\ version[Input[c]] \in Nat
                        /\ version[Input[c]] <= version'[Input[c]] /\ version'[Input[c]] \in Nat
    OBVIOUS
  <2>2. PICK n \in Nodes : n = Input[c]
    BY InputBelow
  <2>3. version[n] \in Nat /\ version'[n] \in Nat /\ version[n] <= version'[n]
    BY <1>1 DEF Shape, CellTypes
  <2>4. QED
    BY <2>2, <2>3
<1>5. EdgeInv'
  <2>1. ASSUME NEW i \in DOMAIN stack', stack'[i].kind = "compute"
        PROVE  seen'[stack'[i].node] = None /\ state'[stack'[i].node] = "Clean"
    <3>1. i \in DOMAIN stack /\ stack'[i] = stack[i]
      BY <1>1, <2>1 DEF SameRefreshes, Refreshes
    <3>2. PICK c \in Computed : c = stack[i].node
      BY <2>1, <3>1 DEF Shape, StackInv, IsStack, FrameFits, Refreshes
    <3>3. seen[c] = None /\ state[c] = "Clean"
      BY <2>1, <3>1, <3>2 DEF Rest, EdgeInv
    <3>4. QED
      BY <1>1, <1>3, <3>1, <3>2, <3>3
  <2>2. \A c \in Computed : seen'[c] = None => state'[c] = "Dirty" \/ Active(c)'
    BY <1>1, <1>2, <1>3 DEF Rest, EdgeInv
  <2>3. QED
    BY <2>1, <2>2 DEF EdgeInv
<1>6. SeenInv'
  <2>1. SUFFICES ASSUME NEW c \in Computed, seen[c] # None PROVE seen[c] <= version'[Input[c]]
    BY <1>1 DEF SeenInv
  <2>2. seen[c] <= version[Input[c]] /\ seen[c] \in Nat
    BY <2>1 DEF Rest, SeenInv, Shape, CellTypes
  <2>3. QED
    BY <1>4, <2>2
<1>7. ASSUME VerifyInv PROVE VerifyInv'
  <2>1. SUFFICES ASSUME NEW i \in DOMAIN stack', stack'[i].kind = "verify", NEW c, c = stack'[i].node
                 PROVE  /\ stack'[i].val <= version'[Input[c]]
                        /\ seen'[c] # None => stack'[i].val <= seen'[c]
                        /\ seen'[c] = None =>
                             \E j \in DOMAIN stack' :
                               i < j /\ stack'[j].kind = "compute" /\ stack'[j].node = c
    BY DEF VerifyInv
  <2>2. i \in DOMAIN stack /\ stack'[i] = stack[i]
    BY <1>1, <2>1 DEF SameRefreshes, Refreshes
  <2>3. c \in Computed /\ stack[i].val \in Nat
    BY <2>1, <2>2 DEF Shape, StackInv, IsStack, FrameFits, Refreshes
  <2>4. /\ stack[i].val <= version[Input[c]]
        /\ seen[c] # None => stack[i].val <= seen[c]
        /\ seen[c] = None =>
             \E j \in DOMAIN stack : i < j /\ stack[j].kind = "compute" /\ stack[j].node = c
    BY <1>7, <2>1, <2>2 DEF VerifyInv
  <2>5. stack'[i].val <= version'[Input[c]]
    BY <1>4, <2>2, <2>3, <2>4
  <2>6. seen[c] = None => \E j \in DOMAIN stack' :
                            i < j /\ stack'[j].kind = "compute" /\ stack'[j].node = c
    BY <1>1, <2>4 DEF SameRefreshes, Refreshes
  <2>7. QED
    BY <1>1, <2>2, <2>4, <2>5, <2>6
<1>8. ASSUME SettleInv PROVE SettleInv'
  <2>1. SUFFICES ASSUME NEW i \in DOMAIN stack', stack'[i].kind = "settle", Innermost(stack', i)
                 PROVE  WillBeRight(stack[i].node, stack[i].val)'
    BY DEF SettleInv
  <2>2. i \in DOMAIN stack /\ stack'[i] = stack[i]
    BY <1>1, <2>1 DEF SameRefreshes, Refreshes
  <2>3. Innermost(stack, i)
    BY <1>1, <2>1, <2>2 DEF SameRefreshes, Refreshes, Computing, Innermost
  <2> PICK v : v = stack[i].val
    OBVIOUS
  <2>4. PICK c \in Computed : c = stack[i].node
    BY <2>1, <2>2 DEF Shape, StackInv, IsStack, FrameFits, Refreshes
  <2>5. WillBeRight(c, v)
    BY <1>8, <2>1, <2>2, <2>3, <2>4 DEF SettleInv
  <2>6. ReadLast(c)' => ReadLast(c) /\ value'[Input[c]] = value[Input[c]]
    BY WriteReadLast DEF Rest
  <2>7. WillBeRight(c, v)'
    BY <1>1, <2>5, <2>6 DEF WillBeRight
  <2>8. QED
    BY <2>2, <2>4, <2>7
<1>9. FramesInv'
  BY <1>1, <1>7, <1>8 DEF Rest, FramesInv
<1>10. ValueInv'
  <2>1. SUFFICES ASSUME NEW c \in Computed, c \notin lost', ~Settling(c)', ReadLast(c)'
                 PROVE  value'[c] = Fun[c][value'[Input[c]]]
    BY DEF ValueInv
  <2>2. ReadLast(c) /\ value'[Input[c]] = value[Input[c]] /\ c \notin lost /\ ~Settling(c)
    BY <1>1, <1>2, <2>1, WriteReadLast DEF Rest
  <2>3. value'[c] = value[c]
    BY Kinds DEF WriteStep, Nodes
  <2>4. QED
    BY <2>2, <2>3 DEF Rest, ValueInv
<1>11. CleanInv'
  <2>1. SUFFICES ASSUME NEW c \in Computed, state'[c] = "Clean", seen'[c] # None, ~Excused(c)'
                 PROVE  Settled(Input[c])' /\ seen'[c] = version'[Input[c]]
    BY DEF CleanInv
  <2>2. c \notin Reached(s) /\ state[c] = "Clean" /\ seen[c] # None /\ ~Excused(c)
    BY <1>1, <1>2, <1>3, <2>1
  <2>3. Settled(Input[c]) /\ seen[c] = version[Input[c]]
    BY <2>2 DEF Rest, CleanInv
  <2>4. Input[c] # s /\ (Input[c] \in Reached(s) => state[Input[c]] # "Clean")
    BY <2>2, ReachedAbove
  <2>5. version'[Input[c]] = version[Input[c]]
    BY <1>1, <1>4, <2>4
  <2>6. Settled(Input[c])'
    BY <1>2, <1>3, <2>3, <2>4 DEF Settled
  <2>7. QED
    BY <1>1, <2>3, <2>5, <2>6
<1>12. QED
  BY <1>5, <1>6, <1>9, <1>10, <1>11 DEF Rest

-----------------------------------------------------------------------------
(* Steps of a refresh: it starts,                                          *)

RefreshStep(c) ==
  /\ ~panicking /\ ~Idle /\ ~Active(c) /\ state[c] # "Clean"
  /\ Refresh(c) /\ UNCHANGED <<value, version, panicking, torn>>

LEMMA RefreshKeeps ==
  ASSUME Shape, Shape', Rest, NEW c \in Computed, RefreshStep(c)
  PROVE  Rest'
<1>1. /\ ~panicking /\ ~Idle /\ ~Active(c) /\ state[c] # "Clean" /\ Refresh(c)
      /\ value' = value /\ version' = version /\ panicking' = panicking /\ torn' = torn
  BY DEF RefreshStep
<1>2. PICK f : /\ FrameFits(f) /\ f.node = c /\ Enter(f)
               /\ f.kind = IF state[c] = "Dirty" THEN "compute" ELSE "verify"
               /\ f.kind = "verify" => f.val = seen[c] /\ seen[c] # None
  BY <1>1, RefreshEnters DEF Shape, Rest
<1>3. PICK n : n = Len(stack) + 1
  OBVIOUS
<1>4. /\ n \in DOMAIN stack' /\ stack'[n] = f
      /\ \A i \in DOMAIN stack : i \in Nat /\ i \in DOMAIN stack'
           /\ stack'[i].kind = stack[i].kind /\ stack'[i].node = stack[i].node
           /\ stack'[i].val = stack[i].val /\ i < n
      /\ \A i \in DOMAIN stack' : i \in Nat /\ (i \in DOMAIN stack \/ i = n)
  BY <1>1, <1>2, <1>3, EnterIs DEF SameFrame
<1>5. \A d \in Computed : d # c =>
        state'[d] = state[d] /\ seen'[d] = seen[d] /\ (d \in lost' <=> d \in lost)
        /\ (d \in behind' <=> d \in behind)
  <2>1. \/ state' = [state EXCEPT ![c] = "Clean"] /\ seen' = [seen EXCEPT ![c] = None]
           /\ lost' = lost \ {c} /\ behind' = behind \ {c}
        \/ state' = state /\ seen' = seen /\ lost' = lost /\ behind' = behind
    BY <1>1 DEF Refresh, StartCompute
  <2>2. DOMAIN state = Computed /\ DOMAIN seen = Computed
    BY DEF Shape, CellTypes
  <2>3. \A d : d # c => (d \in lost' <=> d \in lost) /\ (d \in behind' <=> d \in behind)
    BY <2>1
  <2>4. QED
    BY <2>1, <2>2, <2>3
<1>6. \/ /\ f.kind = "compute" /\ seen'[c] = None /\ state'[c] = "Clean"
      \/ /\ f.kind = "verify" /\ state'[c] # "Clean" /\ state' = state /\ seen' = seen
         /\ lost' = lost /\ seen'[c] # None /\ f.val = seen[c]
  <2>1. CASE state[c] = "Dirty"
    BY <1>1, <1>2, <2>1, StartComputeTypes DEF Refresh, Shape
  <2>2. CASE state[c] # "Dirty"
    BY <1>1, <1>2, <2>2 DEF Refresh
  <2>3. QED
    BY <2>1, <2>2
<1>7. ASSUME NEW d
      PROVE  /\ Active(d) => Active(d)' /\ (d = c \/ ~(Settling(d)' /\ ~Settling(d)))
             /\ Settling(d) => Settling(d)'
             /\ Busy(d)' <=> Busy(d) \/ d = c
  <2>1. Active(d) => Active(d)'
    BY <1>4 DEF Active
  <2>2. Settling(d) => Settling(d)'
    BY <1>4 DEF Settling
  <2>3. d # c /\ Settling(d)' => Settling(d)
    BY <1>2, <1>4 DEF Settling
  <2>4. Busy(d)' <=> Busy(d) \/ d = c
    BY <1>2, <1>4 DEF Busy, Refreshes
  <2>5. QED
    BY <2>1, <2>2, <2>3, <2>4
<1>8. \A m : Unsure(m) => Unsure(m)'
  BY <1>1, <1>4 DEF Unsure, Mutated
<1>9. ASSUME NEW d \in Computed, ReadLast(d)'
      PROVE  ReadLast(d) /\ seen'[d] = seen[d]
  BY <1>1, <1>5, <1>6, <1>8, <1>9 DEF ReadLast
<1>10. EdgeInv'
  <2>1. ASSUME NEW i \in DOMAIN stack', stack'[i].kind = "compute"
        PROVE  seen'[stack'[i].node] = None /\ state'[stack'[i].node] = "Clean"
    <3>1. CASE i \in DOMAIN stack
      <4>1. PICK d \in Computed : d = stack[i].node
        BY <1>4, <2>1, <3>1 DEF Shape, StackInv, IsStack, FrameFits, Refreshes
      <4>2. d # c
        BY <1>1, <1>4, <2>1, <3>1, <4>1 DEF Active
      <4>3. seen[d] = None /\ state[d] = "Clean"
        BY <1>4, <2>1, <3>1, <4>1 DEF Rest, EdgeInv
      <4>4. QED
        BY <1>4, <1>5, <3>1, <4>1, <4>2, <4>3
    <3>2. CASE i = n
      BY <1>2, <1>4, <1>6, <2>1, <3>2
    <3>3. QED
      BY <1>4, <3>1, <3>2
  <2>2. ASSUME NEW d \in Computed, seen'[d] = None PROVE state'[d] = "Dirty" \/ Active(d)'
    <3>1. CASE d # c
      BY <1>5, <1>7, <2>2, <3>1 DEF Rest, EdgeInv
    <3>2. CASE d = c
      BY <1>2, <1>4, <1>6, <2>2, <3>2 DEF Active
    <3>3. QED
      BY <3>1, <3>2
  <2>3. QED
    BY <2>1, <2>2 DEF EdgeInv
<1>11. SeenInv'
  BY <1>1, <1>5, <1>6 DEF Rest, SeenInv
<1>12. VerifyInv'
  <2>1. SUFFICES ASSUME NEW i \in DOMAIN stack', stack'[i].kind = "verify", NEW d, d = stack'[i].node
                 PROVE  /\ stack'[i].val <= version'[Input[d]]
                        /\ seen'[d] # None => stack'[i].val <= seen'[d]
                        /\ seen'[d] = None =>
                             \E j \in DOMAIN stack' :
                               i < j /\ stack'[j].kind = "compute" /\ stack'[j].node = d
    BY DEF VerifyInv
  <2>2. CASE i \in DOMAIN stack
    <3>1. d \in Computed /\ stack'[i].kind = stack[i].kind /\ stack'[i].node = stack[i].node
         /\ stack'[i].val = stack[i].val /\ i < n
      BY <1>4, <2>1, <2>2 DEF Shape, StackInv, IsStack, FrameFits, Refreshes
    <3>2. /\ stack[i].val <= version[Input[d]]
          /\ seen[d] # None => stack[i].val <= seen[d]
          /\ seen[d] = None =>
               \E j \in DOMAIN stack : i < j /\ stack[j].kind = "compute" /\ stack[j].node = d
      BY <1>1, <2>1, <2>2, <3>1 DEF Rest, FramesInv, VerifyInv
    <3>3. CASE d = c /\ f.kind = "compute"
      BY <1>1, <1>2, <1>4, <1>6, <3>1, <3>2, <3>3
    <3>4. CASE d # c \/ f.kind = "verify"
      <4>1. seen'[d] = seen[d]
        BY <1>5, <1>6, <3>1, <3>4
      <4>2. QED
        BY <1>1, <1>4, <3>1, <3>2, <4>1
    <3>5. QED
      BY <1>6, <3>3, <3>4
  <2>3. CASE i = n
    <3>1. d = c /\ stack'[i].val = seen[c] /\ seen'[c] = seen[c] /\ seen[c] # None
      BY <1>2, <1>4, <1>6, <2>1, <2>3
    <3>2. seen[c] <= version[Input[c]] /\ seen[c] \in Nat
      BY <3>1 DEF Rest, SeenInv, Shape, CellTypes
    <3>3. QED
      BY <1>1, <3>1, <3>2
  <2>4. QED
    BY <1>4, <2>2, <2>3
<1>13. SettleInv'
  <2>1. SUFFICES ASSUME NEW i \in DOMAIN stack', stack'[i].kind = "settle", Innermost(stack', i)
                 PROVE  WillBeRight(stack[i].node, stack[i].val)'
    BY DEF SettleInv
  <2>2. i \in DOMAIN stack /\ stack'[i].kind = stack[i].kind /\ stack'[i].node = stack[i].node
         /\ stack'[i].val = stack[i].val /\ i < n
    BY <1>2, <1>4, <2>1
  <2>3. Innermost(stack, i)
    BY <1>4, <2>1, <2>2 DEF Innermost
  <2> PICK v : v = stack[i].val
    OBVIOUS
  <2>4. PICK d \in Computed : d = stack[i].node
    BY <2>1, <2>2 DEF Shape, StackInv, IsStack, FrameFits, Refreshes
  <2>5. WillBeRight(d, v)
    BY <1>1, <2>1, <2>2, <2>3, <2>4 DEF Rest, FramesInv, SettleInv
  <2>6. ASSUME d = c, f.kind = "compute" PROVE FALSE
    <3>1. n <= i
      BY <1>2, <1>4, <2>1, <2>2, <2>4, <2>6 DEF Innermost, Computing
    <3>2. n \in Nat /\ i \in Nat
      BY <1>4
    <3>3. QED
      BY <2>2, <3>1, <3>2
  <2>7. seen'[d] = seen[d]
    BY <1>5, <1>6, <2>6
  <2>8. WillBeRight(d, v)'
    BY <1>1, <1>9, <2>5, <2>7 DEF WillBeRight
  <2>9. QED
    BY <2>2, <2>4, <2>8
<1>14. FramesInv'
  BY <1>12, <1>13 DEF FramesInv
<1>15. ValueInv'
  <2>1. SUFFICES ASSUME NEW d \in Computed, d \notin lost', ~Settling(d)', ReadLast(d)'
                 PROVE  value'[d] = Fun[d][value'[Input[d]]]
    BY DEF ValueInv
  <2>2. ReadLast(d) /\ seen'[d] = seen[d] /\ ~Settling(d)
    BY <1>7, <1>9, <2>1
  <2>3. d \notin lost
    BY <1>5, <1>6, <2>1 DEF ReadLast
  <2>4. QED
    BY <1>1, <2>2, <2>3 DEF Rest, ValueInv
<1>16. ASSUME NEW d \in Computed, d # c, Excused(d) PROVE Excused(d)'
  <2>1. CASE d \in lost \cup behind
    BY <1>5, <1>16, <2>1 DEF Excused
  <2>2. CASE d \notin lost \cup behind
    <3>1. PICK j \in DOMAIN stack : stack[j].kind = "settle" /\ stack[j].node = d /\ ComparedAt(j, d)
      BY <1>16, <2>2 DEF Excused
    <3>2. ComparedAt(j, d)'
      BY <1>4, <3>1 DEF ComparedAt
    <3>3. QED
      BY <1>4, <3>1, <3>2 DEF Excused
  <2>3. QED
    BY <2>1, <2>2
<1>17. CleanInv'
  <2>1. SUFFICES ASSUME NEW d \in Computed, state'[d] = "Clean", seen'[d] # None, ~Excused(d)'
                 PROVE  Settled(Input[d])' /\ seen'[d] = version'[Input[d]]
    BY DEF CleanInv
  <2>2. d # c
    BY <1>6, <2>1
  <2>3. state[d] = "Clean" /\ seen[d] # None /\ ~Excused(d) /\ seen'[d] = seen[d]
    BY <1>5, <1>16, <2>1, <2>2
  <2>4. Settled(Input[d]) /\ seen[d] = version[Input[d]]
    BY <2>3 DEF Rest, CleanInv
  <2>5. Input[d] # c
    BY <1>1, <2>4 DEF Settled
  <2>6. Settled(Input[d])'
    BY <1>5, <1>7, <2>4, <2>5 DEF Settled
  <2>7. QED
    BY <1>1, <2>3, <2>4, <2>6
<1>18. QED
  BY <1>10, <1>11, <1>14, <1>15, <1>17 DEF Rest

(* it goes on,                                                             *)

(* A refresh that was asked for by a node made of this one is below a       *)
(* comparator, or there is none.                                           *)
LEMMA Chain ==
  ASSUME Shape, NEW c \in Computed, NEW m \in Upstream[c] \ {c},
         NEW i \in DOMAIN stack, stack[i].kind \in Refreshes, stack[i].node = m,
         NEW j \in DOMAIN stack, stack[j].kind \in Refreshes, stack[j].node = c, i < j
  PROVE  ComparedAt(j, c)
<1>1. c \in Nodes /\ m \in Nodes
  BY UpstreamSelf DEF Nodes
<1>2. c \notin Upstream[m]
  BY <1>1, UpstreamAntisymmetric
<1>3. PICK k \in DOMAIN stack :
        i <= k /\ k < j /\ stack[k].kind = "settle" /\ stack[k].node \in Upstream[m]
  BY <1>2 DEF Shape, StackInv, Chained
<1>4. stack[k].node \in Upstream[c] \ {c}
  BY <1>1, <1>2, <1>3, UpstreamTransitive
<1>5. QED
  BY <1>3, <1>4 DEF ComparedAt

LEMMA ChainToInput ==
  ASSUME Shape, NEW c \in Computed, NEW j \in DOMAIN stack, stack[j].kind \in Refreshes,
         stack[j].node = c, \A i \in DOMAIN stack : i # j => i < j, Busy(Input[c])
  PROVE  ComparedAt(j, c)
<1>1. PICK m \in Nodes : m = Input[c]
  BY InputBelow
<1>2. m \in Upstream[c] \ {c}
  BY <1>1, InputBelow, UpstreamSelf
<1>3. PICK i \in DOMAIN stack : stack[i].kind \in Refreshes /\ stack[i].node = m
  BY <1>1 DEF Busy
<1>4. i < j
  BY <1>2, <1>3
<1>5. QED
  BY <1>2, <1>3, <1>4, Chain

LEMMA SwapFrames ==
  ASSUME Shape, ~Idle, NEW c, NEW f, FrameFits(f), f.kind \in Refreshes, f.node = c,
         Top.kind \in Refreshes \ {"settle"}, Top.node = c, Retop(f),
         NEW d
  PROVE  /\ d # c => (Active(d)' <=> Active(d)) /\ (Settling(d)' <=> Settling(d))
         /\ Busy(d)' <=> Busy(d)
         /\ \A j \in DOMAIN stack : ComparedAt(j, d) => ComparedAt(j, d)'
         /\ (d \in lost \cup behind => d \in lost' \cup behind') /\ Excused(d) => Excused(d)'
<1>1. PICK n \in DOMAIN stack :
        /\ n = Len(stack) /\ Top = stack[n]
        /\ DOMAIN stack' = DOMAIN stack /\ stack'[n] = f
        /\ \A i \in DOMAIN stack :
              i \in Nat /\ i <= n /\ (i # n => stack'[i] = stack[i] /\ i < n)
  BY SwapIs
<1>2. d # c => (Active(d)' <=> Active(d)) /\ (Settling(d)' <=> Settling(d))
  BY <1>1 DEF Active, Settling
<1>3. Busy(d)' <=> Busy(d)
  BY <1>1 DEF Busy
<1>4. \A i \in DOMAIN stack : stack[i].kind = "settle" => stack'[i] = stack[i]
  BY <1>1
<1>5. \A j \in DOMAIN stack : ComparedAt(j, d) => ComparedAt(j, d)'
  BY <1>1, <1>4 DEF ComparedAt
<1>6. (d \in lost \cup behind => d \in lost' \cup behind') /\ Excused(d) => Excused(d)'
  BY <1>1, <1>4, <1>5 DEF Excused
<1>7. QED
  BY <1>2, <1>3, <1>5, <1>6

LEMMA PopFrames ==
  ASSUME Shape, ~Idle, NEW c, Top.kind \in Refreshes, Top.node = c, Pop, NEW d
  PROVE  /\ d # c => (Active(d)' <=> Active(d)) /\ (Settling(d)' <=> Settling(d))
                      /\ (Busy(d)' <=> Busy(d))
         /\ (Active(d)' => Active(d)) /\ (Settling(d)' => Settling(d)) /\ (Busy(d)' => Busy(d))
         /\ d # c /\ (d \in lost \cup behind => d \in lost' \cup behind') /\ Excused(d) => Excused(d)'
<1>1. PICK n \in DOMAIN stack :
        /\ n = Len(stack) /\ Top = stack[n] /\ n \notin DOMAIN stack'
        /\ \A i \in DOMAIN stack : i \in Nat /\ (i \in DOMAIN stack' \/ i = n) /\ i <= n
        /\ \A i \in DOMAIN stack' :
              i \in Nat /\ i \in DOMAIN stack /\ stack'[i] = stack[i] /\ i < n
  BY PopIs
<1>2. d # c => (Active(d)' <=> Active(d)) /\ (Settling(d)' <=> Settling(d)) /\ (Busy(d)' <=> Busy(d))
  BY <1>1 DEF Active, Settling, Busy
<1>3. (Active(d)' => Active(d)) /\ (Settling(d)' => Settling(d)) /\ (Busy(d)' => Busy(d))
  BY <1>1 DEF Active, Settling, Busy
<1>4. ASSUME d # c, d \in lost \cup behind => d \in lost' \cup behind', Excused(d) PROVE Excused(d)'
  <2>1. CASE d \in lost \cup behind
    BY <1>4, <2>1 DEF Excused
  <2>2. CASE d \notin lost \cup behind
    <3>1. PICK j \in DOMAIN stack : stack[j].kind = "settle" /\ stack[j].node = d /\ ComparedAt(j, d)
      BY <1>4, <2>2 DEF Excused
    <3>2. j \in DOMAIN stack' /\ j < n /\ j \in Nat
      BY <1>1, <1>4, <3>1
    <3>3. PICK i \in DOMAIN stack :
            i < j /\ stack[i].kind = "settle" /\ stack[i].node \in Upstream[d] \ {d}
      BY <3>1 DEF ComparedAt
    <3>4. i # n
      BY <1>1, <3>2, <3>3
    <3>5. ComparedAt(j, d)'
      BY <1>1, <3>3, <3>4 DEF ComparedAt
    <3>6. QED
      BY <1>1, <3>1, <3>2, <3>5 DEF Excused
  <2>3. QED
    BY <2>1, <2>2
<1>5. QED
  BY <1>2, <1>3, <1>4

ComputeStep(c) ==
  /\ ~panicking /\ OnTop("compute") /\ Top.node = c
  /\ seen' = [seen EXCEPT ![c] = version[Input[c]]]
  /\ Retop(Frame("settle", c, Fun[c][value[Input[c]]]))
  /\ behind' = IF Current(Input[c]) THEN behind ELSE behind \cup {c}
  /\ UNCHANGED <<value, version, state, panicking, lost, torn>>

LEMMA ComputeKeeps ==
  ASSUME Shape, Shape', Rest, NEW c \in Computed, ComputeStep(c)
  PROVE  Rest'
<1>1. /\ ~panicking /\ ~Idle /\ Top.kind = "compute" /\ Top.node = c
      /\ value' = value /\ version' = version /\ state' = state /\ panicking' = panicking
      /\ lost' = lost /\ torn' = torn /\ \A d : d \in behind => d \in behind'
  BY DEF ComputeStep, OnTop
<1>2. PICK f : /\ f = Frame("settle", c, Fun[c][value[Input[c]]])
               /\ FrameFits(f) /\ f.kind = "settle" /\ f.node = c /\ f.val = Fun[c][value[Input[c]]]
               /\ Retop(f)
  BY DEF ComputeStep, Frame, FrameFits, Refreshes, Plain
<1>3. PICK n \in DOMAIN stack :
        /\ n = Len(stack) /\ Top = stack[n] /\ n \in Nat
        /\ DOMAIN stack' = DOMAIN stack /\ stack'[n] = f
        /\ \A i \in DOMAIN stack :
              i \in Nat /\ i <= n /\ (i # n => stack'[i] = stack[i] /\ i < n)
  BY <1>1, <1>2, SwapIs
<1>4. /\ version[Input[c]] \in Nat /\ version[Input[c]] # None
      /\ seen'[c] = version[Input[c]] /\ \A d \in Computed : d # c => seen'[d] = seen[d]
  <2>1. Input[c] \in Nodes
    BY InputBelow
  <2>2. version[Input[c]] \in Nat /\ DOMAIN seen = Computed
    BY <2>1 DEF Shape, CellTypes
  <2>3. QED
    BY <2>2, CellsAssumption DEF ComputeStep
<1>5. ASSUME NEW i \in DOMAIN stack, i # n, stack[i].kind = "compute" PROVE stack[i].node # c
  BY <1>1, <1>3, <1>5 DEF Shape, StackInv, ComputesLast, Refreshes
<1>6. \A d : /\ d # c => (Active(d)' <=> Active(d)) /\ (Settling(d)' <=> Settling(d))
             /\ Busy(d)' <=> Busy(d)
             /\ \A j \in DOMAIN stack : ComparedAt(j, d) => ComparedAt(j, d)'
             /\ Excused(d) => Excused(d)'
  BY <1>1, <1>2, SwapFrames DEF Refreshes
<1>7. \A m : Unsure(m)' <=> Unsure(m)
  BY <1>1, <1>2, SwapMutated DEF Unsure
<1>8. ASSUME NEW d \in Computed, d # c PROVE ReadLast(d)' <=> ReadLast(d)
  BY <1>1, <1>4, <1>7, <1>8 DEF ReadLast
<1>9. EdgeInv'
  <2>1. ASSUME NEW i \in DOMAIN stack', stack'[i].kind = "compute"
        PROVE  seen'[stack'[i].node] = None /\ state'[stack'[i].node] = "Clean"
    <3>1. i # n /\ i \in DOMAIN stack /\ stack'[i] = stack[i]
      BY <1>2, <1>3, <2>1
    <3>2. PICK d \in Computed : d = stack[i].node
      BY <2>1, <3>1 DEF Shape, StackInv, IsStack, FrameFits, Refreshes
    <3>3. d # c
      BY <1>5, <2>1, <3>1, <3>2
    <3>4. seen[d] = None /\ state[d] = "Clean"
      BY <2>1, <3>1, <3>2 DEF Rest, EdgeInv
    <3>5. QED
      BY <1>1, <1>4, <3>1, <3>2, <3>3, <3>4
  <2>2. ASSUME NEW d \in Computed, seen'[d] = None PROVE state'[d] = "Dirty" \/ Active(d)'
    <3>1. d # c
      BY <1>4, <2>2
    <3>2. QED
      BY <1>1, <1>4, <1>6, <2>2, <3>1 DEF Rest, EdgeInv
  <2>3. QED
    BY <2>1, <2>2 DEF EdgeInv
<1>10. SeenInv'
  <2>1. SUFFICES ASSUME NEW d \in Computed, seen'[d] # None PROVE seen'[d] <= version'[Input[d]]
    BY DEF SeenInv
  <2>2. CASE d = c
    BY <1>1, <1>4, <2>2
  <2>3. CASE d # c
    BY <1>1, <1>4, <2>1, <2>3 DEF Rest, SeenInv
  <2>4. QED
    BY <2>2, <2>3
<1>11. VerifyInv'
  <2>1. SUFFICES ASSUME NEW i \in DOMAIN stack', stack'[i].kind = "verify", NEW d, d = stack'[i].node
                 PROVE  /\ stack'[i].val <= version'[Input[d]]
                        /\ seen'[d] # None => stack'[i].val <= seen'[d]
                        /\ seen'[d] = None =>
                             \E j \in DOMAIN stack' :
                               i < j /\ stack'[j].kind = "compute" /\ stack'[j].node = d
    BY DEF VerifyInv
  <2>2. i # n /\ i \in DOMAIN stack /\ stack'[i] = stack[i]
    BY <1>2, <1>3, <2>1
  <2>3. d \in Computed
    BY <2>1, <2>2 DEF Shape, StackInv, IsStack, FrameFits, Refreshes
  <2>4. /\ stack[i].val <= version[Input[d]]
        /\ seen[d] # None => stack[i].val <= seen[d]
        /\ seen[d] = None =>
             \E j \in DOMAIN stack : i < j /\ stack[j].kind = "compute" /\ stack[j].node = d
    BY <1>1, <2>1, <2>2 DEF Rest, FramesInv, VerifyInv
  <2>5. CASE d = c
    BY <1>1, <1>4, <2>2, <2>4, <2>5
  <2>6. CASE d # c
    <3>1. seen'[d] = seen[d]
      BY <1>4, <2>3, <2>6
    <3>2. ASSUME seen[d] = None
          PROVE  \E j \in DOMAIN stack' : i < j /\ stack'[j].kind = "compute" /\ stack'[j].node = d
      <4>1. PICK j \in DOMAIN stack : i < j /\ stack[j].kind = "compute" /\ stack[j].node = d
        BY <2>4, <3>2
      <4>2. j # n
        BY <1>1, <1>3, <2>6, <4>1
      <4>3. QED
        BY <1>3, <4>1, <4>2
    <3>3. QED
      BY <1>1, <2>2, <2>4, <3>1, <3>2
  <2>7. QED
    BY <2>5, <2>6
<1>12. SettleInv'
  <2>1. SUFFICES ASSUME NEW i \in DOMAIN stack', stack'[i].kind = "settle", Innermost(stack', i),
                        NEW d, d = stack'[i].node, NEW v, v = stack'[i].val
                 PROVE  WillBeRight(d, v)'
    BY DEF SettleInv
  <2>2. CASE i = n
    BY <1>1, <1>2, <1>3, <1>4, <2>1, <2>2 DEF WillBeRight
  <2>3. CASE i # n
    <3>1. i \in DOMAIN stack /\ stack'[i] = stack[i] /\ i < n /\ i \in Nat
      BY <1>3, <2>3
    <3>2. d \in Computed
      BY <2>1, <3>1 DEF Shape, StackInv, IsStack, FrameFits, Refreshes
    <3>3. d # c
      BY <1>2, <1>3, <2>1, <3>1 DEF Innermost, Computing
    <3>4. Innermost(stack, i)
      BY <1>1, <1>3, <2>1, <3>1, <3>3 DEF Innermost
    <3>5. WillBeRight(d, v)
      BY <1>1, <2>1, <3>1, <3>4 DEF Rest, FramesInv, SettleInv
    <3>6. QED
      BY <1>1, <1>4, <1>8, <3>2, <3>3, <3>5 DEF WillBeRight
  <2>4. QED
    BY <2>2, <2>3
<1>13. FramesInv'
  BY <1>11, <1>12 DEF FramesInv
<1>14. ValueInv'
  <2>1. SUFFICES ASSUME NEW d \in Computed, d \notin lost', ~Settling(d)', ReadLast(d)'
                 PROVE  value'[d] = Fun[d][value'[Input[d]]]
    BY DEF ValueInv
  <2>2. d # c
    BY <1>2, <1>3, <2>1 DEF Settling, Computing
  <2>3. QED
    BY <1>1, <1>6, <1>8, <2>1, <2>2 DEF Rest, ValueInv
<1>15. CleanInv'
  <2>1. SUFFICES ASSUME NEW d \in Computed, state'[d] = "Clean", seen'[d] # None, ~Excused(d)'
                 PROVE  Settled(Input[d])' /\ seen'[d] = version'[Input[d]]
    BY DEF CleanInv
  <2>2. Settled(Input[d]) => Settled(Input[d])'
    BY <1>1, <1>6 DEF Settled
  <2>3. CASE d # c
    <3>1. seen[d] # None /\ ~Excused(d) /\ seen'[d] = seen[d]
      BY <1>4, <1>6, <2>1, <2>3
    <3>2. QED
      BY <1>1, <2>1, <2>2, <3>1 DEF Rest, CleanInv
  <2>4. CASE d = c
    <3>1. ASSUME Busy(Input[c]) PROVE FALSE
      <4>1. ComparedAt(n, c)
        BY <1>1, <1>3, <3>1, ChainToInput DEF Refreshes
      <4>2. Excused(c)'
        BY <1>2, <1>3, <1>6, <4>1 DEF Excused
      <4>3. QED
        BY <2>1, <2>4, <4>2
    <3>2. Current(Input[c])
      BY <2>1, <2>4 DEF ComputeStep, Excused
    <3>3. Settled(Input[c])
      BY <3>1, <3>2 DEF Current, Settled
    <3>4. QED
      BY <1>1, <1>4, <2>2, <2>4, <3>3
  <2>5. QED
    BY <2>3, <2>4
<1>16. QED
  BY <1>9, <1>10, <1>13, <1>14, <1>15 DEF Rest

(* finds that its input has changed,                                       *)
ChangedStep(c) ==
  /\ ~panicking /\ OnTop("verify") /\ Top.node = c
  /\ StartCompute(c) /\ Retop(Frame("compute", c, None))
  /\ UNCHANGED <<value, version, panicking, torn>>

LEMMA ChangedKeeps ==
  ASSUME Shape, Shape', Rest, NEW c \in Computed, ChangedStep(c)
  PROVE  Rest'
<1>1. /\ ~panicking /\ ~Idle /\ Top.kind = "verify" /\ Top.node = c
      /\ value' = value /\ version' = version /\ panicking' = panicking /\ torn' = torn
  BY DEF ChangedStep, OnTop
<1>2. PICK f : /\ f = Frame("compute", c, None)
               /\ FrameFits(f) /\ f.kind = "compute" /\ f.node = c
               /\ Retop(f)
  BY DEF ChangedStep, Frame, FrameFits, Refreshes, Plain
<1>3. PICK n \in DOMAIN stack :
        /\ n = Len(stack) /\ Top = stack[n] /\ n \in Nat
        /\ DOMAIN stack' = DOMAIN stack /\ stack'[n] = f
        /\ \A i \in DOMAIN stack :
              i \in Nat /\ i <= n /\ (i # n => stack'[i] = stack[i] /\ i < n)
  BY <1>1, <1>2, SwapIs
<1>4. /\ seen'[c] = None /\ state'[c] = "Clean"
      /\ \A d \in Computed : d # c =>
           seen'[d] = seen[d] /\ state'[d] = state[d] /\ (d \in lost' <=> d \in lost)
           /\ (d \in behind' <=> d \in behind)
  <2>1. /\ state' = [state EXCEPT ![c] = "Clean"] /\ seen' = [seen EXCEPT ![c] = None]
        /\ lost' = lost \ {c} /\ behind' = behind \ {c}
    BY DEF ChangedStep, StartCompute
  <2>2. DOMAIN state = Computed /\ DOMAIN seen = Computed
    BY DEF Shape, CellTypes
  <2>3. \A d : d # c => (d \in lost' <=> d \in lost) /\ (d \in behind' <=> d \in behind)
    BY <2>1
  <2>4. QED
    BY <2>1, <2>2, <2>3
<1>5. ASSUME NEW i \in DOMAIN stack, stack[i].kind = "compute" PROVE stack[i].node # c
  <2>1. i # n
    BY <1>1, <1>3, <1>5
  <2>2. QED
    BY <1>1, <1>3, <1>5, <2>1 DEF Shape, StackInv, ComputesLast, Refreshes
<1>6. ASSUME NEW d
      PROVE  /\ d # c => (Active(d)' <=> Active(d)) /\ (Settling(d)' <=> Settling(d))
             /\ Busy(d)' <=> Busy(d)
             /\ d \in Computed /\ d # c /\ Excused(d) => Excused(d)'
  BY <1>1, <1>2, <1>4, SwapFrames DEF Refreshes
<1>7. \A m : Unsure(m)' <=> Unsure(m)
  BY <1>1, <1>2, SwapMutated DEF Unsure
<1>8. ASSUME NEW d \in Computed, d # c PROVE ReadLast(d)' <=> ReadLast(d)
  BY <1>1, <1>4, <1>7, <1>8 DEF ReadLast
<1>9. EdgeInv'
  <2>1. ASSUME NEW i \in DOMAIN stack', stack'[i].kind = "compute"
        PROVE  seen'[stack'[i].node] = None /\ state'[stack'[i].node] = "Clean"
    <3>1. CASE i = n
      BY <1>2, <1>3, <1>4, <3>1
    <3>2. CASE i # n
      <4>1. i \in DOMAIN stack /\ stack'[i] = stack[i]
        BY <1>3, <2>1, <3>2
      <4>2. PICK d \in Computed : d = stack[i].node
        BY <2>1, <4>1 DEF Shape, StackInv, IsStack, FrameFits, Refreshes
      <4>3. d # c
        BY <1>5, <2>1, <4>1, <4>2
      <4>4. seen[d] = None /\ state[d] = "Clean"
        BY <2>1, <4>1, <4>2 DEF Rest, EdgeInv
      <4>5. QED
        BY <1>4, <4>1, <4>2, <4>3, <4>4
    <3>3. QED
      BY <3>1, <3>2
  <2>2. ASSUME NEW d \in Computed, seen'[d] = None PROVE state'[d] = "Dirty" \/ Active(d)'
    <3>1. CASE d = c
      BY <1>2, <1>3, <3>1 DEF Active
    <3>2. CASE d # c
      BY <1>4, <1>6, <2>2, <3>2 DEF Rest, EdgeInv
    <3>3. QED
      BY <3>1, <3>2
  <2>3. QED
    BY <2>1, <2>2 DEF EdgeInv
<1>10. SeenInv'
  BY <1>1, <1>4 DEF Rest, SeenInv
<1>11. VerifyInv'
  <2>1. SUFFICES ASSUME NEW i \in DOMAIN stack', stack'[i].kind = "verify", NEW d, d = stack'[i].node
                 PROVE  /\ stack'[i].val <= version'[Input[d]]
                        /\ seen'[d] # None => stack'[i].val <= seen'[d]
                        /\ seen'[d] = None =>
                             \E j \in DOMAIN stack' :
                               i < j /\ stack'[j].kind = "compute" /\ stack'[j].node = d
    BY DEF VerifyInv
  <2>2. i # n /\ i < n /\ i \in DOMAIN stack /\ stack'[i] = stack[i]
    BY <1>2, <1>3, <2>1
  <2>3. d \in Computed
    BY <2>1, <2>2 DEF Shape, StackInv, IsStack, FrameFits, Refreshes
  <2>4. /\ stack[i].val <= version[Input[d]]
        /\ seen[d] # None => stack[i].val <= seen[d]
        /\ seen[d] = None =>
             \E j \in DOMAIN stack : i < j /\ stack[j].kind = "compute" /\ stack[j].node = d
    BY <1>1, <2>1, <2>2 DEF Rest, FramesInv, VerifyInv
  <2>5. CASE d = c
    BY <1>1, <1>2, <1>3, <1>4, <2>2, <2>4, <2>5
  <2>6. CASE d # c
    <3>1. seen'[d] = seen[d]
      BY <1>4, <2>3, <2>6
    <3>2. ASSUME seen[d] = None
          PROVE  \E j \in DOMAIN stack' : i < j /\ stack'[j].kind = "compute" /\ stack'[j].node = d
      <4>1. PICK j \in DOMAIN stack : i < j /\ stack[j].kind = "compute" /\ stack[j].node = d
        BY <2>4, <3>2
      <4>2. j # n
        BY <1>1, <1>3, <4>1
      <4>3. QED
        BY <1>3, <4>1, <4>2
    <3>3. QED
      BY <1>1, <2>2, <2>4, <3>1, <3>2
  <2>7. QED
    BY <2>5, <2>6
<1>12. SettleInv'
  <2>1. SUFFICES ASSUME NEW i \in DOMAIN stack', stack'[i].kind = "settle", Innermost(stack', i),
                        NEW d, d = stack'[i].node, NEW v, v = stack'[i].val
                 PROVE  WillBeRight(d, v)'
    BY DEF SettleInv
  <2>2. i # n /\ i \in DOMAIN stack /\ stack'[i] = stack[i] /\ i < n /\ i \in Nat
    BY <1>2, <1>3, <2>1
  <2>3. d \in Computed
    BY <2>1, <2>2 DEF Shape, StackInv, IsStack, FrameFits, Refreshes
  <2>4. d # c
    BY <1>2, <1>3, <2>1, <2>2 DEF Innermost, Computing
  <2>5. Innermost(stack, i)
    BY <1>1, <1>3, <2>1, <2>2, <2>4 DEF Innermost
  <2>6. WillBeRight(d, v)
    BY <1>1, <2>1, <2>2, <2>5 DEF Rest, FramesInv, SettleInv
  <2>7. QED
    BY <1>1, <1>4, <1>8, <2>3, <2>4, <2>6 DEF WillBeRight
<1>13. FramesInv'
  BY <1>11, <1>12 DEF FramesInv
<1>14. ValueInv'
  <2>1. SUFFICES ASSUME NEW d \in Computed, d \notin lost', ~Settling(d)', ReadLast(d)'
                 PROVE  value'[d] = Fun[d][value'[Input[d]]]
    BY DEF ValueInv
  <2>2. d # c
    BY <1>4, <2>1 DEF ReadLast
  <2>3. QED
    BY <1>1, <1>4, <1>6, <1>8, <2>1, <2>2 DEF Rest, ValueInv
<1>15. CleanInv'
  <2>1. SUFFICES ASSUME NEW d \in Computed, state'[d] = "Clean", seen'[d] # None, ~Excused(d)'
                 PROVE  Settled(Input[d])' /\ seen'[d] = version'[Input[d]]
    BY DEF CleanInv
  <2>2. d # c
    BY <1>4, <2>1
  <2>3. state[d] = "Clean" /\ seen[d] # None /\ ~Excused(d) /\ seen'[d] = seen[d]
    BY <1>4, <1>6, <2>1, <2>2
  <2>4. Settled(Input[d]) /\ seen[d] = version[Input[d]]
    BY <2>3 DEF Rest, CleanInv
  <2>5. Settled(Input[d])'
    <3>1. CASE Input[d] = c
      <4>1. Busy(c)
        BY <1>1, <1>3 DEF Busy, Refreshes
      <4>2. QED
        BY <2>4, <3>1, <4>1 DEF Settled
    <3>2. CASE Input[d] # c
      BY <1>4, <1>6, <2>4, <3>2 DEF Settled
    <3>3. QED
      BY <3>1, <3>2
  <2>6. QED
    BY <1>1, <2>3, <2>4, <2>5
<1>16. QED
  BY <1>9, <1>10, <1>13, <1>14, <1>15 DEF Rest

(* or that it has not,                                                     *)
SameStep(c) ==
  /\ ~panicking /\ OnTop("verify") /\ Top.node = c
  /\ version[Input[c]] = Top.val
  /\ state' = [state EXCEPT ![c] = "Clean"] /\ Pop
  /\ behind' = IF Current(Input[c]) /\ ~Comparing(c) THEN behind \ {c} ELSE behind \cup {c}
  /\ UNCHANGED <<seen, lost, value, version, panicking, torn>>

LEMMA SameKeeps ==
  ASSUME Shape, Shape', Rest, NEW c \in Computed, SameStep(c)
  PROVE  Rest'
<1>1. /\ ~panicking /\ ~Idle /\ Top.kind = "verify" /\ Top.node = c /\ Pop
      /\ value' = value /\ version' = version /\ seen' = seen /\ panicking' = panicking
      /\ torn' = torn
  BY DEF SameStep, OnTop
<1>2. PICK n \in DOMAIN stack :
        /\ n = Len(stack) /\ Top = stack[n] /\ n \in Nat /\ n \notin DOMAIN stack'
        /\ \A i \in DOMAIN stack : i \in Nat /\ (i \in DOMAIN stack' \/ i = n) /\ i <= n
        /\ \A i \in DOMAIN stack' :
              i \in Nat /\ i \in DOMAIN stack /\ stack'[i] = stack[i] /\ i < n
  BY <1>1, PopIs
<1>3. /\ state'[c] = "Clean" /\ \A d \in Computed : d # c => state'[d] = state[d]
      /\ lost' = lost /\ (~(Current(Input[c]) /\ ~Comparing(c)) => c \in behind')
      /\ \A d : d # c => (d \in behind => d \in behind')
  BY DEF SameStep, Shape, CellTypes
<1>4. seen[c] # None /\ seen[c] = version[Input[c]]
  <2>1. /\ stack[n].val <= version[Input[c]]
        /\ seen[c] # None => stack[n].val <= seen[c]
        /\ seen[c] = None =>
             \E j \in DOMAIN stack : n < j /\ stack[j].kind = "compute" /\ stack[j].node = c
    BY <1>1, <1>2 DEF Rest, FramesInv, VerifyInv
  <2>2. seen[c] # None
    <3>1. \A j \in DOMAIN stack : ~(n < j)
      BY <1>2
    <3>2. QED
      BY <2>1, <3>1
  <2>3. PICK m \in Nodes : m = Input[c]
    BY InputBelow
  <2>4. seen[c] \in Nat /\ version[m] \in Nat
    BY <2>2 DEF Shape, CellTypes
  <2>5. seen[c] <= version[m] /\ version[m] <= seen[c]
    BY <1>2, <2>1, <2>2, <2>3 DEF Rest, SeenInv, SameStep
  <2>6. QED
    BY <2>2, <2>3, <2>4, <2>5
<1>5. ASSUME NEW d
      PROVE  /\ d # c => (Active(d)' <=> Active(d)) /\ (Settling(d)' <=> Settling(d))
             /\ Busy(d)' => Busy(d)
             /\ d # c /\ Excused(d) => Excused(d)'
  BY <1>1, <1>3, PopFrames DEF Refreshes
<1>6. \A d : (Active(d)' <=> Active(d)) /\ (Settling(d)' <=> Settling(d))
  BY <1>1, <1>2 DEF Active, Settling, Computing
<1>7. \A m : Unsure(m)' <=> Unsure(m)
  BY <1>1, PopMutated DEF Unsure
<1>8. ASSUME NEW d \in Computed PROVE ReadLast(d)' <=> ReadLast(d)
  BY <1>1, <1>7 DEF ReadLast
<1>9. EdgeInv'
  <2>1. ASSUME NEW i \in DOMAIN stack', stack'[i].kind = "compute"
        PROVE  seen'[stack'[i].node] = None /\ state'[stack'[i].node] = "Clean"
    <3>1. PICK d \in Computed : d = stack[i].node
      BY <1>2, <2>1 DEF Shape, StackInv, IsStack, FrameFits, Refreshes
    <3>2. seen[d] = None /\ state[d] = "Clean"
      BY <1>2, <2>1, <3>1 DEF Rest, EdgeInv
    <3>3. QED
      BY <1>1, <1>2, <1>3, <3>1, <3>2
  <2>2. ASSUME NEW d \in Computed, seen'[d] = None PROVE state'[d] = "Dirty" \/ Active(d)'
    BY <1>1, <1>3, <1>4, <1>6, <2>2 DEF Rest, EdgeInv
  <2>3. QED
    BY <2>1, <2>2 DEF EdgeInv
<1>10. SeenInv'
  BY <1>1 DEF Rest, SeenInv
<1>11. VerifyInv'
  <2>1. SUFFICES ASSUME NEW i \in DOMAIN stack', stack'[i].kind = "verify", NEW d, d = stack'[i].node
                 PROVE  /\ stack'[i].val <= version'[Input[d]]
                        /\ seen'[d] # None => stack'[i].val <= seen'[d]
                        /\ seen'[d] = None =>
                             \E j \in DOMAIN stack' :
                               i < j /\ stack'[j].kind = "compute" /\ stack'[j].node = d
    BY DEF VerifyInv
  <2>2. i \in DOMAIN stack /\ stack'[i] = stack[i]
    BY <1>2, <2>1
  <2>3. /\ stack[i].val <= version[Input[d]]
        /\ seen[d] # None => stack[i].val <= seen[d]
        /\ seen[d] = None =>
             \E j \in DOMAIN stack : i < j /\ stack[j].kind = "compute" /\ stack[j].node = d
    BY <1>1, <2>1, <2>2 DEF Rest, FramesInv, VerifyInv
  <2>4. ASSUME seen[d] = None
        PROVE  \E j \in DOMAIN stack' : i < j /\ stack'[j].kind = "compute" /\ stack'[j].node = d
    <3>1. PICK j \in DOMAIN stack : i < j /\ stack[j].kind = "compute" /\ stack[j].node = d
      BY <2>3, <2>4
    <3>2. j # n
      BY <1>1, <1>2, <3>1
    <3>3. QED
      BY <1>2, <3>1, <3>2
  <2>5. QED
    BY <1>1, <2>2, <2>3, <2>4
<1>12. SettleInv'
  <2>1. SUFFICES ASSUME NEW i \in DOMAIN stack', stack'[i].kind = "settle", Innermost(stack', i),
                        NEW d, d = stack'[i].node, NEW v, v = stack'[i].val
                 PROVE  WillBeRight(d, v)'
    BY DEF SettleInv
  <2>2. i \in DOMAIN stack /\ stack'[i] = stack[i]
    BY <1>2, <2>1
  <2>3. d \in Computed
    BY <2>1, <2>2 DEF Shape, StackInv, IsStack, FrameFits, Refreshes
  <2>4. Innermost(stack, i)
    BY <1>1, <1>2, <2>1, <2>2 DEF Innermost, Computing
  <2>5. WillBeRight(d, v)
    BY <1>1, <2>1, <2>2, <2>4 DEF Rest, FramesInv, SettleInv
  <2>6. QED
    BY <1>1, <1>8, <2>3, <2>5 DEF WillBeRight
<1>13. FramesInv'
  BY <1>11, <1>12 DEF FramesInv
<1>14. ValueInv'
  BY <1>1, <1>3, <1>6, <1>8 DEF Rest, ValueInv
<1>15. CleanInv'
  <2>1. SUFFICES ASSUME NEW d \in Computed, state'[d] = "Clean", seen'[d] # None, ~Excused(d)'
                 PROVE  Settled(Input[d])' /\ seen'[d] = version'[Input[d]]
    BY DEF CleanInv
  <2>2. CASE d = c
    <3>1. ASSUME Busy(Input[c]) PROVE FALSE
      <4>1. ComparedAt(n, c)
        BY <1>1, <1>2, <3>1, ChainToInput DEF Refreshes
      <4>2. Comparing(c)
        BY <4>1 DEF ComparedAt, Comparing
      <4>3. QED
        BY <1>3, <2>1, <2>2, <4>2 DEF Excused
    <3>2. Current(Input[c])
      BY <1>3, <2>1, <2>2 DEF Excused
    <3>3. Settled(Input[c])'
      BY <1>3, <1>5, <3>1, <3>2, InputBelow DEF Current, Settled
    <3>4. QED
      BY <1>1, <1>4, <2>2, <3>3
  <2>3. CASE d # c
    <3>1. Settled(Input[d]) /\ seen[d] = version[Input[d]]
      BY <1>1, <1>3, <1>5, <2>1, <2>3 DEF Rest, CleanInv
    <3>2. Settled(Input[d])'
      BY <1>3, <1>5, <3>1 DEF Settled
    <3>3. QED
      BY <1>1, <3>1, <3>2
  <2>4. QED
    BY <2>2, <2>3
<1>16. QED
  BY <1>9, <1>10, <1>13, <1>14, <1>15 DEF Rest

(* stores what was computed,                                               *)
StoreStep(c) ==
  /\ ~panicking /\ OnTop("settle") /\ Top.node = c /\ ~HeldBelow(c)
  /\ Store(c, c \in Thunks \/ value[c] # Top.val)

LEMMA StoreKeeps ==
  ASSUME Shape, Shape', Rest, NEW c \in Computed, StoreStep(c)
  PROVE  Rest'
<1>1. /\ ~panicking /\ ~Idle /\ Top.kind = "settle" /\ Top.node = c /\ Pop
      /\ state' = state /\ seen' = seen /\ panicking' = panicking /\ torn' = torn
      /\ lost' = lost /\ (Comparing(c) => c \in behind')
      /\ \A d : d \in behind => d \in behind'
  BY DEF StoreStep, OnTop, Store
<1>2. PICK n \in DOMAIN stack :
        /\ n = Len(stack) /\ Top = stack[n] /\ n \in Nat /\ n \notin DOMAIN stack'
        /\ \A i \in DOMAIN stack : i \in Nat /\ (i \in DOMAIN stack' \/ i = n) /\ i <= n
        /\ \A i \in DOMAIN stack' :
              i \in Nat /\ i \in DOMAIN stack /\ stack'[i] = stack[i] /\ i < n
  BY <1>1, PopIs
<1>3. /\ value'[c] = Top.val /\ \A m \in Nodes : m # c => value'[m] = value[m]
      /\ \A m \in Nodes : m # c => version'[m] = version[m]
      /\ \/ version'[c] = version[c] + 1
         \/ version'[c] = version[c] /\ value[c] = Top.val
  <2>1. /\ value' = [value EXCEPT ![c] = Top.val]
        /\ \/ version' = [version EXCEPT ![c] = @ + 1]
           \/ version' = [version EXCEPT ![c] = @] /\ value[c] = Top.val
    BY DEF StoreStep, Store
  <2>2. c \in Nodes /\ DOMAIN value = Nodes /\ DOMAIN version = Nodes
    BY DEF Shape, CellTypes, Nodes
  <2>3. QED
    BY <2>1, <2>2
<1>4. \A m \in Nodes : version[m] \in Nat /\ version'[m] \in Nat /\ version[m] <= version'[m]
  <2>1. SUFFICES ASSUME NEW m \in Nodes
                 PROVE  version[m] \in Nat /\ version'[m] \in Nat /\ version[m] <= version'[m]
    OBVIOUS
  <2>2. version[m] \in Nat
    BY DEF Shape, CellTypes
  <2>3. version'[m] = version[m] \/ version'[m] = version[m] + 1
    BY <1>3
  <2>4. QED
    BY <2>2, <2>3
<1>5. ASSUME NEW i \in DOMAIN stack, i # n, stack[i].kind \in Computing PROVE stack[i].node # c
  <2>1. SUFFICES ASSUME stack[i].node = c PROVE FALSE
    OBVIOUS
  <2>2. i \in 1 .. Len(stack) - 1 /\ i < Len(stack)
    <3>1. DOMAIN stack = 1 .. n
      BY <1>2, TopIs, <1>1 DEF Shape, StackInv, Idle
    <3>2. i \in 1 .. n - 1 /\ i < n
      BY <1>2, <1>5, <3>1
    <3>3. QED
      BY <1>2, <3>2
  <2>3. CASE stack[i].kind = "settle"
    <3>1. c \in Memos
      BY <2>1, <2>2, <2>3 DEF Shape, StackInv, MemosCompare
    <3>2. HeldBelow(c)
      BY <2>1, <2>2, <2>3, <3>1 DEF HeldBelow, Below, Borrows
    <3>3. QED
      BY <3>2 DEF StoreStep
  <2>4. CASE stack[i].kind = "compute"
    BY <1>1, <1>2, <2>1, <2>2, <2>4 DEF Shape, StackInv, ComputesLast, Refreshes
  <2>5. QED
    BY <1>5, <2>3, <2>4 DEF Computing
<1>6. ASSUME NEW d
      PROVE  /\ d # c => (Settling(d)' <=> Settling(d))
             /\ Active(d)' <=> Active(d)
             /\ Busy(d)' => Busy(d)
             /\ d # c /\ Excused(d) => Excused(d)'
  <2>1. Active(d)' <=> Active(d)
    BY <1>1, <1>2 DEF Active
  <2>2. QED
    BY <1>1, <2>1, PopFrames DEF Refreshes
<1>7. \A m : Unsure(m)' <=> Unsure(m)
  BY <1>1, PopMutated DEF Unsure
<1>8. ASSUME NEW d \in Computed, ReadLast(d)'
      PROVE  ReadLast(d) /\ value'[Input[d]] = value[Input[d]]
  <2>1. PICK m \in Nodes : m = Input[d]
    BY InputBelow
  <2>2. seen[d] # None /\ seen[d] = version'[m] /\ ~Unsure(m) /\ seen[d] \in Nat
    BY <1>1, <1>7, <1>8, <2>1 DEF ReadLast, Shape, CellTypes
  <2>3. seen[d] <= version[m]
    BY <2>1, <2>2 DEF Rest, SeenInv
  <2>4. version'[m] = version[m]
    BY <1>4, <2>2, <2>3
  <2>5. value'[m] = value[m]
    <3>1. CASE m = c
      <4>1. version'[c] # version[c] + 1
        BY <1>4, <2>4, <3>1
      <4>2. QED
        BY <1>3, <3>1, <4>1
    <3>2. CASE m # c
      BY <1>3, <3>2
    <3>3. QED
      BY <3>1, <3>2
  <2>6. QED
    BY <2>1, <2>2, <2>4, <2>5 DEF ReadLast
<1>9. EdgeInv'
  <2>1. ASSUME NEW i \in DOMAIN stack', stack'[i].kind = "compute"
        PROVE  seen'[stack'[i].node] = None /\ state'[stack'[i].node] = "Clean"
    BY <1>1, <1>2, <2>1 DEF Rest, EdgeInv
  <2>2. \A d \in Computed : seen'[d] = None => state'[d] = "Dirty" \/ Active(d)'
    BY <1>1, <1>6 DEF Rest, EdgeInv
  <2>3. QED
    BY <2>1, <2>2 DEF EdgeInv
<1>10. SeenInv'
  <2>1. SUFFICES ASSUME NEW d \in Computed, seen[d] # None PROVE seen[d] <= version'[Input[d]]
    BY <1>1 DEF SeenInv
  <2>2. PICK m \in Nodes : m = Input[d]
    BY InputBelow
  <2>3. seen[d] \in Nat /\ seen[d] <= version[m]
    BY <2>1, <2>2 DEF Rest, SeenInv, Shape, CellTypes
  <2>4. QED
    BY <1>4, <2>2, <2>3
<1>11. VerifyInv'
  <2>1. SUFFICES ASSUME NEW i \in DOMAIN stack', stack'[i].kind = "verify", NEW d, d = stack'[i].node
                 PROVE  /\ stack'[i].val <= version'[Input[d]]
                        /\ seen'[d] # None => stack'[i].val <= seen'[d]
                        /\ seen'[d] = None =>
                             \E j \in DOMAIN stack' :
                               i < j /\ stack'[j].kind = "compute" /\ stack'[j].node = d
    BY DEF VerifyInv
  <2>2. i \in DOMAIN stack /\ stack'[i] = stack[i]
    BY <1>2, <2>1
  <2>3. /\ stack[i].val <= version[Input[d]]
        /\ seen[d] # None => stack[i].val <= seen[d]
        /\ seen[d] = None =>
             \E j \in DOMAIN stack : i < j /\ stack[j].kind = "compute" /\ stack[j].node = d
    BY <1>1, <2>1, <2>2 DEF Rest, FramesInv, VerifyInv
  <2>4. ASSUME seen[d] = None
        PROVE  \E j \in DOMAIN stack' : i < j /\ stack'[j].kind = "compute" /\ stack'[j].node = d
    <3>1. PICK j \in DOMAIN stack : i < j /\ stack[j].kind = "compute" /\ stack[j].node = d
      BY <2>3, <2>4
    <3>2. j # n
      BY <1>1, <1>2, <3>1
    <3>3. QED
      BY <1>2, <3>1, <3>2
  <2>5. stack[i].val <= version'[Input[d]]
    <3>1. d \in Computed /\ stack[i].val \in Nat
      BY <2>1, <2>2 DEF Shape, StackInv, IsStack, FrameFits, Refreshes
    <3>2. PICK m \in Nodes : m = Input[d]
      BY <3>1, InputBelow
    <3>3. QED
      BY <1>4, <2>3, <3>1, <3>2
  <2>6. QED
    BY <1>1, <2>2, <2>3, <2>4, <2>5
<1>12. SettleInv'
  <2>1. SUFFICES ASSUME NEW i \in DOMAIN stack', stack'[i].kind = "settle", Innermost(stack', i),
                        NEW d, d = stack'[i].node, NEW v, v = stack'[i].val
                 PROVE  WillBeRight(d, v)'
    BY DEF SettleInv
  <2>2. i \in DOMAIN stack /\ stack'[i] = stack[i] /\ i # n
    BY <1>2, <2>1
  <2>3. d \in Computed /\ d # c
    BY <1>5, <2>1, <2>2 DEF Shape, StackInv, IsStack, FrameFits, Refreshes, Computing
  <2>4. Innermost(stack, i)
    BY <1>1, <1>2, <2>1, <2>2, <2>3 DEF Innermost
  <2>5. WillBeRight(d, v)
    BY <1>1, <2>1, <2>2, <2>4 DEF Rest, FramesInv, SettleInv
  <2>6. QED
    BY <1>1, <1>8, <2>3, <2>5 DEF WillBeRight
<1>13. FramesInv'
  BY <1>11, <1>12 DEF FramesInv
<1>14. ValueInv'
  <2>1. SUFFICES ASSUME NEW d \in Computed, d \notin lost', ~Settling(d)', ReadLast(d)'
                 PROVE  value'[d] = Fun[d][value'[Input[d]]]
    BY DEF ValueInv
  <2>2. ReadLast(d) /\ value'[Input[d]] = value[Input[d]]
    BY <1>8, <2>1
  <2>3. CASE d = c
    <3>1. Innermost(stack, n)
      BY <1>2 DEF Innermost
    <3>2. PICK v : v = Top.val
      OBVIOUS
    <3>3. WillBeRight(c, v)
      BY <1>1, <1>2, <3>1, <3>2 DEF Rest, FramesInv, SettleInv
    <3>4. QED
      BY <1>3, <2>2, <2>3, <3>2, <3>3 DEF WillBeRight
  <2>4. CASE d # c
    BY <1>1, <1>3, <1>6, <2>1, <2>2, <2>4 DEF Rest, ValueInv, Nodes
  <2>5. QED
    BY <2>3, <2>4
<1>15. CleanInv'
  <2>1. SUFFICES ASSUME NEW d \in Computed, state'[d] = "Clean", seen'[d] # None, ~Excused(d)'
                 PROVE  Settled(Input[d])' /\ seen'[d] = version'[Input[d]]
    BY DEF CleanInv
  <2>2. ~Excused(d)
    <3>1. CASE d # c
      BY <1>6, <2>1, <3>1
    <3>2. CASE d = c
      <4>1. ~Comparing(c) /\ c \notin lost \cup behind
        BY <1>1, <2>1, <3>2 DEF Excused
      <4>2. \A j : ~ComparedAt(j, c)
        BY <4>1 DEF ComparedAt, Comparing
      <4>3. QED
        BY <3>2, <4>1, <4>2 DEF Excused
    <3>3. QED
      BY <3>1, <3>2
  <2>3. Settled(Input[d]) /\ seen[d] = version[Input[d]]
    BY <1>1, <2>1, <2>2 DEF Rest, CleanInv
  <2>4. Input[d] # c
    BY <1>1, <1>2, <2>3 DEF Settled, Busy, Refreshes
  <2>5. Settled(Input[d])' /\ version'[Input[d]] = version[Input[d]]
    BY <1>1, <1>3, <1>6, <2>3, <2>4, InputBelow DEF Settled
  <2>6. QED
    BY <1>1, <2>3, <2>5
<1>16. QED
  BY <1>9, <1>10, <1>13, <1>14, <1>15 DEF Rest

LEMMA LastUnwound ==
  ASSUME Shape, ~Idle, Pop, ~(Len(stack) > 1)
  PROVE  stack' = <<>>
<1>1. PICK n : n = Len(stack)
  OBVIOUS
<1>2. n \in Nat \ {0} /\ ~(n > 1) /\ Len(Front(stack)) = n - 1 /\ IsStack(stack')
  BY <1>1, Popped, TopIs, PopKeeps DEF Shape, StackInv, Idle, Pop
<1>3. Len(stack') = 0
  BY <1>2 DEF Pop
<1>4. QED
  BY <1>2, <1>3, EmptySeq DEF IsStack

(* or is unwound by a panic.                                               *)
UnwindStep(c) ==
  /\ panicking /\ ~Idle /\ Top.kind \in Refreshes /\ Top.node = c /\ Unwind

LEMMA UnwindKeeps ==
  ASSUME Shape, Shape', Rest, NEW c \in Computed, UnwindStep(c)
  PROVE  Rest'
<1>1. /\ ~Idle /\ Top.kind \in Refreshes /\ Top.node = c /\ Pop
      /\ value' = value /\ version' = version /\ seen' = seen /\ torn' = torn /\ behind' = behind
      /\ panicking' = (Len(stack) > 1)
      /\ \A d : (d \in lost => d \in lost') /\ (d # c /\ d \in lost' => d \in lost)
      /\ Top.kind = "settle" => c \in lost'
      /\ \A d \in Computed : d # c => state'[d] = state[d]
      /\ state'[c] = IF Top.kind = "compute" THEN "Dirty" ELSE state[c]
  <2>1. /\ ~Idle /\ Top.kind \in Refreshes /\ Top.node = c /\ Unwind
        /\ state \in [Computed -> {"Clean", "Check", "Dirty"}]
    BY DEF UnwindStep, Shape, CellTypes
  <2>2. /\ Pop /\ value' = value /\ version' = version /\ seen' = seen
        /\ panicking' = (Len(stack) > 1)
        /\ state' = IF Top.kind = "compute" THEN [state EXCEPT ![c] = "Dirty"] ELSE state
        /\ lost' = IF Top.kind = "settle" THEN lost \cup {c} ELSE lost
        /\ torn' = torn /\ behind' = behind
    BY <2>1 DEF Unwind, OnTop, Refreshes
  <2>3. /\ \A d \in Computed : d # c => state'[d] = state[d]
        /\ state'[c] = IF Top.kind = "compute" THEN "Dirty" ELSE state[c]
    BY <2>1, <2>2
  <2>4. /\ \A d : (d \in lost => d \in lost') /\ (d # c /\ d \in lost' => d \in lost)
        /\ Top.kind = "settle" => c \in lost'
    BY <2>2
  <2>5. QED
    BY <2>1, <2>2, <2>3, <2>4
<1>2. PICK n \in DOMAIN stack :
        /\ n = Len(stack) /\ Top = stack[n] /\ n \in Nat /\ n \notin DOMAIN stack'
        /\ \A i \in DOMAIN stack : i \in Nat /\ (i \in DOMAIN stack' \/ i = n) /\ i <= n
        /\ \A i \in DOMAIN stack' :
              i \in Nat /\ i \in DOMAIN stack /\ stack'[i] = stack[i] /\ i < n
  BY <1>1, PopIs
<1>3. ASSUME NEW d
      PROVE  /\ d # c => (Active(d)' <=> Active(d)) /\ (Settling(d)' <=> Settling(d))
             /\ Busy(d)' => Busy(d)
             /\ d # c /\ Excused(d) => Excused(d)'
  BY <1>1, PopFrames
<1>4. \A m : Unsure(m)' <=> Unsure(m)
  BY <1>1, PopMutated DEF Unsure, Refreshes
<1>5. ASSUME NEW d \in Computed PROVE ReadLast(d)' <=> ReadLast(d)
  BY <1>1, <1>4 DEF ReadLast
<1>6. Top.kind = "compute" => seen[c] = None
  BY <1>1, <1>2 DEF Rest, EdgeInv
<1>7. Top.kind # "compute" => (Active(c)' <=> Active(c))
  BY <1>1, <1>2 DEF Active
<1>8. EdgeInv'
  <2>1. ASSUME NEW i \in DOMAIN stack', stack'[i].kind = "compute"
        PROVE  seen'[stack'[i].node] = None /\ state'[stack'[i].node] = "Clean"
    <3>1. i # n /\ i \in DOMAIN stack /\ stack'[i] = stack[i]
      BY <1>2, <2>1
    <3>2. PICK d \in Computed : d = stack[i].node
      BY <2>1, <3>1 DEF Shape, StackInv, IsStack, FrameFits, Refreshes
    <3>3. d # c
      BY <1>1, <1>2, <2>1, <3>1, <3>2 DEF Shape, StackInv, ComputesLast
    <3>4. seen[d] = None /\ state[d] = "Clean"
      BY <2>1, <3>1, <3>2 DEF Rest, EdgeInv
    <3>5. QED
      BY <1>1, <3>1, <3>2, <3>3, <3>4
  <2>2. ASSUME NEW d \in Computed, seen'[d] = None PROVE state'[d] = "Dirty" \/ Active(d)'
    BY <1>1, <1>3, <1>7, <2>2 DEF Rest, EdgeInv
  <2>3. QED
    BY <2>1, <2>2 DEF EdgeInv
<1>9. SeenInv'
  BY <1>1 DEF Rest, SeenInv
<1>10. FramesInv'
  <2>1. CASE panicking'
    BY <2>1 DEF FramesInv
  <2>2. CASE ~panicking'
    BY <1>1, <2>2, LastUnwound, FramesInvEmpty
  <2>3. QED
    BY <2>1, <2>2
<1>11. ValueInv'
  <2>1. SUFFICES ASSUME NEW d \in Computed, d \notin lost', ~Settling(d)', ReadLast(d)'
                 PROVE  value'[d] = Fun[d][value'[Input[d]]]
    BY DEF ValueInv
  <2>2. ReadLast(d) /\ d \notin lost
    BY <1>1, <1>5, <2>1
  <2>3. ~Settling(d)
    <3>1. CASE d # c
      BY <1>3, <2>1, <3>1
    <3>2. CASE d = c
      <4>1. Top.kind # "settle" /\ Top.kind # "compute"
        BY <1>1, <1>6, <2>1, <2>2, <3>2 DEF ReadLast
      <4>2. QED
        BY <1>2, <2>1, <4>1 DEF Settling, Computing
    <3>3. QED
      BY <3>1, <3>2
  <2>4. QED
    BY <1>1, <2>2, <2>3 DEF Rest, ValueInv
<1>12. CleanInv'
  <2>1. SUFFICES ASSUME NEW d \in Computed, state'[d] = "Clean", seen'[d] # None, ~Excused(d)'
                 PROVE  Settled(Input[d])' /\ seen'[d] = version'[Input[d]]
    BY DEF CleanInv
  <2>2. state[d] = "Clean" /\ seen[d] # None /\ ~Excused(d)
    <3>1. CASE d # c
      BY <1>1, <1>3, <2>1, <3>1
    <3>2. CASE d = c
      <4>1. Top.kind = "verify" /\ state[c] = "Clean" /\ seen[c] # None /\ c \notin lost \cup behind
        BY <1>1, <2>1, <3>2 DEF Excused, Refreshes
      <4>2. ASSUME Excused(c) PROVE FALSE
        <5>1. PICK j \in DOMAIN stack : stack[j].kind = "settle" /\ stack[j].node = c /\ ComparedAt(j, c)
          BY <4>1, <4>2 DEF Excused
        <5>2. PICK i \in DOMAIN stack :
                i < j /\ stack[i].kind = "settle" /\ stack[i].node \in Upstream[c] \ {c}
          BY <5>1 DEF ComparedAt
        <5>3. i # n /\ j # n
          BY <1>2, <4>1, <5>1, <5>2
        <5>4. ComparedAt(j, c)'
          BY <1>2, <5>2, <5>3 DEF ComparedAt
        <5>5. QED
          BY <1>2, <2>1, <3>2, <5>1, <5>3, <5>4 DEF Excused
      <4>3. QED
        BY <3>2, <4>1, <4>2
    <3>3. QED
      BY <3>1, <3>2
  <2>3. Settled(Input[d]) /\ seen[d] = version[Input[d]]
    BY <2>2 DEF Rest, CleanInv
  <2>4. Input[d] # c
    BY <1>1, <1>2, <2>3 DEF Settled, Busy
  <2>5. Settled(Input[d])'
    BY <1>1, <1>3, <2>3, <2>4 DEF Settled
  <2>6. QED
    BY <1>1, <2>3, <2>5
<1>13. QED
  BY <1>8, <1>9, <1>10, <1>11, <1>12 DEF Rest

-----------------------------------------------------------------------------
(* Every action is one of these steps.                                     *)

LEMMA PanicsIsQuiet ==
  ASSUME Panics
  PROVE  QuietStep
BY DEF Panics, QuietStep, SameRefreshes, Unsure, Mutated

LEMMA PushIsQuiet ==
  ASSUME Shape, NEW f, FrameFits(f), f.kind \in Plain, Push(f),
         UNCHANGED <<value, version, state, seen, panicking, lost, behind, torn>>
  PROVE  QuietStep
<1>1. SameRefreshes
  BY PlainPush
<1>2. \A n : Unsure(n) => Unsure(n)'
  BY PushMutated DEF Unsure
<1>3. QED
  BY <1>1, <1>2 DEF QuietStep

LEMMA PopIsQuiet ==
  ASSUME Shape, ~Idle, Top.kind \in {"with", "equal"}, Pop,
         UNCHANGED <<value, version, state, seen, lost, behind, torn>>, ~panicking
  PROVE  QuietStep
<1>1. SameRefreshes
  BY PlainPop DEF Plain
<1>2. \A n : Unsure(n) => Unsure(n)'
  BY PopMutated DEF Unsure
<1>3. QED
  BY <1>1, <1>2 DEF QuietStep

LEMMA WriteRest ==
  ASSUME Shape, Shape', Rest, NEW s \in Signals, NEW v \in Values, Replace(s, v) \/ Set(s, v)
  PROVE  Rest'
<1>1. CASE Panics
  BY <1>1, PanicsIsQuiet, QuietKeeps
<1>2. CASE Replace(s, v) /\ ~Panics
  <2>1. /\ value' = [value EXCEPT ![s] = v] /\ Trigger(s)
        /\ stack' = stack /\ panicking' = panicking
    BY <1>2 DEF Replace
  <2>2. \A n : n # s /\ Unsure(n) => Unsure(n)'
    BY <2>1 DEF Unsure, Trigger, Mutated
  <2>3. \A n \in Nodes : n # s => value'[n] = value[n]
    BY <2>1 DEF Shape, CellTypes
  <2>4. WriteStep(s)
    BY <2>1, <2>2, <2>3 DEF WriteStep, SameRefreshes
  <2>5. QED
    BY <2>4, WriteKeeps
<1>3. CASE Set(s, v) /\ ~Panics
  <2>1. PICK f : f = Frame("equal", s, v)
    OBVIOUS
  <2>2. Push(f) /\ UNCHANGED <<value, version, state, seen, panicking, lost, behind, torn>>
    BY <1>3, <2>1 DEF Set
  <2>3. FrameFits(f) /\ f.kind \in Plain
    BY <2>1 DEF Frame, FrameFits, Plain, Refreshes
  <2>4. QED
    BY <2>2, <2>3, PushIsQuiet, QuietKeeps
<1>4. QED
  BY <1>1, <1>2, <1>3

LEMMA PushRest ==
  ASSUME Shape, Shape', Rest,
         \/ \E s \in Signals : Update(s)
         \/ \E n \in Nodes : With(n)
  PROVE  Rest'
<1>1. CASE Panics
  BY <1>1, PanicsIsQuiet, QuietKeeps
<1>2. ASSUME NEW s \in Signals, Update(s), ~Panics PROVE Rest'
  <2>1. PICK f : f = Frame("update", s, None)
    OBVIOUS
  <2>2. Push(f) /\ UNCHANGED <<value, version, state, seen, panicking, lost, behind, torn>>
    BY <1>2, <2>1 DEF Update
  <2>3. FrameFits(f) /\ f.kind \in Plain
    BY <2>1 DEF Frame, FrameFits, Plain, Refreshes
  <2>4. QED
    BY <2>2, <2>3, PushIsQuiet, QuietKeeps
<1>3. ASSUME NEW n \in Nodes, With(n), ~Panics PROVE Rest'
  <2>1. PICK f : f = Frame(IF n \in Signals THEN "with" ELSE "read", n, None)
    OBVIOUS
  <2>2. Push(f) /\ UNCHANGED <<value, version, state, seen, panicking, lost, behind, torn>>
    BY <1>3, <2>1 DEF With
  <2>3. FrameFits(f) /\ f.kind \in Plain
    BY <2>1 DEF Frame, FrameFits, Plain, Refreshes
  <2>4. QED
    BY <2>2, <2>3, PushIsQuiet, QuietKeeps
<1>4. QED
  BY <1>1, <1>2, <1>3

LEMMA MutateRest ==
  ASSUME Shape, Shape', Rest, NEW v \in Values, Mutate(v)
  PROVE  Rest'
<1>1. /\ ~Idle /\ Top.kind = "update" /\ value' = [value EXCEPT ![Top.node] = v]
      /\ UNCHANGED <<version, state, seen, stack, panicking, lost, behind, torn>>
  BY DEF Mutate, OnTop
<1>2. Len(stack) \in DOMAIN stack /\ Top = stack[Len(stack)]
  BY <1>1, TopIs DEF Shape, StackInv, Idle
<1>3. Top.node \in Signals
  BY <1>1, <1>2 DEF Shape, StackInv, IsStack, FrameFits
<1>4. Unsure(Top.node)
  BY <1>1, <1>2, <1>3 DEF Unsure, Mutated
<1>5. \A n : Unsure(n) => Unsure(n)'
  BY <1>1 DEF Unsure, Mutated
<1>6. \A n \in Nodes : value'[n] = value[n] \/ n = Top.node
  BY <1>1 DEF Shape, CellTypes
<1>7. QuietStep
  BY <1>1, <1>4, <1>5, <1>6 DEF QuietStep, SameRefreshes
<1>8. QED
  BY <1>7, QuietKeeps

LEMMA ReturnRest ==
  ASSUME Shape, Shape', Rest, SetReturn \/ UpdateReturn \/ WithReturn
  PROVE  Rest'
<1>1. CASE WithReturn
  BY <1>1, PopIsQuiet, QuietKeeps DEF WithReturn, OnTop
<1>2. ~Idle => Len(stack) \in DOMAIN stack /\ Top = stack[Len(stack)]
  BY TopIs DEF Shape, StackInv, Idle
<1>3. CASE UpdateReturn
  <2>1. /\ ~Idle /\ Top.kind = "update" /\ Pop /\ Trigger(Top.node)
        /\ value' = value /\ panicking' = panicking
    BY <1>3 DEF UpdateReturn, OnTop
  <2>2. PICK s \in Signals : s = Top.node
    BY <1>2, <2>1 DEF Shape, StackInv, IsStack, FrameFits
  <2>3. \A n : n # s /\ Unsure(n) => Unsure(n)'
    BY <2>1, <2>2, PopMutated DEF Unsure, Trigger
  <2>4. SameRefreshes
    BY <2>1, PlainPop DEF Plain
  <2>5. WriteStep(s)
    BY <2>1, <2>2, <2>3, <2>4 DEF WriteStep
  <2>6. QED
    BY <2>5, WriteKeeps
<1>4. CASE SetReturn
  <2>1. ~Idle /\ Top.kind = "equal" /\ Pop /\ ~panicking
    BY <1>4 DEF SetReturn, OnTop
  <2>2. PICK s \in Signals : s = Top.node
    BY <1>2, <2>1 DEF Shape, StackInv, IsStack, FrameFits
  <2>3. CASE UNCHANGED <<value, version, state, seen, lost, behind, torn>>
    BY <2>1, <2>3, PopIsQuiet, QuietKeeps
  <2>4. CASE value' = [value EXCEPT ![s] = Top.val] /\ Trigger(s) /\ UNCHANGED panicking
    <3>1. \A n : n # s /\ Unsure(n) => Unsure(n)'
      BY <2>1, <2>4, PopMutated DEF Unsure, Trigger
    <3>2. SameRefreshes
      BY <2>1, PlainPop DEF Plain
    <3>3. \A n \in Nodes : n # s => value'[n] = value[n]
      BY <2>4 DEF Shape, CellTypes
    <3>4. WriteStep(s)
      BY <2>4, <3>1, <3>2, <3>3 DEF WriteStep
    <3>5. QED
      BY <3>4, WriteKeeps
  <2>5. QED
    BY <1>4, <2>2, <2>3, <2>4 DEF SetReturn
<1>5. QED
  BY <1>1, <1>3, <1>4

LEMMA AskRest ==
  ASSUME Shape, Shape', Rest, RefreshWanted
  PROVE  Rest'
<1>1. CASE Panics
  BY <1>1, PanicsIsQuiet, QuietKeeps
<1>2. CASE ~Panics
  <2>1. PICK d : d = Wanted
    OBVIOUS
  <2>2. /\ ~panicking /\ ~Idle /\ d \in Computed /\ state[d] # "Clean" /\ ~Active(d)
        /\ Refresh(d) /\ UNCHANGED <<value, version, panicking, torn>>
    BY <1>2, <2>1 DEF RefreshWanted, Asks, OnTop, Current
  <2>3. RefreshStep(d)
    BY <2>2 DEF RefreshStep
  <2>4. QED
    BY <2>2, <2>3, RefreshKeeps
<1>3. QED
  BY <1>1, <1>2

LEMMA LendRest ==
  ASSUME Shape, Shape', Rest, Lend
  PROVE  Rest'
<1>1. /\ ~Idle /\ Top.kind = "read"
      /\ UNCHANGED <<value, version, state, seen, panicking, lost, behind, torn>>
  BY DEF Lend, Ready, OnTop
<1>2. PICK f : f = Frame("with", Top.node, None)
  OBVIOUS
<1>3. FrameFits(f) /\ f.kind = "with" /\ Retop(f)
  BY <1>2 DEF Lend, Frame, FrameFits, Refreshes, Plain
<1>4. SameRefreshes
  BY <1>1, <1>3, PlainSwap DEF Plain
<1>5. \A n : Unsure(n) => Unsure(n)'
  BY <1>1, <1>3, SwapMutated DEF Unsure
<1>6. QuietStep
  BY <1>1, <1>4, <1>5 DEF QuietStep
<1>7. QED
  BY <1>6, QuietKeeps

LEMMA InnerRest ==
  ASSUME Shape, Shape', Rest, Compute \/ Verified
  PROVE  Rest'
<1>1. CASE Panics
  BY <1>1, PanicsIsQuiet, QuietKeeps
<1>2. ~Idle /\ Top.kind \in Refreshes
  BY DEF Compute, Verified, Ready, OnTop, Refreshes
<1>3. PICK c \in Computed : c = Top.node
  BY <1>2, TopComputed DEF Shape
<1>4. CASE Compute /\ ~Panics
  <2>1. ComputeStep(c)
    BY <1>3, <1>4 DEF Compute, Ready, ComputeStep
  <2>2. QED
    BY <2>1, ComputeKeeps
<1>5. CASE Verified /\ ~Panics
  <2>1. SameStep(c) \/ ChangedStep(c)
    BY <1>3, <1>5 DEF Verified, Ready, SameStep, ChangedStep
  <2>2. QED
    BY <2>1, SameKeeps, ChangedKeeps
<1>6. QED
  BY <1>1, <1>4, <1>5

LEMMA EndRest ==
  ASSUME Shape, Shape', Rest, PanicHasFrame, Settle \/ Unwind \/ Panic
  PROVE  Rest'
<1>1. CASE Panics
  BY <1>1, PanicsIsQuiet, QuietKeeps
<1>2. CASE Settle /\ ~Panics
  <2>1. PICK c \in Computed : c = Top.node
    BY <1>2, TopComputed DEF Settle, OnTop, Shape, Refreshes
  <2>2. StoreStep(c)
    BY <1>2, <2>1 DEF Settle, StoreStep
  <2>3. QED
    BY <2>2, StoreKeeps
<1>3. CASE Unwind
  <2>1. panicking /\ ~Idle /\ Pop
    BY <1>3 DEF Unwind, PanicHasFrame
  <2>2. CASE Top.kind \in Refreshes
    <3>1. PICK c \in Computed : c = Top.node
      BY <2>1, <2>2, TopComputed DEF Shape
    <3>2. UnwindStep(c)
      BY <1>3, <2>1, <2>2, <3>1 DEF UnwindStep
    <3>3. QED
      BY <3>2, UnwindKeeps
  <2>3. CASE Top.kind \notin Refreshes
    <3>1. Len(stack) \in DOMAIN stack /\ Top = stack[Len(stack)]
      BY <2>1, TopIs DEF Shape, StackInv, Idle
    <3>2. Top.kind \in Plain
      BY <2>3, <3>1 DEF Shape, StackInv, IsStack, FrameFits
    <3>3. /\ UNCHANGED <<value, version, state, seen, lost, behind>>
          /\ torn' = IF Top.kind = "update" THEN torn \cup {Top.node} ELSE torn
          /\ panicking' = (Len(stack) > 1)
      BY <1>3, <2>1, <2>3 DEF Unwind, OnTop, Refreshes
    <3>4. SameRefreshes
      BY <2>1, <3>2, PlainPop
    <3>5. \A n : Unsure(n) => Unsure(n)'
      BY <2>1, <3>3, PopMutated DEF Unsure
    <3>6. ~panicking' => stack' = <<>>
      BY <2>1, <3>3, LastUnwound
    <3>7. QuietStep
      BY <3>3, <3>4, <3>5, <3>6 DEF QuietStep
    <3>8. QED
      BY <3>7, QuietKeeps
  <2>4. QED
    BY <2>2, <2>3
<1>4. QED
  BY <1>1, <1>2, <1>3 DEF Panic

LEMMA RestStep ==
  ASSUME Shape, Shape', Rest, PanicHasFrame, [Next]_vars
  PROVE  Rest'
<1>1. CASE UNCHANGED vars
  <2>1. QuietStep
    BY <1>1 DEF vars, QuietStep, SameRefreshes, Unsure, Mutated
  <2>2. QED
    BY <2>1, QuietKeeps
<1>2. ASSUME NEW s \in Signals, NEW v \in Values, Replace(s, v) \/ Set(s, v) PROVE Rest'
  BY <1>2, WriteRest
<1>3. ASSUME NEW s \in Signals, Update(s) PROVE Rest'
  BY <1>3, PushRest
<1>4. ASSUME NEW v \in Values, Mutate(v) PROVE Rest'
  BY <1>4, MutateRest
<1>5. CASE RefreshWanted \/ Lend
  BY <1>5, AskRest, LendRest
<1>6. ASSUME NEW n \in Nodes, With(n) PROVE Rest'
  BY <1>6, PushRest
<1>7. CASE SetReturn \/ UpdateReturn \/ WithReturn
  BY <1>7, ReturnRest
<1>8. CASE Compute \/ Verified
  BY <1>8, InnerRest
<1>9. CASE Settle \/ Unwind \/ Panic
  BY <1>9, EndRest
<1>10. QED
  BY <1>1, <1>2, <1>3, <1>4, <1>5, <1>6, <1>7, <1>8, <1>9 DEF Next

-----------------------------------------------------------------------------
(* Every reachable state.                                                  *)

Inv == Shape /\ PanicHasFrame /\ Rest

LEMMA CellsInit ==
  ASSUME Init
  PROVE  Inv
<1>1. /\ stack = <<>> /\ panicking = FALSE /\ lost = {} /\ behind = {} /\ torn = {}
      /\ version = [n \in Nodes |-> 0]
      /\ state = [c \in Computed |-> "Dirty"]
      /\ seen = [c \in Computed |-> None]
  BY DEF Init
<1>2. DOMAIN stack = {} /\ Len(stack) = 0
  BY <1>1
<1>3. DOMAIN value = Nodes /\ \A s \in Signals : value[s] \in Values
  <2>1. PICK v \in [Signals -> Values] : value = [n \in Nodes |-> IF n \in Signals THEN v[n] ELSE None]
    BY DEF Init
  <2>2. QED
    BY <2>1 DEF Nodes
<1>4. CellTypes
  BY <1>1, <1>3 DEF CellTypes
<1>5. stack \in Seq({})
  BY <1>1
<1>6. StackInv(stack)
  BY <1>2, <1>5 DEF StackInv, IsStack, Chained, MemosCompare, ComputesLast
<1>7. EdgeInv /\ SeenInv /\ CleanInv
  BY <1>1, <1>2 DEF EdgeInv, SeenInv, CleanInv
<1>8. FramesInv
  BY <1>2 DEF FramesInv, VerifyInv, SettleInv
<1>9. ValueInv
  BY <1>1 DEF ValueInv, ReadLast
<1>10. QED
  BY <1>1, <1>4, <1>6, <1>7, <1>8, <1>9 DEF Inv, Shape, Rest, PanicHasFrame

LEMMA CellsStep ==
  ASSUME Inv, [Next]_vars
  PROVE  Inv'
<1>1. Shape'
  BY ShapeStep DEF Inv, Rest
<1>2. QED
  BY <1>1, PanicHasFrameStep, RestStep DEF Inv

(* The inductive invariant holds: the call stack, the edges and the values  *)
(* are as the refreshes in progress need them to be.                       *)
THEOREM CellsInvariant == Spec => []Inv
<1>1. Init => Inv
  BY CellsInit
<1>2. Inv /\ [Next]_vars => Inv'
  BY CellsStep
<1>3. QED
  BY <1>1, <1>2, PTL DEF Spec

-----------------------------------------------------------------------------
(* What is true is what the closures make of the signals. *)
LEMMA TruthIs ==
  ASSUME CellTypes, Computed # {}
  PROVE  /\ \A s \in Signals : Truth[s] = value[s]
         /\ \A c \in Computed : Truth[c] = Fun[c][Truth[Input[c]]]
<1> DEFINE base == [s \in Signals |-> value[s]]
           Tr(f) == [n \in Nodes |-> IF n \in Signals THEN value[n] ELSE Fun[n][f[Input[n]]]]
<1>1. Values # {}
  <2>1. PICK c \in Computed : Input[c] \notin Computed /\ Input[c] \in Nodes
    BY Lowest
  <2>2. Input[c] \in Signals
    BY <2>1, Kinds
  <2>3. QED
    BY <2>2 DEF CellTypes
<1>2. base \in [Signals -> Values] /\ Fun \in [Computed -> [Values -> Values]]
  BY CellsAssumption DEF CellTypes
<1>3. PICK f \in [Nodes -> Values] :
        \A n \in Nodes : f[n] = IF n \in Signals THEN base[n] ELSE Fun[n][f[Input[n]]]
  <2> PICK b : b = base
    OBVIOUS
  <2>1. b \in [Signals -> Values]
    BY <1>2
  <2>2. Defined(Values, b, Fun)
    BY <1>1, <1>2, <2>1, Recursion
  <2> HIDE DEF base
  <2>3. QED
    BY <2>2 DEF Defined
<1>4. \A n \in Nodes : f[n] = IF n \in Signals THEN value[n] ELSE Fun[n][f[Input[n]]]
  BY <1>3
<1>5. f = Tr(f)
  BY <1>3, <1>4
<1>6. Truth = CHOOSE g : g = Tr(g)
  BY DEF Truth
<1>7. Truth = Tr(Truth)
  <2> HIDE DEF Tr
  <2>1. QED
    BY <1>5, <1>6
<1>8. \A n \in Nodes : Truth[n] = IF n \in Signals THEN value[n] ELSE Fun[n][Truth[Input[n]]]
  BY <1>7
<1>9. \A s \in Signals : Truth[s] = value[s]
  BY <1>8 DEF Nodes
<1>10. ASSUME NEW c \in Computed PROVE Truth[c] = Fun[c][Truth[Input[c]]]
  <2>1. c \in Nodes /\ c \notin Signals
    BY Kinds DEF Nodes
  <2>2. QED
    BY <1>8, <2>1
<1>11. QED
  BY <1>9, <1>10

(* A node that is clean and at rest, made of nothing torn, lost or behind.  *)
AtRest(c) ==
  /\ state[c] = "Clean" /\ ~Settling(c)
  /\ Upstream[c] \cap (lost \cup behind \cup torn) = {}
  /\ \A s \in Signals : Mutated(s) => s \notin Upstream[c]

(* It has read what its input still is, and its input is at rest too.       *)
LEMMA AtRestBelow ==
  ASSUME Shape, Rest, NEW c \in Computed, AtRest(c)
  PROVE  /\ value[c] = Fun[c][value[Input[c]]]
         /\ Input[c] \in Computed => AtRest(Input[c])
<1>1. PICK m \in Nodes : m = Input[c]
  BY InputBelow
<1>2. c \in Upstream[c] /\ m \in Upstream[c] /\ Upstream[m] \subseteq Upstream[c]
  <2>1. Upstream[c] = {c} \cup Upstream[m]
    BY <1>1, InputBelow
  <2>2. m \in Upstream[m]
    BY UpstreamSelf
  <2>3. QED
    BY <2>1, <2>2
<1>3. c \notin lost \cup behind /\ ~Settling(c) /\ ~Active(c) /\ ~Excused(c)
  BY <1>2 DEF AtRest, Settling, Active, Excused, Computing
<1>4. seen[c] # None
  BY <1>3 DEF AtRest, Rest, EdgeInv
<1>5. Settled(m) /\ seen[c] = version[m]
  BY <1>1, <1>3, <1>4 DEF AtRest, Rest, CleanInv
<1>6. ~Unsure(m)
  BY <1>2 DEF AtRest, Unsure
<1>7. value[c] = Fun[c][value[m]]
  BY <1>1, <1>3, <1>4, <1>5, <1>6 DEF Rest, ValueInv, ReadLast
<1>8. ASSUME m \in Computed PROVE AtRest(m)
  BY <1>2, <1>5, <1>8 DEF AtRest, Settled, Busy, Settling, Computing, Refreshes
<1>9. QED
  BY <1>1, <1>7, <1>8

(* A cell that is clean and at rest holds what its closure makes of what is *)
(* now true further up, however long the way up is: the only exceptions are *)
(* the ones CleanIsCurrent names.                                          *)
THEOREM CleanIsCurrentCorrect == Spec => []CleanIsCurrent
<1>1. ASSUME Inv PROVE CleanIsCurrent
  <2> DEFINE C == {c \in Computed : AtRest(c) /\ value[c] # Truth[c]}
  <2>1. ASSUME C # {} PROVE FALSE
    <3>1. PICK c \in C : Input[c] \notin C /\ Input[c] \in Nodes
      BY <2>1, Lowest
    <3>2. /\ value[c] = Fun[c][value[Input[c]]]
          /\ Input[c] \in Computed => AtRest(Input[c])
      BY <1>1, <3>1, AtRestBelow DEF Inv
    <3>3. /\ \A s \in Signals : Truth[s] = value[s]
          /\ Truth[c] = Fun[c][Truth[Input[c]]]
      BY <1>1, <3>1, TruthIs DEF Inv, Shape
    <3>4. value[Input[c]] = Truth[Input[c]]
      BY <3>1, <3>2, <3>3, Kinds
    <3>5. QED
      BY <3>1, <3>2, <3>3, <3>4
  <2>2. SUFFICES ASSUME NEW c \in Computed, state[c] = "Clean",
                        \A i \in DOMAIN stack :
                          stack[i].kind \in {"compute", "settle"} => stack[i].node # c,
                        Upstream[c] \cap (lost \cup behind \cup torn) = {},
                        \A s \in Signals : Mutated(s) => s \notin Upstream[c]
                 PROVE  value[c] = Truth[c]
    BY DEF CleanIsCurrent
  <2>3. AtRest(c)
    BY <2>2 DEF AtRest, Settling, Computing
  <2>4. QED
    BY <2>1, <2>3
<1>2. QED
  BY <1>1, CellsInvariant, PTL
=============================================================================
