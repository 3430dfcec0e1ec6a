----------------------------- MODULE ListFacts ------------------------------
(***************************************************************************)
(* Facts that the proofs share: about lists of distinct members, which is  *)
(* how the models write the code's linked lists, and induction over the    *)
(* natural numbers. The induction theorems of the library take a predicate *)
(* as their parameter; SetInduction takes the set of the numbers it holds  *)
(* for, which the provers can instantiate.                                 *)
(***************************************************************************)
EXTENDS Integers, SequencesExt, SequenceTheorems, WellFoundedInduction,
        FiniteSetTheorems, TLAPS

\* A set of natural numbers that has 0 and the successor of each of its members
\* has them all.
LEMMA SetInduction ==
    ASSUME NEW T, T \subseteq Nat, 0 \in T, \A n \in T : n + 1 \in T
    PROVE  T = Nat
<1> DEFINE less == OpToRel(<, Nat)
<1> DEFINE out == Nat \ T
<1>1. SUFFICES ASSUME out # {} PROVE FALSE
  OBVIOUS
<1>2. IsWellFoundedOn(less, Nat)
  BY NatLessThanWellFounded
<1>3. \A x, y \in Nat : <<x, y>> \in less <=> x < y
  BY DEF OpToRel
<1> HIDE DEF less
<1>4. \E x \in out : \A y \in out : ~(<<y, x>> \in less)
  BY <1>1, <1>2, WFMin
<1>5. PICK x \in out : \A y \in out : ~(<<y, x>> \in less)
  BY <1>4
<1>6. x # 0 /\ x - 1 \in Nat
  OBVIOUS
<1>7. <<x - 1, x>> \in less
  BY <1>3, <1>6
<1> QED
  BY <1>5, <1>6, <1>7

\* f is defined on an interval from its value before: G[k] is the step from k - 1
\* to k.
RecursiveOn(f, X, x0, n, G) ==
    f \in [0 .. n -> X] /\ f[0] = x0 /\ \A k \in 1 .. n : f[k] = G[k][f[k - 1]]

\* There is such a function.
LEMMA RecursionOnInterval ==
    ASSUME NEW X, NEW x0 \in X, NEW n \in Nat, NEW G \in [1 .. n -> [X -> X]]
    PROVE  \E f : RecursiveOn(f, X, x0, n, G)
<1> DEFINE Is(m, f) == /\ f \in [0 .. m -> X] /\ f[0] = x0
                       /\ \A k \in 1 .. m : f[k] = G[k][f[k - 1]]
           U == {m \in Nat : m <= n => \E f : Is(m, f)}
<1>1. 0 \in U
  <2>1. Is(0, [k \in 0 .. 0 |-> x0])
    OBVIOUS
  <2> QED BY <2>1
<1>2. ASSUME NEW m \in U PROVE m + 1 \in U
  <2>0. m \in Nat /\ m + 1 \in Nat
    OBVIOUS
  <2> SUFFICES ASSUME m + 1 <= n PROVE \E f : Is(m + 1, f)
    <3> HIDE DEF Is
    <3> QED BY <2>0
  <2>1. PICK f : Is(m, f)
    OBVIOUS
  <2> DEFINE g == [k \in 0 .. m + 1 |-> IF k <= m THEN f[k] ELSE G[m + 1][f[m]]]
  <2>2. m \in Nat /\ m + 1 \in 1 .. n /\ f[m] \in X /\ G[m + 1] \in [X -> X]
    BY <2>1
  <2>3. G[m + 1][f[m]] \in X
    BY <2>2
  <2>4. g \in [0 .. m + 1 -> X] /\ g[0] = x0
    BY <2>1, <2>2, <2>3
  <2>5. ASSUME NEW k \in 1 .. m + 1 PROVE g[k] = G[k][g[k - 1]]
    <3>1. CASE k <= m
      <4>1. k \in 1 .. m /\ g[k] = f[k] /\ g[k - 1] = f[k - 1]
        BY <2>2, <3>1
      <4> QED BY <2>1, <4>1
    <3>2. CASE k = m + 1
      <4>1. g[k] = G[m + 1][f[m]] /\ g[k - 1] = f[m]
        BY <2>2, <3>2
      <4> QED BY <3>2, <4>1
    <3> QED BY <2>2, <3>1, <3>2
  <2> QED BY <2>4, <2>5
<1> HIDE DEF U
<1>3. U = Nat
  <2>1. U \subseteq Nat
    BY DEF U
  <2> QED BY <1>1, <1>2, <2>1, SetInduction
<1> QED BY <1>3 DEF U, RecursiveOn

\* A function on an interval that starts at 1 is a sequence.
LEMMA IntervalSeq ==
    ASSUME NEW S, NEW m \in Nat, NEW f \in [1..m -> S]
    PROVE  f \in Seq(S) /\ Len(f) = m
  OBVIOUS

\* A sequence over a set is one over every larger set.
LEMMA LargerSeq ==
    ASSUME NEW S, NEW T, S \subseteq T, NEW s \in Seq(S)
    PROVE  s \in Seq(T)
  OBVIOUS

\* dlist_push_head and the push on a free list: a new member comes first.
LEMMA PushFacts ==
    ASSUME NEW S, NEW s \in Seq(S), NEW c \in S
    PROVE  /\ <<c>> \o s \in Seq(S)
           /\ Len(<<c>> \o s) = Len(s) + 1
           /\ ToSet(<<c>> \o s) = ToSet(s) \cup {c}
           /\ IsInjective(s) /\ c \notin ToSet(s) => IsInjective(<<c>> \o s)
<1> DEFINE t == <<c>> \o s
<1>1. t \in Seq(S) /\ Len(t) = Len(s) + 1
  OBVIOUS
<1>2. t[1] = c /\ \A i \in 1 .. Len(s) : t[i + 1] = s[i]
  OBVIOUS
<1>3. \A i \in 1 .. Len(t) : i = 1 \/ (i - 1 \in 1 .. Len(s) /\ t[i] = s[i - 1])
  OBVIOUS
<1>4. DOMAIN t = 1 .. Len(s) + 1 /\ DOMAIN s = 1 .. Len(s)
  BY <1>1
<1> HIDE DEF t
<1>5. ToSet(t) = ToSet(s) \cup {c}
  <2>1. ToSet(t) \subseteq ToSet(s) \cup {c}
    BY <1>1, <1>2, <1>3, <1>4 DEF ToSet
  <2>2. c \in ToSet(t)
    BY <1>1, <1>2, <1>4 DEF ToSet
  <2>3. ASSUME NEW x \in ToSet(s) PROVE x \in ToSet(t)
    <3>1. PICK i \in 1 .. Len(s) : s[i] = x
      BY <1>4 DEF ToSet
    <3>2. i + 1 \in DOMAIN t /\ t[i + 1] = x
      BY <1>2, <1>4, <3>1
    <3> QED BY <3>2 DEF ToSet
  <2> QED BY <2>1, <2>2, <2>3
<1>6. ASSUME IsInjective(s), c \notin ToSet(s) PROVE IsInjective(t)
  <2> SUFFICES ASSUME NEW i \in 1 .. Len(t), NEW j \in 1 .. Len(t), t[i] = t[j], i < j
               PROVE  FALSE
    BY <1>1, <1>4 DEF IsInjective
  <2>1. j - 1 \in 1 .. Len(s) /\ t[j] = s[j - 1]
    BY <1>3
  <2>2. i # 1
    BY <1>2, <1>4, <1>6, <2>1 DEF ToSet
  <2>3. i - 1 \in 1 .. Len(s) /\ t[i] = s[i - 1]
    BY <1>3, <2>2
  <2> QED BY <1>4, <1>6, <2>1, <2>3 DEF IsInjective
<1> QED
  BY <1>1, <1>5, <1>6 DEF t

\* The pop from a free list.
LEMMA PopFacts ==
    ASSUME NEW S, NEW s \in Seq(S), s # <<>>
    PROVE  /\ Head(s) \in S /\ Head(s) \in ToSet(s)
           /\ Tail(s) \in Seq(S)
           /\ Len(Tail(s)) = Len(s) - 1
           /\ IsInjective(s) => IsInjective(Tail(s)) /\ ToSet(Tail(s)) = ToSet(s) \ {Head(s)}
<1> DEFINE t == Tail(s)
<1>1. t \in Seq(S) /\ Len(t) = Len(s) - 1 /\ Len(s) > 0 /\ Head(s) = s[1] /\ Head(s) \in S
  OBVIOUS
<1>2. \A i \in 1 .. Len(t) : t[i] = s[i + 1]
  OBVIOUS
<1>3. DOMAIN t = 1 .. Len(t) /\ DOMAIN s = 1 .. Len(s)
  BY <1>1
<1> HIDE DEF t
<1>4. Head(s) \in ToSet(s)
  BY <1>1, <1>3 DEF ToSet
<1>5. ASSUME IsInjective(s) PROVE IsInjective(t) /\ ToSet(t) = ToSet(s) \ {Head(s)}
  <2>1. IsInjective(t)
    <3> SUFFICES ASSUME NEW i \in 1 .. Len(t), NEW j \in 1 .. Len(t), t[i] = t[j]
                 PROVE  i = j
      BY <1>3, Zenon DEF IsInjective
    <3>1. i + 1 \in 1 .. Len(s) /\ j + 1 \in 1 .. Len(s)
      BY <1>1
    <3>2. s[i + 1] = s[j + 1]
      BY <1>2, Zenon
    <3>3. i + 1 = j + 1
      BY <1>3, <1>5, <3>1, <3>2, Zenon DEF IsInjective
    <3> QED BY <3>3
  <2>2. ToSet(t) \subseteq ToSet(s) \ {Head(s)}
    BY <1>1, <1>2, <1>3, <1>5 DEF IsInjective, ToSet
  <2>3. ASSUME NEW x \in ToSet(s) \ {Head(s)} PROVE x \in ToSet(t)
    <3>1. PICK i \in 1 .. Len(s) : s[i] = x /\ i # 1
      BY <1>1, <1>3 DEF ToSet
    <3>2. i - 1 \in 1 .. Len(t) /\ t[i - 1] = x
      BY <1>1, <1>2, <3>1
    <3> QED BY <1>3, <3>2 DEF ToSet
  <2> QED BY <2>1, <2>2, <2>3
<1> QED
  BY <1>1, <1>4, <1>5 DEF t

\* dlist_delete: the rest of the list keeps its order.
LEMMA RemoveIndex ==
    ASSUME NEW S, NEW s \in Seq(S), NEW i \in 1 .. Len(s)
    PROVE  /\ RemoveAt(s, i) \in Seq(S)
           /\ Len(RemoveAt(s, i)) = Len(s) - 1
           /\ \A j \in 1 .. Len(s) - 1 : RemoveAt(s, i)[j] = IF j < i THEN s[j] ELSE s[j + 1]
<1> DEFINE a == SubSeq(s, 1, i - 1)
           b == SubSeq(s, i + 1, Len(s))
           t == a \o b
<1>1. DOMAIN s = 1 .. Len(s) /\ i \in 1 .. Len(s)
  OBVIOUS
<1>2. a \in Seq(S) /\ Len(a) = i - 1 /\ \A j \in 1 .. i - 1 : a[j] = s[j]
  BY <1>1
<1>3. b \in Seq(S) /\ Len(b) = Len(s) - i /\ \A j \in 1 .. Len(s) - i : b[j] = s[j + i]
  BY <1>1
<1> HIDE DEF a, b
<1>0. /\ t \in Seq(S) /\ Len(t) = Len(a) + Len(b)
      /\ \A j \in 1 .. Len(a) + Len(b) : t[j] = IF j <= Len(a) THEN a[j] ELSE b[j - Len(a)]
  BY <1>2, <1>3, ConcatProperties
<1> HIDE DEF t
<1>4. t \in Seq(S) /\ Len(t) = Len(s) - 1 /\ DOMAIN t = 1 .. Len(s) - 1
  BY <1>1, <1>2, <1>3, <1>0
<1>5. \A j \in 1 .. Len(s) - 1 : t[j] = IF j < i THEN s[j] ELSE s[j + 1]
  <2> SUFFICES ASSUME NEW j \in 1 .. Len(s) - 1
               PROVE  t[j] = IF j < i THEN s[j] ELSE s[j + 1]
    OBVIOUS
  <2>1. CASE j < i
    <3>1. j \in 1 .. Len(a) + Len(b) /\ j <= Len(a) /\ j \in 1 .. i - 1
      BY <1>1, <1>2, <1>3, <2>1
    <3>2. t[j] = a[j]
      BY <1>0, <3>1
    <3> QED BY <1>2, <2>1, <3>1, <3>2
  <2>2. CASE j >= i
    <3>1. j \in 1 .. Len(a) + Len(b) /\ ~(j <= Len(a)) /\ j - Len(a) = j - i + 1
      BY <1>1, <1>2, <1>3, <2>2
    <3>2. j - i + 1 \in 1 .. Len(s) - i /\ (j - i + 1) + i = j + 1
      BY <1>1, <2>2
    <3>3. t[j] = b[j - i + 1]
      BY <1>0, <3>1
    <3>4. b[j - i + 1] = s[j + 1]
      BY <1>3, <3>2
    <3> QED BY <2>2, <3>3, <3>4
  <2> QED BY <1>1, <2>1, <2>2
<1> QED
  BY <1>4, <1>5 DEF RemoveAt, t, a, b

\* A new element at place k.
LEMMA InsertIndex ==
    ASSUME NEW S, NEW s \in Seq(S), NEW x \in S, NEW k \in 1 .. Len(s) + 1
    PROVE  /\ InsertAt(s, k, x) \in Seq(S)
           /\ Len(InsertAt(s, k, x)) = Len(s) + 1
           /\ \A j \in 1 .. Len(s) + 1 :
                 InsertAt(s, k, x)[j] = IF j < k THEN s[j] ELSE IF j = k THEN x ELSE s[j - 1]
<1> DEFINE n == Len(s)
           a == SubSeq(s, 1, k - 1)
           b == SubSeq(s, k, n)
           c == a \o <<x>>
           t == c \o b
<1>1. n \in Nat /\ k \in Int /\ k >= 1 /\ k <= n + 1 /\ DOMAIN s = 1 .. n
  OBVIOUS
<1>2. a \in Seq(S) /\ Len(a) = k - 1 /\ \A j \in 1 .. k - 1 : a[j] = s[j]
  BY <1>1
<1>3. b \in Seq(S) /\ Len(b) = n - k + 1 /\ \A j \in 1 .. n - k + 1 : b[j] = s[j + k - 1]
  BY <1>1
<1> HIDE DEF a, b
<1>4. c \in Seq(S) /\ Len(c) = k /\ c[k] = x /\ \A j \in 1 .. k - 1 : c[j] = s[j]
  <2> DEFINE e == Append(a, x)
  <2>1. /\ e \in Seq(S) /\ Len(e) = Len(a) + 1 /\ e[Len(a) + 1] = x
        /\ \A j \in 1 .. Len(a) : e[j] = a[j]
    BY <1>2, AppendProperties
  <2>2. c = e
    BY <1>2
  <2> HIDE DEF c, e
  <2> QED BY <1>1, <1>2, <2>1, <2>2
<1> HIDE DEF c
<1>5. /\ t \in Seq(S) /\ Len(t) = Len(c) + Len(b)
      /\ \A j \in 1 .. Len(c) + Len(b) : t[j] = IF j <= Len(c) THEN c[j] ELSE b[j - Len(c)]
  BY <1>3, <1>4, ConcatProperties
<1> HIDE DEF t
<1>6. t \in Seq(S) /\ Len(t) = n + 1
  BY <1>1, <1>3, <1>4, <1>5
<1>7. ASSUME NEW j \in 1 .. n + 1
      PROVE  t[j] = IF j < k THEN s[j] ELSE IF j = k THEN x ELSE s[j - 1]
  <2>0. t[j] = IF j <= k THEN c[j] ELSE b[j - k]
    BY <1>1, <1>3, <1>4, <1>5
  <2>1. CASE j < k
    BY <1>1, <1>4, <2>0, <2>1
  <2>2. CASE j = k
    BY <1>1, <1>4, <2>0, <2>2
  <2>3. CASE j > k
    <3>1. j - k \in 1 .. n - k + 1 /\ (j - k) + k - 1 = j - 1
      BY <1>1, <2>3
    <3>2. b[j - k] = s[j - 1]
      BY <1>3, <3>1
    <3> QED BY <1>1, <2>0, <2>3, <3>2
  <2> QED BY <1>1, <2>1, <2>2, <2>3
<1> QED BY <1>6, <1>7 DEF InsertAt, t, c, a, b

LEMMA RemoveFacts ==
    ASSUME NEW S, NEW s \in Seq(S), NEW i \in DOMAIN s
    PROVE  /\ RemoveAt(s, i) \in Seq(S)
           /\ IsInjective(s) =>
                 IsInjective(RemoveAt(s, i)) /\ ToSet(RemoveAt(s, i)) = ToSet(s) \ {s[i]}
<1> DEFINE t == RemoveAt(s, i)
<1>1. DOMAIN s = 1 .. Len(s) /\ i \in 1 .. Len(s)
  OBVIOUS
<1>2. t \in Seq(S) /\ Len(t) = Len(s) - 1
  BY <1>1, RemoveIndex
<1>5. \A j \in 1 .. Len(s) - 1 : t[j] = IF j < i THEN s[j] ELSE s[j + 1]
  BY <1>1, RemoveIndex
<1> HIDE DEF t
<1>4. t \in Seq(S) /\ Len(t) = Len(s) - 1 /\ DOMAIN t = 1 .. Len(s) - 1
  BY <1>2
<1>6. ASSUME IsInjective(s) PROVE IsInjective(t) /\ ToSet(t) = ToSet(s) \ {s[i]}
  <2> DEFINE old(j) == IF j < i THEN j ELSE j + 1
  <2>0. \A j \in 1 .. Len(s) - 1 : old(j) \in 1 .. Len(s) \ {i} /\ t[j] = s[old(j)]
    BY <1>1, <1>5
  <2>1. IsInjective(t)
    <3> SUFFICES ASSUME NEW j \in 1 .. Len(s) - 1, NEW k \in 1 .. Len(s) - 1, t[j] = t[k]
                 PROVE  j = k
      BY <1>4 DEF IsInjective
    <3>1. old(j) = old(k)
      BY <1>1, <1>6, <2>0 DEF IsInjective
    <3> QED BY <3>1
  <2>2. ToSet(t) \subseteq ToSet(s) \ {s[i]}
    <3> SUFFICES ASSUME NEW j \in 1 .. Len(s) - 1 PROVE t[j] \in ToSet(s) \ {s[i]}
      BY <1>4 DEF ToSet
    <3>1. old(j) \in DOMAIN s /\ old(j) # i /\ t[j] = s[old(j)]
      BY <1>1, <2>0
    <3> HIDE DEF old
    <3> QED BY <1>1, <1>6, <3>1 DEF IsInjective, ToSet
  <2>3. ASSUME NEW x \in ToSet(s) \ {s[i]} PROVE x \in ToSet(t)
    <3>1. PICK j \in 1 .. Len(s) : s[j] = x /\ j # i
      BY <1>1 DEF ToSet
    <3>2. CASE j < i
      BY <1>1, <1>4, <1>5, <3>1, <3>2 DEF ToSet
    <3>3. CASE j > i
      <4>1. j - 1 \in 1 .. Len(s) - 1 /\ t[j - 1] = x
        BY <1>1, <1>5, <3>1, <3>3
      <4> QED BY <1>4, <4>1 DEF ToSet
    <3> QED BY <3>1, <3>2, <3>3
  <2> QED BY <2>1, <2>2, <2>3
<1> QED
  BY <1>4, <1>6 DEF t

\* What is left of a free list when its first m members are taken.
LEMMA DropFacts ==
    ASSUME NEW S, NEW s \in Seq(S), NEW m \in 0..Len(s)
    PROVE  LET t == SubSeq(s, m + 1, Len(s)) IN
           /\ t \in Seq(S) /\ Len(t) = Len(s) - m
           /\ IsInjective(s) =>
                 /\ IsInjective(t)
                 /\ \A x : x \in ToSet(t) <=> x \in ToSet(s) /\ ~\E k \in 1..m : s[k] = x
<1> DEFINE t == SubSeq(s, m + 1, Len(s))
<1>1. /\ t \in Seq(S) /\ Len(t) = Len(s) - m
      /\ \A i \in 1..(Len(s) - m) : t[i] = s[m + i]
  OBVIOUS
<1>2. DOMAIN t = 1..(Len(s) - m) /\ DOMAIN s = 1..Len(s) /\ Len(s) \in Nat /\ m \in Nat
  BY <1>1
<1> HIDE DEF t
<1>3. ASSUME IsInjective(s)
      PROVE  /\ IsInjective(t)
             /\ \A x : x \in ToSet(t) <=> x \in ToSet(s) /\ ~\E k \in 1..m : s[k] = x
  <2>1. IsInjective(t)
    <3> SUFFICES ASSUME NEW i \in 1..(Len(s) - m), NEW j \in 1..(Len(s) - m), t[i] = t[j]
                 PROVE  i = j
      BY <1>2 DEF IsInjective
    <3>1. m + i \in 1..Len(s) /\ m + j \in 1..Len(s)
      BY <1>2
    <3>2. s[m + i] = s[m + j]
      BY <1>1
    <3>3. m + i = m + j
      BY <1>2, <1>3, <3>1, <3>2 DEF IsInjective
    <3> QED BY <1>2, <3>3
  <2>2. ASSUME NEW x \in ToSet(t) PROVE x \in ToSet(s) /\ ~\E k \in 1..m : s[k] = x
    <3>1. PICK i \in 1..(Len(s) - m) : t[i] = x
      BY <1>2 DEF ToSet
    <3>2. m + i \in 1..Len(s) /\ s[m + i] = x
      BY <1>1, <1>2, <3>1
    <3>3. \A k \in 1..m : k \in 1..Len(s) /\ k # m + i
      BY <1>2
    <3> QED BY <1>2, <1>3, <3>2, <3>3 DEF IsInjective, ToSet
  <2>3. ASSUME NEW x \in ToSet(s), ~\E k \in 1..m : s[k] = x PROVE x \in ToSet(t)
    <3>1. PICK i \in 1..Len(s) : s[i] = x
      BY <1>2 DEF ToSet
    <3>2. i - m \in 1..(Len(s) - m) /\ t[i - m] = x
      <4>1. i > m
        BY <1>2, <2>3, <3>1
      <4>2. i - m \in 1..(Len(s) - m) /\ m + (i - m) = i
        BY <1>2, <4>1
      <4> QED BY <1>1, <3>1, <4>2
    <3> QED BY <1>2, <3>2 DEF ToSet
  <2> QED BY <2>1, <2>2, <2>3
<1> QED BY <1>1, <1>3 DEF t

\* SetToSeq lists every member of a finite set once.
LEMMA SetToSeqFacts ==
    ASSUME NEW S, IsFiniteSet(S)
    PROVE  /\ SetToSeq(S) \in Seq(S)
           /\ IsInjective(SetToSeq(S))
           /\ ToSet(SetToSeq(S)) = S
<1> DEFINE n == Cardinality(S)
           s == SetToSeq(S)
<1>1. n \in Nat /\ ExistsBijection(1..n, S)
  BY FS_CardinalityType
<1>2. \E f \in [1..n -> S] : IsInjective(f)
  BY <1>1 DEF ExistsBijection, Bijection, Injection
<1>3. s \in [1..n -> S] /\ IsInjective(s)
  BY <1>2 DEF SetToSeq
<1> HIDE DEF s
<1>4. s \in Seq(S) /\ DOMAIN s = 1..n
  BY <1>1, <1>3
<1>5. IsFiniteSet(1..n) /\ Cardinality(1..n) = n
  BY <1>1, FS_Interval
<1>6. s \in Injection(1..n, S)
  BY <1>3 DEF Injection
<1>7. s \in Surjection(1..n, S)
  BY <1>5, <1>6, FS_Injection
<1>8. ToSet(s) = S
  BY <1>3, <1>4, <1>7 DEF ToSet, Surjection
<1> QED BY <1>3, <1>4, <1>8 DEF s

\* The least of some natural numbers.
LEMMA MinFacts ==
    ASSUME NEW S, S \subseteq Nat, S # {}
    PROVE  Min(S) \in S /\ \A y \in S : Min(S) <= y
<1> DEFINE less == OpToRel(<, Nat)
<1>1. IsWellFoundedOn(less, Nat)
  BY NatLessThanWellFounded
<1>2. \A x, y \in Nat : <<x, y>> \in less <=> x < y
  BY DEF OpToRel
<1> HIDE DEF less
<1>3. \E x \in S : \A y \in S : ~(<<y, x>> \in less)
  BY <1>1, WFMin
<1>4. PICK x \in S : \A y \in S : ~(<<y, x>> \in less)
  BY <1>3
<1>5. \A y \in S : x \in Nat /\ y \in Nat /\ ~(y < x)
  BY <1>2, <1>4
<1>6. \A y \in S : x <= y
  BY <1>5
<1> QED BY <1>6 DEF Min

\* The greatest of some natural numbers that have a bound.
LEMMA MaxFacts ==
    ASSUME NEW S, S \subseteq Nat, S # {}, NEW m \in Nat, \A x \in S : x <= m
    PROVE  Max(S) \in S /\ \A y \in S : y <= Max(S)
<1> DEFINE D == {m - x : x \in S}
<1>0. \A x \in S : x \in Nat /\ x <= m /\ m - x \in Nat
  OBVIOUS
<1>1. D \subseteq Nat /\ D # {}
  BY <1>0
<1>2. Min(D) \in D /\ \A y \in D : Min(D) <= y
  BY <1>1, MinFacts
<1>3. PICK x \in S : Min(D) = m - x
  BY <1>2
<1>4. \A y \in S : x >= y
  <2> HIDE DEF D
  <2> SUFFICES ASSUME NEW y \in S PROVE x >= y
    OBVIOUS
  <2>1. m - y \in D
    BY DEF D
  <2>2. m - x <= m - y
    BY <1>2, <1>3, <2>1
  <2> QED BY <1>0, <2>2
<1>5. \E z \in S : \A y \in S : z >= y
  BY <1>4
<1>6. Max(S) \in S /\ \A y \in S : Max(S) >= y
  BY <1>5 DEF Max
<1> QED BY <1>6

\* A number is at most the greatest of a few if it is at most one of them.
LEMMA MaxOfTwo ==
    ASSUME NEW a \in Nat, NEW b \in Nat
    PROVE  /\ Max({a, b}) \in Nat
           /\ \A n \in Nat : n <= Max({a, b}) <=> n <= a \/ n <= b
<1>1. a + b \in Nat /\ {a, b} \subseteq Nat /\ {a, b} # {}
      /\ \A x \in {a, b} : x <= a + b
  OBVIOUS
<1>2. Max({a, b}) \in {a, b} /\ \A y \in {a, b} : y <= Max({a, b})
  BY <1>1, MaxFacts
<1>3. ASSUME NEW m \in {a, b}, \A y \in {a, b} : y <= m
      PROVE  m \in Nat /\ \A n \in Nat : n <= m <=> n <= a \/ n <= b
  BY <1>3
<1> QED BY <1>2, <1>3

LEMMA MaxOfThree ==
    ASSUME NEW a \in Nat, NEW b \in Nat, NEW c \in Nat
    PROVE  /\ Max({a, b, c}) \in Nat
           /\ \A n \in Nat : n <= Max({a, b, c}) <=> n <= a \/ n <= b \/ n <= c
<1>1. a + b + c \in Nat /\ {a, b, c} \subseteq Nat /\ {a, b, c} # {}
      /\ \A x \in {a, b, c} : x <= a + b + c
  OBVIOUS
<1>2. Max({a, b, c}) \in {a, b, c} /\ \A y \in {a, b, c} : y <= Max({a, b, c})
  BY <1>1, MaxFacts
<1>3. ASSUME NEW m \in {a, b, c}, \A y \in {a, b, c} : y <= m
      PROVE  m \in Nat /\ \A n \in Nat : n <= m <=> n <= a \/ n <= b \/ n <= c
  BY <1>3
<1> QED BY <1>2, <1>3

LEMMA MaxOfFour ==
    ASSUME NEW a \in Nat, NEW b \in Nat, NEW c \in Nat, NEW d \in Nat
    PROVE  /\ Max({a, b, c, d}) \in Nat
           /\ \A n \in Nat : n <= Max({a, b, c, d}) <=> n <= a \/ n <= b \/ n <= c \/ n <= d
<1>1. a + b + c + d \in Nat /\ {a, b, c, d} \subseteq Nat /\ {a, b, c, d} # {}
      /\ \A x \in {a, b, c, d} : x <= a + b + c + d
  OBVIOUS
<1>2. Max({a, b, c, d}) \in {a, b, c, d} /\ \A y \in {a, b, c, d} : y <= Max({a, b, c, d})
  BY <1>1, MaxFacts
<1>3. ASSUME NEW m \in {a, b, c, d}, \A y \in {a, b, c, d} : y <= m
      PROVE  m \in Nat /\ \A n \in Nat : n <= m <=> n <= a \/ n <= b \/ n <= c \/ n <= d
  BY <1>3
<1> QED BY <1>2, <1>3

\* The concatenation of sequences over a set is one.
LEMMA FlattenType ==
    ASSUME NEW S, NEW ss \in Seq(Seq(S))
    PROVE  FlattenSeq(ss) \in Seq(S)
<1>1. CASE Len(ss) = 0
  <2>1. FlattenSeq(ss) = ss /\ ss = <<>>
    BY <1>1 DEF FlattenSeq
  <2> QED BY <2>1
<1>2. CASE Len(ss) > 0
  <2> DEFINE N == Len(ss)
             Next(f, i) == IF i = 1 THEN ss[i] ELSE f[i - 1] \o ss[i]
             G(f, n) == \A i \in 1..n : f[i] = Next(f, i)
             F(f) == f = [i \in 1..N |-> Next(f, i)]
             Some(n) == \E f \in [1..n -> Seq(S)] : G(f, n)
             T == {n \in Nat : n > N \/ Some(n)}
  <2>0. N \in Nat /\ N > 0 /\ \A i \in 1..N : ss[i] \in Seq(S)
    BY <1>2
  <2> HIDE DEF N
  <2>1. Some(0)
    <3> DEFINE f == [i \in 1..0 |-> <<>>]
    <3>1. f \in [1..0 -> Seq(S)] /\ G(f, 0)
      OBVIOUS
    <3> QED BY <3>1
  <2>2. ASSUME NEW n \in Nat, n < N, Some(n) PROVE Some(n + 1)
    <3>1. PICK f \in [1..n -> Seq(S)] : G(f, n)
      BY <2>2
    <3> DEFINE x == Next(f, n + 1)
               g == [i \in 1..n + 1 |-> IF i = n + 1 THEN x ELSE f[i]]
    <3>2. x \in Seq(S)
      <4>1. n + 1 \in 1..N /\ ss[n + 1] \in Seq(S)
        BY <2>0, <2>2
      <4>2. CASE n = 0
        BY <4>1, <4>2
      <4>3. CASE n > 0
        <5>1. n \in 1..n /\ f[n] \in Seq(S) /\ (n + 1) - 1 = n /\ n + 1 # 1
          BY <3>1, <4>3
        <5>2. x = f[n] \o ss[n + 1]
          BY <5>1
        <5> QED BY <4>1, <5>1, <5>2
      <4> QED BY <4>2, <4>3
    <3>3. g \in [1..n + 1 -> Seq(S)] /\ g[n + 1] = x /\ \A i \in 1..n : g[i] = f[i]
      <4> HIDE DEF x
      <4> QED BY <3>1, <3>2
    <3> HIDE DEF g
    <3>4. ASSUME NEW i \in 1..n + 1 PROVE g[i] = Next(g, i)
      <4>0. \A k \in 1..n + 1 : k # 1 => k - 1 \in 1..n
        OBVIOUS
      <4>1. Next(g, i) = Next(f, i)
        BY <3>3, <4>0
      <4> HIDE DEF Next
      <4>2. CASE i = n + 1
        BY <3>3, <4>1, <4>2
      <4>3. CASE i # n + 1
        <5>1. i \in 1..n
          BY <4>3
        <5> QED BY <3>1, <3>3, <4>1, <5>1
      <4> QED BY <4>2, <4>3
    <3>5. G(g, n + 1)
      BY <3>4
    <3> HIDE DEF G
    <3> QED BY <3>3, <3>5
  <2> HIDE DEF Some
  <2>3. T = Nat
    <3>1. T \subseteq Nat /\ 0 \in T
      BY <2>1
    <3>2. ASSUME NEW n \in T PROVE n + 1 \in T
      BY <2>0, <2>2
    <3> HIDE DEF T
    <3> QED BY <3>1, <3>2, SetInduction
  <2>4. Some(N)
    BY <2>0, <2>3
  <2>5. PICK f \in [1..N -> Seq(S)] : G(f, N)
    BY <2>4 DEF Some
  <2>6. F(f)
    <3> HIDE DEF Next
    <3> QED BY <2>5
  <2> DEFINE h == CHOOSE g : F(g)
  <2>7. F(h)
    <3> HIDE DEF F
    <3> QED BY <2>6
  <2>8. FlattenSeq(ss) = h[N]
    <3>1. Len(ss) # 0
      BY <1>2
    <3> QED BY <3>1, Zenon DEF FlattenSeq, N
  <2> HIDE DEF h
  <2>9. \A i \in 1..N : h[i] = Next(h, i)
    BY <2>7
  <2> DEFINE U == {n \in Nat : n \in 1..N => h[n] \in Seq(S)}
  <2>10. ASSUME NEW n \in U PROVE n + 1 \in U
    <3> SUFFICES ASSUME n + 1 \in 1..N PROVE h[n + 1] \in Seq(S)
      OBVIOUS
    <3>1. ss[n + 1] \in Seq(S) /\ h[n + 1] = Next(h, n + 1)
      BY <2>0, <2>9
    <3>2. CASE n = 0
      BY <3>1, <3>2
    <3>3. CASE n > 0
      <4>1. n \in 1..N /\ (n + 1) - 1 = n /\ n + 1 # 1
        BY <2>0, <3>3
      <4>2. h[n] \in Seq(S) /\ h[n + 1] = h[n] \o ss[n + 1]
        BY <2>10, <3>1, <4>1
      <4> QED BY <3>1, <4>2
    <3> QED BY <3>2, <3>3
  <2>11. U = Nat
    <3>1. U \subseteq Nat /\ 0 \in U
      OBVIOUS
    <3> HIDE DEF U
    <3> QED BY <2>10, <3>1, SetInduction
  <2>12. h[N] \in Seq(S)
    <3>1. N \in Nat /\ N \in 1..N
      BY <2>0
    <3>2. N \in U
      BY <2>11, <3>1, Zenon
    <3> QED BY <3>1, <3>2, Zenon
  <2> QED BY <2>8, <2>12
<1> QED BY <1>1, <1>2

\* A part of a sequence.
LEMMA CutFacts ==
    ASSUME NEW S, NEW s \in Seq(S), NEW k \in Nat, NEW n \in Nat, k + n <= Len(s)
    PROVE  SubSeq(s, k + 1, k + n) \in Seq(S) /\ Len(SubSeq(s, k + 1, k + n)) = n
<1>1. \A i \in k + 1..k + n : s[i] \in S
  OBVIOUS
<1>2. k + 1 \in Int /\ k + n \in Int
  OBVIOUS
<1>3. /\ SubSeq(s, k + 1, k + n) \in Seq(S)
      /\ Len(SubSeq(s, k + 1, k + n)) = IF k + 1 <= k + n THEN (k + n) - (k + 1) + 1 ELSE 0
  BY <1>1, <1>2, SubSeqProperties
<1> DEFINE t == SubSeq(s, k + 1, k + n)
<1> HIDE DEF t
<1>4. t \in Seq(S) /\ Len(t) = IF k + 1 <= k + n THEN (k + n) - (k + 1) + 1 ELSE 0
  BY <1>3 DEF t
<1>5. Len(t) = n
  BY <1>4
<1> QED BY <1>4, <1>5 DEF t

LEMMA TailFacts ==
    ASSUME NEW S, NEW s \in Seq(S), NEW m \in Nat, m <= Len(s)
    PROVE  SubSeq(s, m + 1, Len(s)) \in Seq(S) /\ Len(SubSeq(s, m + 1, Len(s))) = Len(s) - m
<1>1. m \in 0..Len(s)
  OBVIOUS
<1> QED BY <1>1, DropFacts, Zenon

LEMMA PrefixFacts ==
    ASSUME NEW S, NEW s \in Seq(S), NEW n \in Nat, n <= Len(s)
    PROVE  SubSeq(s, 1, n) \in Seq(S) /\ Len(SubSeq(s, 1, n)) = n
<1>1. 0 \in Nat /\ 0 + n <= Len(s)
  OBVIOUS
<1>2. SubSeq(s, 0 + 1, 0 + n) \in Seq(S) /\ Len(SubSeq(s, 0 + 1, 0 + n)) = n
  BY <1>1, CutFacts
<1>3. 0 + 1 = 1 /\ 0 + n = n
  OBVIOUS
<1> QED BY <1>2, <1>3, Zenon

=============================================================================
