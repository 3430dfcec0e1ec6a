----------------------------- MODULE SlabProofs -----------------------------
(***************************************************************************)
(* Proofs about Slab, for any number of pages and chunk sizes, requests of *)
(* any length and callers that free pages twice or not.                    *)
(***************************************************************************)
EXTENDS Slab, ListFacts

Heads == NPages .. NPages + NClasses

\* The pages of s are linked in its order, in both directions, from head to head.
Chain(m, head, s) ==
    /\ s \in Seq(Pages) /\ IsInjective(s)
    /\ m.next[head] = IF Len(s) = 0 THEN head ELSE s[1]
    /\ \A i \in 1 .. Len(s) : m.next[s[i]] = IF i = Len(s) THEN head ELSE s[i + 1]
    /\ \A i \in 1 .. Len(s) : m.prev[s[i]] = IF i = 1 THEN head ELSE s[i - 1]

\* The pages of the free run that starts at h.
Run(m, h) == h .. h + m.slab[h] - 1

\* The list s of runs describes the set F of free pages: every member starts a
\* maximal run, the last page of a run points back to the first (that of the pool
\* may not: nothing is behind it), and no other free page looks like the start
\* of a run.
FreeSound(m, F, s) ==
    /\ F \subseteq Pages
    /\ Chain(m, FreeHead, s)
    /\ \A h \in ToSet(s) :
          /\ m.slab[h] \in 1 .. NPages
          /\ Run(m, h) \subseteq F
          /\ h - 1 \notin F /\ h + m.slab[h] \notin F
          /\ m.slab[h] > 1 /\ h + m.slab[h] < NPages => m.prev[h + m.slab[h] - 1] = h
    /\ \A p \in F : m.type[p] = PageType /\ \E h \in ToSet(s) : p \in Run(m, h)
    /\ \A p \in F \ ToSet(s) : m.slab[p] = PageFree /\ m.next[p] = Null

-----------------------------------------------------------------------------
(* The inductive invariant, of the descriptors m, the bitmaps mp and the   *)
(* blocks L that callers own.                                              *)

Used(L) == UNION {Covers(b) : b \in L}
Unused(L) == Pages \ Used(L)

\* The chunks of page p of class k that callers own, and the pages of the class
\* with some chunks owned and some to give.
Own(L, p, k) == {b.chunk : b \in {x \in L : x.page = p /\ x.class = k}}
Partial(L, k) == {p \in Pages : Own(L, p, k) # {} /\ Own(L, p, k) # Usable(k)}

\* Blocks lie in the pool and do not overlap.
LiveSound(L) ==
    /\ \A b \in L : Covers(b) \subseteq Pages
    /\ \A a, b \in L : a # b => ~Overlap(a, b)

\* The descriptors of the pages of a run that a caller owns.
RunMarked(m, b) ==
    \A q \in Covers(b) :
       /\ m.type[q] = PageType /\ m.next[q] = Null
       /\ m.slab[q] = IF q = b.page THEN PageStart + b.len ELSE PageBusy

\* The descriptor and the bitmap of a page with chunks that callers own.
ChunkMarked(m, mp, L, b) ==
    /\ m.type[b.page] = b.class
    /\ mp[b.page] = (0 .. Reserved[b.class] - 1) \cup Own(L, b.page, b.class)
    /\ m.next[b.page] = Null <=> Own(L, b.page, b.class) = Usable(b.class)

BlocksMarked(m, mp, L) ==
    \A b \in L : IF b.len = 0 THEN ChunkMarked(m, mp, L, b) ELSE RunMarked(m, b)

FreeListed(m, L) == \E s : FreeSound(m, Unused(L), s)

SlotListed(m, L, k) == \E s : Chain(m, Slot(k), s) /\ ToSet(s) = Partial(L, k)

Sound(m, mp, L) ==
    /\ m \in Memory /\ mp \in [Pages -> SUBSET Nat] /\ L \subseteq Blocks
    /\ LiveSound(L)
    /\ BlocksMarked(m, mp, L)
    /\ FreeListed(m, L)
    /\ \A k \in Classes : SlotListed(m, L, k)

SlabInv == Sound(mem, map, live)

-----------------------------------------------------------------------------
(* Lists.                                                                  *)

LEMMA Constants ==
    /\ NPages \in Nat /\ NPages > 0 /\ NClasses \in Nat /\ MaxRun \in Nat /\ MaxRun <= NPages
    /\ Nodes = Pages \cup Heads /\ Pages \cap Heads = {} /\ FreeHead \in Heads
    /\ Pages \subseteq Int /\ Heads \subseteq Int /\ Null \notin Nodes
    /\ \A k \in Classes : /\ Slot(k) \in Heads /\ Slot(k) # FreeHead
                          /\ Reserved[k] \in Nat /\ Chunks[k] \in Nat /\ Reserved[k] + 1 < Chunks[k]
    /\ \A j, k \in Classes : Slot(j) = Slot(k) => j = k
  BY SlabAssumption DEF Pages, Heads, Nodes, Null, FreeHead, Slot, Classes

\* The members of a list of distinct pages.
LEMMA SeqMembers ==
    ASSUME NEW s \in Seq(Pages)
    PROVE  /\ Len(s) \in Nat /\ DOMAIN s = 1 .. Len(s)
           /\ ToSet(s) = {s[i] : i \in 1 .. Len(s)}
           /\ ToSet(s) \subseteq Pages
  BY DEF ToSet

LEMMA ShortList ==
    ASSUME NEW s \in Seq(Pages), IsInjective(s)
    PROVE  Len(s) <= NPages
<1>1. NPages \in Nat /\ Len(s) \in Nat /\ DOMAIN s = 1 .. Len(s)
  BY Constants
<1>2. s \in Injection(1 .. Len(s), Pages)
  BY <1>1 DEF Injection, IsInjective
<1>3. IsFiniteSet(Pages) /\ Cardinality(Pages) = NPages
  BY <1>1, FS_Interval DEF Pages
<1>4. Cardinality(1 .. Len(s)) = Len(s)
  BY <1>1, FS_Interval
<1> QED BY <1>2, <1>3, <1>4, FS_Injection

\* Following the pointers from the head of a chain gives the chain.
LEMMA ListOfChain ==
    ASSUME NEW m, NEW h \in Heads, NEW s, Chain(m, h, s)
    PROVE  List(m, h) = s
<1> DEFINE N == Len(s)
           Step(f, i) == IF i = 0 THEN m.next[h]
                         ELSE IF f[i - 1] \in Pages THEN m.next[f[i - 1]] ELSE Null
           Is(f) == f = [i \in 0 .. NPages |-> Step(f, i)]
           w == [i \in 0 .. NPages |-> IF i < N THEN s[i + 1] ELSE IF i = N THEN h ELSE Null]
           at == CHOOSE f : Is(f)
<1>1. /\ s \in Seq(Pages) /\ N \in Nat /\ N <= NPages /\ NPages \in Nat
      /\ \A i \in 1 .. N : s[i] \in Pages
      /\ h \notin Pages /\ Null \notin Pages
  BY Constants, ShortList DEF Chain, Nodes
<1>2. /\ m.next[h] = IF N = 0 THEN h ELSE s[1]
      /\ \A i \in 1 .. N : m.next[s[i]] = IF i = N THEN h ELSE s[i + 1]
  BY DEF Chain
<1>3. \A i \in 0 .. NPages : w[i] = Step(w, i)
  <2> TAKE i \in 0 .. NPages
  <2>1. CASE i = 0
    BY <1>1, <1>2, <2>1
  <2>2. CASE i # 0
    <3>1. i - 1 \in 0 .. NPages
      BY <1>1, <2>2
    <3>2. CASE i - 1 < N
      <4>1. w[i - 1] = s[i] /\ i \in 1 .. N
        BY <1>1, <3>1, <3>2, <2>2
      <4> QED BY <1>1, <1>2, <2>2, <4>1
    <3>3. CASE i - 1 >= N
      <4>1. w[i - 1] \notin Pages
        BY <1>1, <3>1, <3>3
      <4> QED BY <1>1, <2>2, <3>3, <4>1
    <3> QED BY <1>1, <3>1, <3>2, <3>3
  <2> QED BY <2>1, <2>2
<1>4. Is(w)
  BY <1>3
<1> HIDE DEF Is, w
<1>5. Is(at)
  BY <1>4
<1>6. \A i \in 0 .. NPages : at[i] = Step(at, i)
  BY <1>5 DEF Is
<1> HIDE DEF at
<1> DEFINE U == {n \in Nat : n \in 0 .. NPages => at[n] = w[n]}
<1>7. U = Nat
  <2>1. 0 \in U
    BY <1>1, <1>3, <1>6
  <2>2. ASSUME NEW n \in U PROVE n + 1 \in U
    <3> SUFFICES ASSUME n + 1 \in 0 .. NPages PROVE at[n + 1] = w[n + 1]
      OBVIOUS
    <3>1. n \in 0 .. NPages /\ (n + 1) - 1 = n /\ n + 1 # 0
      BY <1>1
    <3>2. at[n] = w[n]
      BY <3>1
    <3> QED BY <1>3, <1>6, <3>1, <3>2
  <2> HIDE DEF U
  <2>3. U \subseteq Nat
    BY DEF U
  <2> QED BY <2>1, <2>2, <2>3, SetInduction
<1>8. \A i \in 0 .. NPages : at[i] = IF i < N THEN s[i + 1] ELSE IF i = N THEN h ELSE Null
  <2>1. \A i \in 0 .. NPages : i \in U
    BY <1>1, <1>7
  <2> QED BY <2>1 DEF w
<1> DEFINE len == Cardinality({i \in 0 .. NPages : at[i] \in Pages})
<1>9. len = N
  <2>1. {i \in 0 .. NPages : at[i] \in Pages} = 0 .. N - 1
    BY <1>1, <1>8
  <2>2. 0 \in Int /\ N - 1 \in Int
    BY <1>1
  <2>3. Cardinality(0 .. N - 1) = IF 0 > N - 1 THEN 0 ELSE (N - 1) - 0 + 1
    BY <2>2, FS_Interval, Zenon
  <2>4. Cardinality(0 .. N - 1) = N
    BY <1>1, <2>3
  <2> QED BY <2>1, <2>4, Zenon
<1>10. List(m, h) = [i \in 1 .. len |-> at[i - 1]]
  BY DEF List, at, Is, Step
<1> HIDE DEF len
<1>11. \A i \in 1 .. N : at[i - 1] = s[i]
  BY <1>1, <1>8
<1>12. [i \in 1 .. N |-> at[i - 1]] = s
  BY <1>1, <1>11
<1> QED BY <1>9, <1>10, <1>12

LEMMA RemoveMember ==
    ASSUME NEW s \in Seq(Pages), IsInjective(s), NEW j \in 1 .. Len(s)
    PROVE  /\ RemoveAt(s, j) \in Seq(Pages) /\ IsInjective(RemoveAt(s, j))
           /\ ToSet(RemoveAt(s, j)) = ToSet(s) \ {s[j]}
           /\ Len(RemoveAt(s, j)) = Len(s) - 1
           /\ \A i \in 1 .. Len(s) - 1 : RemoveAt(s, j)[i] = IF i < j THEN s[i] ELSE s[i + 1]
<1>1. j \in DOMAIN s
  OBVIOUS
<1>2. /\ RemoveAt(s, j) \in Seq(Pages) /\ IsInjective(RemoveAt(s, j))
      /\ ToSet(RemoveAt(s, j)) = ToSet(s) \ {s[j]}
  BY <1>1, RemoveFacts, Zenon
<1> QED BY <1>2, RemoveIndex, Zenon

\* One field of the descriptors at a time.
Links == [Nodes -> Nodes \cup {Null}]
LEMMA SetNext ==
    ASSUME NEW m \in Memory, NEW f \in Links, NEW u, u = [m EXCEPT !.next = f]
    PROVE  u \in Memory /\ u.next = f /\ u.prev = m.prev /\ u.slab = m.slab /\ u.type = m.type
  BY DEF Memory, Links

LEMMA SetPrev ==
    ASSUME NEW m \in Memory, NEW f \in Links, NEW u, u = [m EXCEPT !.prev = f]
    PROVE  u \in Memory /\ u.next = m.next /\ u.prev = f /\ u.slab = m.slab /\ u.type = m.type
  BY DEF Memory, Links

LEMMA SetSlab ==
    ASSUME NEW m \in Memory, NEW f \in [Pages -> PageBusy .. PageStart + NPages],
           NEW u, u = [m EXCEPT !.slab = f]
    PROVE  u \in Memory /\ u.next = m.next /\ u.prev = m.prev /\ u.slab = f /\ u.type = m.type
  BY DEF Memory

LEMMA SetType ==
    ASSUME NEW m \in Memory, NEW f \in [Pages -> {PageType} \cup Classes],
           NEW u, u = [m EXCEPT !.type = f]
    PROVE  u \in Memory /\ u.next = m.next /\ u.prev = m.prev /\ u.slab = m.slab /\ u.type = f
  BY DEF Memory

LEMMA UnlinkFields ==
    ASSUME NEW m \in Memory, NEW x \in Nodes, m.prev[x] \in Nodes, m.next[x] \in Nodes
    PROVE  LET u == Unlink(m, x) IN
           /\ u \in Memory /\ u.slab = m.slab /\ u.type = m.type
           /\ \A y \in Nodes : u.next[y] = IF y = m.prev[x] THEN m.next[x] ELSE m.next[y]
           /\ \A y \in Nodes : u.prev[y] = IF y = m.next[x] THEN m.prev[x] ELSE m.prev[y]
<1> DEFINE u == Unlink(m, x)
           f == [m.next EXCEPT ![m.prev[x]] = m.next[x]]
           g == [m.prev EXCEPT ![m.next[x]] = m.prev[x]]
           v == [m EXCEPT !.next = f]
<1>1. m.next \in Links /\ m.prev \in Links
  BY DEF Memory, Links
<1>2. u = [v EXCEPT !.prev = g]
  BY DEF Unlink, Memory
<1>3. /\ f \in Links /\ \A y \in Nodes : f[y] = IF y = m.prev[x] THEN m.next[x] ELSE m.next[y]
      /\ g \in Links /\ \A y \in Nodes : g[y] = IF y = m.next[x] THEN m.prev[x] ELSE m.prev[y]
  BY <1>1 DEF Links
<1> HIDE DEF u, f, g
<1>5. v \in Memory /\ v.next = f /\ v.slab = m.slab /\ v.type = m.type
  BY <1>3, SetNext
<1> HIDE DEF v
<1>4. u \in Memory /\ u.next = f /\ u.prev = g /\ u.slab = m.slab /\ u.type = m.type
  BY <1>2, <1>3, <1>5, SetPrev
<1> QED BY <1>3, <1>4 DEF u

LEMMA PushFields ==
    ASSUME NEW m \in Memory, NEW head \in Nodes, NEW x \in Nodes, x # head, m.next[head] \in Nodes
    PROVE  LET u == PushFront(m, head, x) IN
           /\ u \in Memory /\ u.slab = m.slab /\ u.type = m.type
           /\ \A y \in Nodes : u.next[y] = IF y = head THEN x ELSE IF y = x THEN m.next[head] ELSE m.next[y]
           /\ \A y \in Nodes : u.prev[y] = IF y = m.next[head] THEN x ELSE IF y = x THEN head ELSE m.prev[y]
<1> DEFINE u == PushFront(m, head, x)
           f == [[m.next EXCEPT ![x] = m.next[head]] EXCEPT ![head] = x]
           g == [[m.prev EXCEPT ![x] = head] EXCEPT ![m.next[head]] = x]
           v == [m EXCEPT !.next = f]
<1>1. m.next \in Links /\ m.prev \in Links
  BY DEF Memory, Links
<1>2. u = [v EXCEPT !.prev = g]
  BY DEF PushFront, Memory
<1>3. /\ f \in Links
      /\ \A y \in Nodes : f[y] = IF y = head THEN x ELSE IF y = x THEN m.next[head] ELSE m.next[y]
      /\ g \in Links
      /\ \A y \in Nodes : g[y] = IF y = m.next[head] THEN x ELSE IF y = x THEN head ELSE m.prev[y]
  BY <1>1 DEF Links
<1> HIDE DEF u, f, g
<1>5. v \in Memory /\ v.next = f /\ v.slab = m.slab /\ v.type = m.type
  BY <1>3, SetNext
<1> HIDE DEF v
<1>4. u \in Memory /\ u.next = f /\ u.prev = g /\ u.slab = m.slab /\ u.type = m.type
  BY <1>2, <1>3, <1>5, SetPrev
<1> QED BY <1>3, <1>4 DEF u

\* The neighbours of a member are members or the head.
LEMMA Neighbours ==
    ASSUME NEW m, NEW h \in Heads, NEW s, Chain(m, h, s)
    PROVE  /\ m.next[h] \in ToSet(s) \cup {h}
           /\ \A x \in ToSet(s) : m.next[x] \in ToSet(s) \cup {h} /\ m.prev[x] \in ToSet(s) \cup {h}
           /\ ToSet(s) \subseteq Pages /\ h \notin ToSet(s) /\ ToSet(s) \cup {h} \subseteq Nodes
<1>1. s \in Seq(Pages) /\ ToSet(s) = {s[i] : i \in 1 .. Len(s)} /\ ToSet(s) \subseteq Pages /\ Len(s) \in Nat
  BY SeqMembers DEF Chain
<1>2. m.next[h] \in ToSet(s) \cup {h}
  BY <1>1 DEF Chain
<1>3. ASSUME NEW x \in ToSet(s)
      PROVE  m.next[x] \in ToSet(s) \cup {h} /\ m.prev[x] \in ToSet(s) \cup {h}
  <2>1. PICK i \in 1 .. Len(s) : x = s[i]
    BY <1>1
  <2>2. m.next[x] = h \/ (i + 1 \in 1 .. Len(s) /\ m.next[x] = s[i + 1])
    BY <1>1, <2>1 DEF Chain
  <2>3. m.prev[x] = h \/ (i - 1 \in 1 .. Len(s) /\ m.prev[x] = s[i - 1])
    BY <1>1, <2>1 DEF Chain
  <2> QED BY <1>1, <2>2, <2>3
<1> QED BY <1>1, <1>2, <1>3, Constants

\* A list depends on the links of its members and its head only.
LEMMA ChainFrame ==
    ASSUME NEW m, NEW u, NEW h, NEW s, Chain(m, h, s),
           u.next[h] = m.next[h],
           \A x \in ToSet(s) : u.next[x] = m.next[x] /\ u.prev[x] = m.prev[x]
    PROVE  Chain(u, h, s)
<1>1. s \in Seq(Pages) /\ \A i \in 1 .. Len(s) : s[i] \in ToSet(s)
  BY SeqMembers DEF Chain
<1> QED BY <1>1 DEF Chain

\* A page leaves its list.
LEMMA UnlinkChain ==
    ASSUME NEW m \in Memory, NEW h \in Heads, NEW s, Chain(m, h, s), NEW j \in 1 .. Len(s)
    PROVE  Chain(Unlink(m, s[j]), h, RemoveAt(s, j))
<1> DEFINE x == s[j]
           u == Unlink(m, x)
           t == RemoveAt(s, j)
           n == Len(s)
<1>0. s \in Seq(Pages) /\ IsInjective(s) /\ n \in Nat /\ \A i \in 1 .. n : s[i] \in ToSet(s)
  BY SeqMembers DEF Chain
<1>a. /\ \A y \in ToSet(s) : m.next[y] \in ToSet(s) \cup {h} /\ m.prev[y] \in ToSet(s) \cup {h}
      /\ h \notin ToSet(s) /\ ToSet(s) \cup {h} \subseteq Nodes
  BY Neighbours
<1>1. s \in Seq(Pages) /\ IsInjective(s) /\ n \in Nat /\ \A i \in 1 .. n : s[i] \in Nodes /\ s[i] # h
  BY <1>0, <1>a
<1>2. m.prev[x] \in Nodes /\ m.next[x] \in Nodes /\ h \in Nodes /\ x \in Nodes
  BY <1>0, <1>a
<1>3. /\ \A y \in Nodes : u.next[y] = IF y = m.prev[x] THEN m.next[x] ELSE m.next[y]
      /\ \A y \in Nodes : u.prev[y] = IF y = m.next[x] THEN m.prev[x] ELSE m.prev[y]
  BY <1>2, UnlinkFields
<1>4. /\ t \in Seq(Pages) /\ IsInjective(t) /\ Len(t) = n - 1
      /\ \A i \in 1 .. n - 1 : t[i] = IF i < j THEN s[i] ELSE s[i + 1]
  BY <1>1, RemoveMember
<1>5. /\ m.next[h] = IF n = 0 THEN h ELSE s[1]
      /\ \A i \in 1 .. n : m.next[s[i]] = IF i = n THEN h ELSE s[i + 1]
      /\ \A i \in 1 .. n : m.prev[s[i]] = IF i = 1 THEN h ELSE s[i - 1]
  BY DEF Chain
<1>6. \A i, k \in 1 .. n : s[i] = s[k] => i = k
  BY <1>1 DEF IsInjective
<1> HIDE DEF u, t
<1>7. u.next[h] = IF n - 1 = 0 THEN h ELSE t[1]
  <2>1. CASE j = 1
    BY <1>1, <1>2, <1>3, <1>4, <1>5, <2>1
  <2>2. CASE j # 1
    <3>1. m.prev[x] = s[j - 1] /\ j - 1 \in 1 .. n
      BY <1>1, <1>5, <2>2
    <3>2. u.next[h] = s[1]
      BY <1>1, <1>2, <1>3, <1>5, <3>1
    <3> QED BY <1>1, <1>4, <2>2, <3>2
  <2> QED BY <2>1, <2>2
<1>8. ASSUME NEW i \in 1 .. n - 1
      PROVE  u.next[t[i]] = IF i = n - 1 THEN h ELSE t[i + 1]
  <2>1. CASE i = j - 1
    <3>1. t[i] = s[i] /\ i \in 1 .. n /\ m.prev[x] = s[i]
      <4>1. i \in 1 .. n /\ i < j /\ j # 1 /\ j - 1 = i
        BY <1>1, <2>1
      <4> QED BY <1>4, <1>5, <4>1
    <3>2. u.next[t[i]] = m.next[x]
      BY <1>1, <1>3, <3>1
    <3>3. u.next[t[i]] = IF j = n THEN h ELSE s[j + 1]
      BY <1>5, <3>2
    <3>4. j # n => i + 1 \in 1 .. n - 1 /\ t[i + 1] = s[j + 1]
      BY <1>1, <1>4, <2>1
    <3> QED BY <1>1, <2>1, <3>3, <3>4
  <2>2. CASE i # j - 1
    <3> DEFINE l == IF i < j THEN i ELSE i + 1
    <3>1. l \in 1 .. n /\ t[i] = s[l] /\ l # j /\ l # j - 1
      BY <1>1, <1>4, <2>2
    <3>2. m.prev[x] # s[l]
      BY <1>1, <1>5, <1>6, <3>1
    <3>3. u.next[t[i]] = m.next[s[l]]
      BY <1>1, <1>3, <3>1, <3>2
    <3>4. l = n <=> i = n - 1
      BY <1>1, <2>2
    <3>5. i # n - 1 => i + 1 \in 1 .. n - 1 /\ t[i + 1] = s[l + 1]
      BY <1>1, <1>4, <2>2
    <3> HIDE DEF l
    <3> QED BY <1>5, <3>1, <3>3, <3>4, <3>5
  <2> QED BY <2>1, <2>2
<1>9. ASSUME NEW i \in 1 .. n - 1
      PROVE  u.prev[t[i]] = IF i = 1 THEN h ELSE t[i - 1]
  <2>1. CASE i = j
    <3>1. t[i] = s[i + 1] /\ i + 1 \in 1 .. n /\ m.next[x] = s[i + 1]
      BY <1>1, <1>4, <1>5, <2>1
    <3>2. u.prev[t[i]] = m.prev[x]
      BY <1>1, <1>3, <3>1
    <3> QED BY <1>1, <1>4, <1>5, <2>1, <3>2
  <2>2. CASE i # j
    <3> DEFINE l == IF i < j THEN i ELSE i + 1
    <3>1. l \in 1 .. n /\ t[i] = s[l] /\ l # j /\ l # j + 1
      BY <1>1, <1>4, <2>2
    <3>2. m.next[x] # s[l]
      <4>1. j # n => j + 1 \in 1 .. n
        BY <1>1
      <4>2. m.next[x] = IF j = n THEN h ELSE s[j + 1]
        BY <1>5
      <4> HIDE DEF l
      <4> QED BY <1>1, <1>6, <3>1, <4>1, <4>2
    <3>3. u.prev[t[i]] = m.prev[s[l]]
      BY <1>1, <1>3, <3>1, <3>2
    <3> QED BY <1>1, <1>4, <1>5, <2>2, <3>1, <3>3
  <2> QED BY <2>1, <2>2
<1> QED BY <1>4, <1>7, <1>8, <1>9 DEF Chain, u, t

\* A page comes to the front of a list.
LEMMA PushChain ==
    ASSUME NEW m \in Memory, NEW h \in Heads, NEW s, Chain(m, h, s),
           NEW x \in Pages, x \notin ToSet(s)
    PROVE  Chain(PushFront(m, h, x), h, <<x>> \o s)
<1> DEFINE u == PushFront(m, h, x)
           t == <<x>> \o s
           n == Len(s)
<1>0. /\ s \in Seq(Pages) /\ IsInjective(s) /\ n \in Nat /\ \A i \in 1 .. n : s[i] \in ToSet(s)
      /\ x \in Nodes /\ h \in Nodes /\ x # h
  BY SeqMembers, Constants DEF Chain
<1>a. m.next[h] \in Nodes /\ h \notin ToSet(s) /\ ToSet(s) \subseteq Nodes
  BY Neighbours
<1>1. \A i \in 1 .. n : s[i] \in Nodes /\ s[i] # h /\ s[i] # x
  BY <1>0, <1>a
<1>2. /\ \A y \in Nodes : u.next[y] = IF y = h THEN x ELSE IF y = x THEN m.next[h] ELSE m.next[y]
      /\ \A y \in Nodes : u.prev[y] = IF y = m.next[h] THEN x ELSE IF y = x THEN h ELSE m.prev[y]
  BY <1>0, <1>a, PushFields
<1>3. t \in Seq(Pages) /\ IsInjective(t) /\ Len(t) = n + 1
  BY <1>0, PushFacts
<1>4. t[1] = x /\ \A i \in 2 .. n + 1 : t[i] = s[i - 1]
  BY <1>0
<1>5. /\ m.next[h] = IF n = 0 THEN h ELSE s[1]
      /\ \A i \in 1 .. n : m.next[s[i]] = IF i = n THEN h ELSE s[i + 1]
      /\ \A i \in 1 .. n : m.prev[s[i]] = IF i = 1 THEN h ELSE s[i - 1]
  BY DEF Chain
<1>6. \A i, k \in 1 .. n : s[i] = s[k] => i = k
  BY <1>0 DEF IsInjective
<1> HIDE DEF u, t
<1>7. u.next[h] = t[1]
  BY <1>0, <1>2, <1>4
<1>8. ASSUME NEW i \in 1 .. n + 1
      PROVE  u.next[t[i]] = IF i = n + 1 THEN h ELSE t[i + 1]
  <2>1. CASE i = 1
    BY <1>0, <1>2, <1>4, <1>5, <2>1
  <2>2. CASE i # 1
    <3>1. i - 1 \in 1 .. n /\ t[i] = s[i - 1]
      BY <1>0, <1>4, <2>2
    <3>2. u.next[t[i]] = m.next[s[i - 1]]
      BY <1>1, <1>2, <3>1
    <3>3. m.next[s[i - 1]] = IF i - 1 = n THEN h ELSE s[(i - 1) + 1]
      BY <1>5, <3>1
    <3>4. i # n + 1 => t[i + 1] = s[i]
      BY <1>0, <1>4, <2>2
    <3> QED BY <1>0, <3>1, <3>2, <3>3, <3>4
  <2> QED BY <2>1, <2>2
<1>9. ASSUME NEW i \in 1 .. n + 1
      PROVE  u.prev[t[i]] = IF i = 1 THEN h ELSE t[i - 1]
  <2>1. CASE i = 1
    <3>1. m.next[h] # x
      BY <1>0, <1>1, <1>5
    <3> QED BY <1>0, <1>2, <1>4, <2>1, <3>1
  <2>2. CASE i # 1
    <3>1. i - 1 \in 1 .. n /\ t[i] = s[i - 1]
      BY <1>0, <1>4, <2>2
    <3>2. CASE i = 2
      BY <1>0, <1>1, <1>2, <1>4, <1>5, <3>1, <3>2
    <3>3. CASE i # 2
      <4>1. m.next[h] # s[i - 1]
        BY <1>0, <1>5, <1>6, <3>1, <3>3
      <4>2. u.prev[t[i]] = m.prev[s[i - 1]]
        BY <1>1, <1>2, <3>1, <4>1
      <4>3. m.prev[s[i - 1]] = s[(i - 1) - 1] /\ (i - 1) - 1 = i - 2
        BY <1>0, <1>5, <3>1, <3>3
      <4>4. t[i - 1] = s[i - 2]
        <5>1. i - 1 \in 2 .. n + 1 /\ (i - 1) - 1 = i - 2
          BY <1>0, <3>1, <3>3
        <5> QED BY <1>4, <5>1
      <4> QED BY <2>2, <4>2, <4>3, <4>4
    <3> QED BY <3>2, <3>3
  <2> QED BY <2>1, <2>2
<1> QED BY <1>3, <1>7, <1>8, <1>9 DEF Chain, u, t

\* Another page, x, takes the place of the member y of the list s.
Replaced(m, u, h, s, y, x) ==
    /\ \A z \in (ToSet(s) \ {y}) \cup {h} : u.next[z] = IF z = m.prev[y] THEN x ELSE m.next[z]
    /\ \A z \in ToSet(s) \ {y} : u.prev[z] = IF z = m.next[y] THEN x ELSE m.prev[z]
    /\ u.next[x] = m.next[y] /\ u.prev[x] = m.prev[y]
LEMMA ReplaceChain ==
    ASSUME NEW m, NEW u, NEW h \in Heads, NEW s, Chain(m, h, s), NEW w \in ToSet(s),
           NEW x \in Pages, x \notin ToSet(s), Replaced(m, u, h, s, w, x)
    PROVE  \E t : Chain(u, h, t) /\ ToSet(t) = (ToSet(s) \ {w}) \cup {x}
<1>j. PICK j \in 1 .. Len(s) : w = s[j]
  BY SeqMembers DEF Chain
<1>r. /\ \A y \in (ToSet(s) \ {s[j]}) \cup {h} :
            u.next[y] = IF y = m.prev[s[j]] THEN x ELSE m.next[y]
      /\ \A y \in ToSet(s) \ {s[j]} : u.prev[y] = IF y = m.next[s[j]] THEN x ELSE m.prev[y]
      /\ u.next[x] = m.next[s[j]] /\ u.prev[x] = m.prev[s[j]]
  BY <1>j DEF Replaced
<1> DEFINE t == [s EXCEPT ![j] = x]
           n == Len(s)
<1>0. s \in Seq(Pages) /\ IsInjective(s) /\ n \in Nat /\ ToSet(s) = {s[i] : i \in 1 .. n}
  BY SeqMembers DEF Chain
<1>1. h \notin ToSet(s)
  BY Neighbours
<1>2. t \in Seq(Pages) /\ Len(t) = n /\ \A i \in 1 .. n : t[i] = IF i = j THEN x ELSE s[i]
  BY <1>0
<1>3. \A i, k \in 1 .. n : s[i] = s[k] => i = k
  BY <1>0 DEF IsInjective
<1>4. \A i \in 1 .. n : s[i] # x /\ s[i] \in ToSet(s) /\ s[i] # h
  BY <1>0, <1>1
<1>5. /\ m.next[h] = IF n = 0 THEN h ELSE s[1]
      /\ \A i \in 1 .. n : m.next[s[i]] = IF i = n THEN h ELSE s[i + 1]
      /\ \A i \in 1 .. n : m.prev[s[i]] = IF i = 1 THEN h ELSE s[i - 1]
  BY DEF Chain
<1> HIDE DEF t
<1>6. IsInjective(t)
  BY <1>2, <1>3, <1>4 DEF IsInjective
<1>7. u.next[h] = IF n = 0 THEN h ELSE t[1]
  <2>1. CASE j = 1
    BY <1>r, <1>0, <1>2, <1>5, <2>1
  <2>2. CASE j # 1
    <3>1. m.prev[s[j]] # h
      <4>1. j - 1 \in 1 .. n /\ m.prev[s[j]] = s[j - 1]
        BY <1>0, <1>5, <2>2
      <4> QED BY <1>4, <4>1
    <3> QED BY <1>r, <1>0, <1>2, <1>5, <2>2, <3>1
  <2> QED BY <2>1, <2>2
<1>8. ASSUME NEW i \in 1 .. n
      PROVE  u.next[t[i]] = IF i = n THEN h ELSE t[i + 1]
  <2>1. CASE i = j
    BY <1>r, <1>0, <1>2, <1>5, <2>1
  <2>2. CASE i # j
    <3>1. t[i] = s[i] /\ s[i] \in ToSet(s) \ {s[j]}
      BY <1>2, <1>3, <1>4, <2>2
    <3>2. u.next[t[i]] = IF s[i] = m.prev[s[j]] THEN x ELSE m.next[s[i]]
      BY <1>r, <3>1
    <3>3. CASE i = j - 1
      <4>1. s[i] = m.prev[s[j]] /\ i # n /\ i + 1 = j
        BY <1>0, <1>5, <3>3
      <4> QED BY <1>2, <3>2, <4>1
    <3>4. CASE i # j - 1
      <4>1. s[i] # m.prev[s[j]]
        <5>1. CASE j = 1
          BY <1>4, <1>5, <5>1
        <5>2. CASE j # 1
          <6>1. j - 1 \in 1 .. n /\ m.prev[s[j]] = s[j - 1] /\ i # j - 1
            BY <1>0, <1>5, <3>4, <5>2
          <6> QED BY <1>3, <6>1
        <5> QED BY <5>1, <5>2
      <4>2. i # n => i + 1 \in 1 .. n /\ i + 1 # j
        BY <1>0, <3>4
      <4>3. i # n => t[i + 1] = s[i + 1]
        BY <1>2, <4>2
      <4> QED BY <1>5, <3>2, <4>1, <4>3
    <3> QED BY <3>3, <3>4
  <2> QED BY <2>1, <2>2
<1>9. ASSUME NEW i \in 1 .. n
      PROVE  u.prev[t[i]] = IF i = 1 THEN h ELSE t[i - 1]
  <2>1. CASE i = j
    BY <1>r, <1>0, <1>2, <1>5, <2>1
  <2>2. CASE i # j
    <3>1. t[i] = s[i] /\ s[i] \in ToSet(s) \ {s[j]}
      BY <1>2, <1>3, <1>4, <2>2
    <3>2. u.prev[t[i]] = IF s[i] = m.next[s[j]] THEN x ELSE m.prev[s[i]]
      BY <1>r, <3>1
    <3>3. CASE i = j + 1
      <4>1. s[i] = m.next[s[j]] /\ i # 1 /\ i - 1 = j
        BY <1>0, <1>5, <3>3
      <4> QED BY <1>2, <3>2, <4>1
    <3>4. CASE i # j + 1
      <4>1. s[i] # m.next[s[j]]
        <5>1. CASE j = n
          BY <1>4, <1>5, <5>1
        <5>2. CASE j # n
          <6>1. j + 1 \in 1 .. n /\ m.next[s[j]] = s[j + 1] /\ i # j + 1
            BY <1>0, <1>5, <3>4, <5>2
          <6> QED BY <1>3, <6>1
        <5> QED BY <5>1, <5>2
      <4>2. u.prev[t[i]] = IF i = 1 THEN h ELSE s[i - 1]
        BY <1>5, <3>2, <4>1
      <4>3. i # 1 => i - 1 \in 1 .. n /\ i - 1 # j
        BY <1>0, <3>4
      <4> QED BY <1>2, <4>2, <4>3
    <3> QED BY <3>3, <3>4
  <2> QED BY <2>1, <2>2
<1>10. ToSet(t) = (ToSet(s) \ {s[j]}) \cup {x}
  <2>1. ToSet(t) = {t[i] : i \in 1 .. n}
    BY <1>2, SeqMembers
  <2>2. \A y \in ToSet(t) : y \in (ToSet(s) \ {s[j]}) \cup {x}
    BY <1>2, <1>3, <1>4, <2>1
  <2>3. \A y \in ToSet(s) \ {s[j]} : y \in ToSet(t)
    BY <1>0, <1>2, <2>1
  <2>4. x \in ToSet(t)
    BY <1>2, <2>1
  <2> QED BY <2>2, <2>3, <2>4
<1>11. Chain(u, h, t)
  BY <1>2, <1>6, <1>7, <1>8, <1>9 DEF Chain
<1> QED BY <1>j, <1>10, <1>11

-----------------------------------------------------------------------------
(* The list of free runs.                                                  *)

LEMMA FreeFacts ==
    ASSUME NEW m \in Memory, NEW F, NEW s, FreeSound(m, F, s)
    PROVE  /\ F \subseteq Pages /\ F \subseteq Int /\ Chain(m, FreeHead, s)
           /\ ToSet(s) \subseteq F
           /\ \A h \in ToSet(s) : m.slab[h] \in 1 .. NPages /\ h \in Run(m, h) /\ Run(m, h) \subseteq F
           /\ \A h, g \in ToSet(s) : h # g => Run(m, h) \cap Run(m, g) = {}
           /\ \A p \in F : p - 1 \notin F => p \in ToSet(s)
           /\ \A p \in F : p + 1 \notin F => \E h \in ToSet(s) : p = h + m.slab[h] - 1
           /\ \A x \in ToSet(s) : m.next[x] \in Nodes /\ m.prev[x] \in Nodes /\ m.next[x] # Null
           /\ m.next[FreeHead] \in Nodes
<1>0. F \subseteq Pages /\ F \subseteq Int /\ Chain(m, FreeHead, s) /\ NPages \in Nat /\ FreeHead \in Heads
  BY Constants DEF FreeSound
<1>1. /\ ToSet(s) \subseteq Pages
      /\ \A x \in ToSet(s) : m.next[x] \in Nodes /\ m.prev[x] \in Nodes
      /\ m.next[FreeHead] \in Nodes
  BY <1>0, Neighbours
<1>2. \A h \in ToSet(s) : /\ m.slab[h] \in 1 .. NPages /\ Run(m, h) \subseteq F
                          /\ h - 1 \notin F /\ h + m.slab[h] \notin F
  BY DEF FreeSound
<1>3. \A h \in ToSet(s) : h \in Int /\ h \in Run(m, h)
  <2> TAKE h \in ToSet(s)
  <2>1. h \in Int /\ m.slab[h] \in 1 .. NPages
    BY <1>1, <1>2, Constants
  <2> QED BY <1>0, <2>1 DEF Run
<1>4. ToSet(s) \subseteq F
  BY <1>2, <1>3
<1>5. ASSUME NEW h \in ToSet(s), NEW p \in Run(m, h), p # h
      PROVE  p - 1 \in F /\ p \notin ToSet(s)
  <2>1. p - 1 \in Run(m, h)
    BY <1>2, <1>3, <1>5 DEF Run
  <2> QED BY <1>2, <2>1
<1>6. ASSUME NEW h \in ToSet(s), NEW g \in ToSet(s), h # g, NEW p \in Run(m, h), p \in Run(m, g)
      PROVE  FALSE
  <2>1. g \in Run(m, h) \/ h \in Run(m, g)
    BY <1>2, <1>3, <1>6 DEF Run
  <2> QED BY <1>5, <1>6, <2>1
<1>7. ASSUME NEW p \in F PROVE \E h \in ToSet(s) : p \in Run(m, h)
  BY DEF FreeSound
<1>8. ASSUME NEW p \in F, p - 1 \notin F PROVE p \in ToSet(s)
  BY <1>5, <1>7, <1>8
<1>9. ASSUME NEW p \in F, p + 1 \notin F PROVE \E h \in ToSet(s) : p = h + m.slab[h] - 1
  <2>1. PICK h \in ToSet(s) : p \in Run(m, h)
    BY <1>7
  <2>2. p + 1 \notin Run(m, h)
    BY <1>2, <1>9
  <2> QED BY <1>2, <1>3, <2>1, <2>2 DEF Run
<1>10. Null \notin Nodes
  BY Constants
<1> QED BY <1>0, <1>1, <1>2, <1>3, <1>4, <1>6, <1>8, <1>9, <1>10

LEMMA FreeMarks ==
    ASSUME NEW m, NEW F, NEW s, FreeSound(m, F, s)
    PROVE  /\ \A h \in ToSet(s) :
                 /\ h - 1 \notin F /\ h + m.slab[h] \notin F
                 /\ m.slab[h] > 1 /\ h + m.slab[h] < NPages => m.prev[h + m.slab[h] - 1] = h
           /\ \A q \in F : m.type[q] = PageType
           /\ \A q \in F \ ToSet(s) : m.slab[q] = PageFree /\ m.next[q] = Null
  BY DEF FreeSound

\* The links of the free pages and of the head are all that the list depends on.
LEMMA FreeFrame ==
    ASSUME NEW m \in Memory, NEW u, NEW F, NEW s, FreeSound(m, F, s),
           u.next[FreeHead] = m.next[FreeHead],
           \A p \in F : /\ u.next[p] = m.next[p] /\ u.prev[p] = m.prev[p]
                        /\ u.slab[p] = m.slab[p] /\ u.type[p] = m.type[p]
    PROVE  FreeSound(u, F, s)
<1>1. /\ Chain(m, FreeHead, s) /\ ToSet(s) \subseteq F /\ F \subseteq Pages
      /\ \A h \in ToSet(s) : h \in F /\ h + m.slab[h] - 1 \in Run(m, h) /\ Run(m, h) \subseteq F
  <2>1. \A h \in ToSet(s) : m.slab[h] \in 1 .. NPages /\ h \in F /\ Run(m, h) \subseteq F
    BY FreeFacts
  <2>2. F \subseteq Int /\ NPages \in Nat
    BY FreeFacts, Constants
  <2>3. \A h \in ToSet(s) : h + m.slab[h] - 1 \in Run(m, h)
    <3> TAKE h \in ToSet(s)
    <3>1. h \in Int /\ m.slab[h] \in 1 .. NPages
      BY <2>1, <2>2
    <3> QED BY <2>2, <3>1 DEF Run
  <2> QED BY <2>1, <2>3, FreeFacts
<1>2. Chain(u, FreeHead, s)
  BY <1>1, ChainFrame
<1>3. \A h \in ToSet(s) : Run(u, h) = Run(m, h) /\ u.slab[h] = m.slab[h]
  BY <1>1 DEF Run
<1>4. \A h \in ToSet(s) : u.prev[h + m.slab[h] - 1] = m.prev[h + m.slab[h] - 1]
  BY <1>1
<1>5. ASSUME NEW h \in ToSet(s)
      PROVE  /\ u.slab[h] \in 1 .. NPages
             /\ Run(u, h) \subseteq F
             /\ h - 1 \notin F /\ h + u.slab[h] \notin F
             /\ u.slab[h] > 1 /\ h + u.slab[h] < NPages => u.prev[h + u.slab[h] - 1] = h
  BY <1>3, <1>4 DEF FreeSound
<1>6. \A p \in F : u.type[p] = PageType /\ \E h \in ToSet(s) : p \in Run(u, h)
  BY <1>3 DEF FreeSound
<1>7. \A p \in F \ ToSet(s) : u.slab[p] = PageFree /\ u.next[p] = Null
  BY DEF FreeSound
<1> QED BY <1>1, <1>2, <1>5, <1>6, <1>7 DEF FreeSound

SameFree(m, u, F) ==
    /\ u.next[FreeHead] = m.next[FreeHead]
    /\ \A p \in F : /\ u.next[p] = m.next[p] /\ u.prev[p] = m.prev[p]
                    /\ u.slab[p] = m.slab[p] /\ u.type[p] = m.type[p]
LEMMA FreeKept ==
    ASSUME NEW m \in Memory, NEW u, NEW F, NEW s, FreeSound(m, F, s), SameFree(m, u, F)
    PROVE  FreeSound(u, F, s)
<1>1. u.next[FreeHead] = m.next[FreeHead]
  BY DEF SameFree
<1>2. \A p \in F : /\ u.next[p] = m.next[p] /\ u.prev[p] = m.prev[p]
                  /\ u.slab[p] = m.slab[p] /\ u.type[p] = m.type[p]
  BY DEF SameFree
<1> QED BY <1>1, <1>2, FreeFrame

\* A run leaves the list, and its pages are no longer counted as free.
Unlinked(m, u, F) ==
    /\ u \in Memory /\ u.slab = m.slab /\ u.type = m.type
    /\ \A y \in Nodes \ (F \cup {FreeHead}) : u.next[y] = m.next[y] /\ u.prev[y] = m.prev[y]
LEMMA UnlinkRun ==
    ASSUME NEW m \in Memory, NEW F, NEW s, FreeSound(m, F, s), NEW x \in ToSet(s),
           NEW u, u = Unlink(m, x)
    PROVE  /\ Unlinked(m, u, F \ Run(m, x))
           /\ \E t : FreeSound(u, F \ Run(m, x), t)
<1> DEFINE G == F \ Run(m, x)
<1>1. /\ F \subseteq Pages /\ F \subseteq Int /\ Chain(m, FreeHead, s) /\ ToSet(s) \subseteq F
      /\ \A h \in ToSet(s) : m.slab[h] \in 1 .. NPages /\ h \in Run(m, h) /\ Run(m, h) \subseteq F
      /\ \A h, g \in ToSet(s) : h # g => Run(m, h) \cap Run(m, g) = {}
  BY FreeFacts
<1>2. s \in Seq(Pages) /\ IsInjective(s) /\ ToSet(s) = {s[i] : i \in 1 .. Len(s)}
  BY <1>1, SeqMembers DEF Chain
<1>3. PICK j \in 1 .. Len(s) : x = s[j]
  BY <1>2
<1> DEFINE t == RemoveAt(s, j)
<1>4. ToSet(t) = ToSet(s) \ {x}
  BY <1>2, <1>3, RemoveMember
<1>5. FreeHead \in Heads /\ Pages \subseteq Nodes /\ FreeHead \in Nodes /\ NPages \in Nat /\ FreeHead \notin Pages
  BY Constants
<1>6. Chain(u, FreeHead, t)
  BY <1>1, <1>3, <1>5, UnlinkChain
<1> HIDE DEF t
<1>7. /\ m.next[x] \in ToSet(s) \cup {FreeHead} /\ m.prev[x] \in ToSet(s) \cup {FreeHead}
      /\ m.next[x] \in Nodes /\ m.prev[x] \in Nodes /\ x \in Nodes
  <2>1. /\ \A y \in ToSet(s) : m.next[y] \in ToSet(s) \cup {FreeHead} /\ m.prev[y] \in ToSet(s) \cup {FreeHead}
        /\ ToSet(s) \cup {FreeHead} \subseteq Nodes
    BY <1>1, <1>5, Neighbours
  <2> QED BY <2>1
<1>8. m.next[x] # x /\ m.prev[x] # x
  <2>1. /\ m.next[s[j]] = IF j = Len(s) THEN FreeHead ELSE s[j + 1]
        /\ m.prev[s[j]] = IF j = 1 THEN FreeHead ELSE s[j - 1]
    BY <1>1 DEF Chain
  <2>2. \A i, k \in 1 .. Len(s) : s[i] = s[k] => i = k
    BY <1>2 DEF IsInjective
  <2>3. x # FreeHead /\ Len(s) \in Nat
    BY <1>1, <1>2, <1>5
  <2> QED BY <1>3, <2>1, <2>2, <2>3
<1>9. /\ u \in Memory /\ u.slab = m.slab /\ u.type = m.type
      /\ \A y \in Nodes : u.next[y] = IF y = m.prev[x] THEN m.next[x] ELSE m.next[y]
      /\ \A y \in Nodes : u.prev[y] = IF y = m.next[x] THEN m.prev[x] ELSE m.prev[y]
  BY <1>7, UnlinkFields
<1>10. ToSet(t) \subseteq G
  BY <1>1, <1>4
<1>11. \A y \in Nodes : y \notin ToSet(t) \cup {FreeHead} => u.next[y] = m.next[y] /\ u.prev[y] = m.prev[y]
  BY <1>4, <1>7, <1>8, <1>9
<1>12. \A h \in ToSet(t) : Run(u, h) = Run(m, h) /\ u.slab[h] = m.slab[h]
  BY <1>9 DEF Run
<1>13. ASSUME NEW h \in ToSet(t)
       PROVE  /\ u.slab[h] \in 1 .. NPages
              /\ Run(u, h) \subseteq G
              /\ h - 1 \notin G /\ h + u.slab[h] \notin G
              /\ u.slab[h] > 1 /\ h + u.slab[h] < NPages => u.prev[h + u.slab[h] - 1] = h
  <2>1. h \in ToSet(s) /\ h # x
    BY <1>4
  <2>2. /\ m.slab[h] \in 1 .. NPages /\ Run(m, h) \subseteq G
        /\ h - 1 \notin F /\ h + m.slab[h] \notin F
    BY <1>1, <2>1 DEF FreeSound
  <2>3. ASSUME m.slab[h] > 1, h + m.slab[h] < NPages
        PROVE  u.prev[h + m.slab[h] - 1] = h
    <3> DEFINE l == h + m.slab[h] - 1
    <3>1. l \in Run(m, h) /\ l # h /\ h \in Int
      BY <1>1, <1>5, <2>1, <2>3 DEF Run
    <3>2. l \in Pages
      BY <1>1, <2>1, <3>1
    <3>3. l \notin ToSet(t)
      BY <1>1, <1>4, <2>1, <3>1
    <3>4. u.prev[l] = m.prev[l]
      BY <1>5, <1>11, <3>2, <3>3
    <3> QED BY <2>1, <2>3, <3>4 DEF FreeSound
  <2> QED BY <1>12, <2>2, <2>3
<1>14. ASSUME NEW p \in G
       PROVE  u.type[p] = PageType /\ \E h \in ToSet(t) : p \in Run(u, h)
  <2>1. PICK h \in ToSet(s) : p \in Run(m, h)
    BY DEF FreeSound
  <2>2. h \in ToSet(t)
    BY <1>4, <2>1
  <2>3. m.type[p] = PageType
    BY DEF FreeSound
  <2> QED BY <1>9, <1>12, <2>1, <2>2, <2>3
<1>15. ASSUME NEW p \in G \ ToSet(t)
       PROVE  u.slab[p] = PageFree /\ u.next[p] = Null
  <2>1. p \in F \ ToSet(s)
    BY <1>1, <1>4
  <2>2. m.slab[p] = PageFree /\ m.next[p] = Null
    BY <2>1 DEF FreeSound
  <2> QED BY <1>1, <1>5, <1>9, <1>11, <2>1, <2>2
<1>16. FreeSound(u, G, t)
  BY <1>1, <1>6, <1>13, <1>14, <1>15 DEF FreeSound
<1>17. Unlinked(m, u, G)
  BY <1>9, <1>10, <1>11 DEF Unlinked
<1> QED BY <1>16, <1>17

\* A run of n pages from p on that is in no list, while F are the free pages.
Loose(m, F, p, n) ==
    /\ n \in Nat \ {0} /\ p \in Pages /\ p + n <= NPages
    /\ (p .. p + n - 1) \cap F = {}
    /\ m.slab[p] = n
    /\ \A q \in p .. p + n - 1 : m.type[q] = PageType
    /\ \A q \in p + 1 .. p + n - 1 : m.slab[q] = PageFree /\ m.next[q] = Null

\* The descriptors of the pages outside X, and the links of all other lists, are
\* untouched.
Outside(m, u, X) ==
    /\ \A y \in Nodes \ (X \cup {FreeHead}) : u.next[y] = m.next[y] /\ u.prev[y] = m.prev[y]
    /\ \A q \in Pages \ X : u.slab[q] = m.slab[q] /\ u.type[q] = m.type[q]

\* A page in B cannot be taken for the first or the last page of a free run.
Recognised(m, B) ==
    \A q \in B : m.type[q] # PageType \/ (m.slab[q] # PageFree /\ m.next[q] = Null)

LEMMA LooseFacts ==
    ASSUME NEW m, NEW F, NEW p, NEW n, Loose(m, F, p, n)
    PROVE  /\ p \in Int /\ n \in Int /\ p >= 0 /\ n >= 1 /\ NPages \in Nat /\ p + n <= NPages
           /\ p .. p + n - 1 \subseteq Pages /\ p \in p .. p + n - 1 /\ p + n - 1 \in p .. p + n - 1
           /\ p \in Nodes /\ FreeHead \in Nodes /\ p # FreeHead /\ FreeHead \in Heads
           /\ FreeHead \notin Pages /\ Pages \subseteq Nodes /\ p \notin F
           /\ m.slab[p] = n /\ (p .. p + n - 1) \cap F = {}
<1>1. NPages \in Nat /\ Pages \subseteq Nodes /\ FreeHead \in Nodes /\ FreeHead \in Heads /\ FreeHead \notin Pages
  BY Constants
<1>2. p \in 0 .. NPages - 1 /\ n \in Nat \ {0} /\ p + n <= NPages /\ (p .. p + n - 1) \cap F = {} /\ m.slab[p] = n
  BY DEF Loose, Pages
<1>3. p .. p + n - 1 \subseteq Pages
  BY <1>1, <1>2 DEF Pages
<1>4. p \in p .. p + n - 1 /\ p + n - 1 \in p .. p + n - 1
  BY <1>1, <1>2
<1> QED BY <1>1, <1>2, <1>3, <1>4

\* The pages A are free, nothing else has changed.
Freed(m, u, A) == u \in Memory /\ Outside(m, u, A) /\ \E t : FreeSound(u, A, t)

\* The loose run becomes the first of the list.
LEMMA PushRun ==
    ASSUME NEW m \in Memory, NEW F, NEW s, FreeSound(m, F, s), NEW p, NEW n, Loose(m, F, p, n),
           p - 1 \notin F, p + n \notin F,
           n > 1 /\ p + n < NPages => m.prev[p + n - 1] = p,
           NEW u, u = PushFront(m, FreeHead, p)
    PROVE  Freed(m, u, F \cup (p .. p + n - 1))
<1> DEFINE R == p .. p + n - 1
           G == F \cup R
           t == <<p>> \o s
<1>1. /\ F \subseteq Pages /\ F \subseteq Int /\ Chain(m, FreeHead, s) /\ ToSet(s) \subseteq F
      /\ \A h \in ToSet(s) : m.slab[h] \in 1 .. NPages /\ h \in Run(m, h) /\ Run(m, h) \subseteq F
      /\ m.next[FreeHead] \in Nodes
  BY FreeFacts
<1>2. /\ p \in Int /\ n \in Int /\ p >= 0 /\ n >= 1 /\ NPages \in Nat /\ p + n <= NPages
      /\ R \subseteq Pages /\ p \in R
      /\ p \in Nodes /\ FreeHead \in Nodes /\ p # FreeHead /\ FreeHead \in Heads
      /\ FreeHead \notin Pages /\ Pages \subseteq Nodes /\ p \notin F /\ R \cap F = {} /\ m.slab[p] = n
  BY LooseFacts
<1>3. m.next[FreeHead] \in ToSet(s) \cup {FreeHead}
  BY <1>1, <1>2, Neighbours
<1>4. Chain(u, FreeHead, t)
  BY <1>1, <1>2, PushChain
<1>5. ToSet(t) = ToSet(s) \cup {p}
  <2>1. s \in Seq(Pages) /\ p \in Pages
    BY <1>1, <1>2 DEF Chain
  <2> QED BY <2>1, PushFacts
<1>6. /\ u \in Memory /\ u.slab = m.slab /\ u.type = m.type
      /\ \A y \in Nodes : u.next[y] = IF y = FreeHead THEN p ELSE IF y = p THEN m.next[FreeHead] ELSE m.next[y]
      /\ \A y \in Nodes : u.prev[y] = IF y = m.next[FreeHead] THEN p ELSE IF y = p THEN FreeHead ELSE m.prev[y]
  BY <1>1, <1>2, PushFields
<1> HIDE DEF t, R
<1>7. \A y \in Nodes : y \notin ToSet(t) \cup {FreeHead} => u.next[y] = m.next[y] /\ u.prev[y] = m.prev[y]
  BY <1>3, <1>5, <1>6
<1>8. \A h : Run(u, h) = Run(m, h)
  BY <1>6 DEF Run
<1>9. Run(m, p) = R
  BY <1>2 DEF Run, R
<1>10. \A h \in ToSet(s) : m.slab[h] > 1 => h + m.slab[h] - 1 \in F \ ToSet(s)
  <2> SUFFICES ASSUME NEW h \in ToSet(s), m.slab[h] > 1
               PROVE  h + m.slab[h] - 1 \in F \ ToSet(s)
    OBVIOUS
  <2>1. h \in Int /\ m.slab[h] \in 1 .. NPages
    BY <1>1
  <2>2. h + m.slab[h] - 1 \in Run(m, h) /\ h + m.slab[h] - 1 # h
    BY <1>2, <2>1 DEF Run
  <2>3. \A g \in ToSet(s) : g # h => Run(m, h) \cap Run(m, g) = {}
    BY FreeFacts
  <2> QED BY <1>1, <2>2, <2>3
<1>11. ASSUME NEW h \in ToSet(s)
       PROVE  /\ u.slab[h] \in 1 .. NPages
              /\ Run(u, h) \subseteq G
              /\ h - 1 \notin G /\ h + u.slab[h] \notin G
              /\ u.slab[h] > 1 /\ h + u.slab[h] < NPages => u.prev[h + u.slab[h] - 1] = h
  <2>1. /\ m.slab[h] \in 1 .. NPages /\ Run(m, h) \subseteq F /\ h \in F
        /\ h - 1 \notin F /\ h + m.slab[h] \notin F
        /\ m.slab[h] > 1 /\ h + m.slab[h] < NPages => m.prev[h + m.slab[h] - 1] = h
    BY <1>1 DEF FreeSound
  <2>2. h \in Int
    BY <1>1
  <2>3. h - 1 \notin R
    <3> SUFFICES ASSUME h - 1 \in R PROVE FALSE
      OBVIOUS
    <3>1. h \in R \/ h = p + n
      BY <1>2, <2>2 DEF R
    <3> QED BY <1>2, <2>1, <3>1
  <2>4. h + m.slab[h] \notin R
    <3> SUFFICES ASSUME h + m.slab[h] \in R PROVE FALSE
      OBVIOUS
    <3>1. h + m.slab[h] - 1 \in F
      <4>1. h + m.slab[h] - 1 \in Run(m, h)
        BY <1>2, <2>1, <2>2 DEF Run
      <4> QED BY <2>1, <4>1
    <3>2. h + m.slab[h] - 1 \in R \/ h + m.slab[h] - 1 = p - 1
      BY <1>2, <2>1, <2>2 DEF R
    <3> QED BY <1>2, <3>1, <3>2
  <2>5. m.slab[h] > 1 => u.prev[h + m.slab[h] - 1] = m.prev[h + m.slab[h] - 1]
    <3> SUFFICES ASSUME m.slab[h] > 1 PROVE u.prev[h + m.slab[h] - 1] = m.prev[h + m.slab[h] - 1]
      OBVIOUS
    <3>1. h + m.slab[h] - 1 \in F \ ToSet(s)
      BY <1>10
    <3>2. h + m.slab[h] - 1 \in Nodes /\ h + m.slab[h] - 1 \notin ToSet(t) \cup {FreeHead}
      BY <1>1, <1>2, <1>5, <3>1
    <3> QED BY <1>7, <3>2
  <2> QED BY <1>6, <1>8, <2>1, <2>3, <2>4, <2>5
<1>12. /\ u.slab[p] \in 1 .. NPages
       /\ Run(u, p) \subseteq G
       /\ p - 1 \notin G /\ p + u.slab[p] \notin G
       /\ u.slab[p] > 1 /\ p + u.slab[p] < NPages => u.prev[p + u.slab[p] - 1] = p
  <2>1. n <= NPages
    BY <1>2
  <2>2. p - 1 \notin R /\ p + n \notin R
    BY <1>2 DEF R
  <2>3. n > 1 => p + n - 1 \in R /\ p + n - 1 # p
    BY <1>2 DEF R
  <2>4. n > 1 => u.prev[p + n - 1] = m.prev[p + n - 1]
    BY <1>1, <1>2, <1>5, <1>7, <2>3
  <2> QED BY <1>2, <1>6, <1>8, <1>9, <2>1, <2>2, <2>4
<1>13. ASSUME NEW q \in G
       PROVE  u.type[q] = PageType /\ \E h \in ToSet(t) : q \in Run(u, h)
  <2>1. CASE q \in F
    BY <1>5, <1>6, <1>8, <2>1 DEF FreeSound
  <2>2. CASE q \in R
    <3>1. m.type[q] = PageType
      BY <2>2 DEF Loose, R
    <3>2. p \in ToSet(t) /\ q \in Run(u, p)
      BY <1>5, <1>8, <1>9, <2>2
    <3> QED BY <1>6, <3>1, <3>2
  <2> QED BY <2>1, <2>2
<1>14. ASSUME NEW q \in G \ ToSet(t)
       PROVE  u.slab[q] = PageFree /\ u.next[q] = Null
  <2>1. u.next[q] = m.next[q] /\ u.slab[q] = m.slab[q]
    BY <1>1, <1>2, <1>6, <1>7
  <2>2. CASE q \in F
    BY <1>5, <2>1, <2>2 DEF FreeSound
  <2>3. CASE q \in R
    <3>1. q \in p + 1 .. p + n - 1
      BY <1>2, <1>5, <2>3 DEF R
    <3> QED BY <2>1, <3>1 DEF Loose
  <2> QED BY <2>2, <2>3
<1>15. FreeSound(u, G, t)
  BY <1>1, <1>2, <1>4, <1>5, <1>11, <1>12, <1>13, <1>14 DEF FreeSound
<1>16. Outside(m, u, G)
  BY <1>1, <1>2, <1>5, <1>6, <1>7 DEF Outside
<1> QED BY <1>6, <1>15, <1>16 DEF Freed, R

\* The last page of the loose run points back to its first.
LEMMA PointBackFacts ==
    ASSUME NEW m \in Memory, NEW F, NEW s, FreeSound(m, F, s), NEW p, NEW n, Loose(m, F, p, n)
    PROVE  LET u == PointBack(m, p) IN
           /\ u \in Memory /\ FreeSound(u, F, s) /\ Loose(u, F, p, n)
           /\ n > 1 => u.prev[p + n - 1] = p
           /\ Outside(m, u, F \cup (p .. p + n - 1))
<1> DEFINE u == PointBack(m, p)
           R == p .. p + n - 1
           l == p + n - 1
           f == [m.prev EXCEPT ![l] = p]
<1>1. /\ p \in Int /\ n \in Int /\ n >= 1 /\ R \subseteq Pages /\ l \in R /\ R \cap F = {}
      /\ Pages \subseteq Nodes /\ p \in Nodes /\ m.slab[p] = n /\ FreeHead \notin Pages
  BY LooseFacts
<1>2. F \subseteq Pages
  BY FreeFacts
<1>3. CASE n > 1
  <2>1. m.prev \in Links
    BY DEF Memory, Links
  <2>2. f \in Links /\ f[l] = p /\ \A y \in Nodes : y # l => f[y] = m.prev[y]
    BY <1>1, <2>1 DEF Links
  <2>3. u = [m EXCEPT !.prev = f]
    BY <1>1, <1>3 DEF PointBack, Memory
  <2> HIDE DEF f, u
  <2>4. u \in Memory /\ u.next = m.next /\ u.prev = f /\ u.slab = m.slab /\ u.type = m.type
    BY <2>2, <2>3, SetPrev
  <2>5. FreeSound(u, F, s)
    <3>1. \A q \in F : u.prev[q] = m.prev[q]
      BY <1>1, <1>2, <2>2, <2>4
    <3> QED BY <2>4, <3>1, FreeFrame
  <2>6. Loose(u, F, p, n)
    BY <2>4 DEF Loose
  <2>7. Outside(m, u, F \cup R)
    BY <1>1, <2>2, <2>4 DEF Outside
  <2> QED BY <2>2, <2>4, <2>5, <2>6, <2>7 DEF u
<1>4. CASE ~(n > 1)
  <2>1. u = m
    BY <1>1, <1>4 DEF PointBack
  <2> QED BY <1>4, <2>1 DEF Outside
<1> QED BY <1>3, <1>4

\* A run is joined: the descriptor b is cleared and the run at c grows.
LEMMA AbsorbFields ==
    ASSUME NEW m \in Memory, NEW b \in Pages, NEW c \in Pages, b # c,
           m.slab[c] + m.slab[b] \in PageBusy .. PageStart + NPages,
           NEW u, u = Absorb(m, b, c)
    PROVE  /\ u \in Memory /\ u.type = m.type
           /\ \A y \in Nodes : /\ u.next[y] = IF y = b THEN Null ELSE m.next[y]
                              /\ u.prev[y] = IF y = b THEN Null ELSE m.prev[y]
           /\ \A q \in Pages : u.slab[q] = IF q = c THEN m.slab[c] + m.slab[b]
                                           ELSE IF q = b THEN PageFree ELSE m.slab[q]
<1> DEFINE f == [m.next EXCEPT ![b] = Null]
           g == [m.prev EXCEPT ![b] = Null]
           k == [m.slab EXCEPT ![b] = PageFree, ![c] = m.slab[c] + m.slab[b]]
           v == [m EXCEPT !.next = f]
           w == [v EXCEPT !.prev = g]
<1>1. /\ m.next \in Links /\ m.prev \in Links /\ m.slab \in [Pages -> PageBusy .. PageStart + NPages]
      /\ Pages \subseteq Nodes
  BY Constants DEF Memory, Links
<1>2. /\ f \in Links /\ \A y \in Nodes : f[y] = IF y = b THEN Null ELSE m.next[y]
      /\ g \in Links /\ \A y \in Nodes : g[y] = IF y = b THEN Null ELSE m.prev[y]
  BY <1>1 DEF Links
<1>3. PageFree \in PageBusy .. PageStart + NPages
  BY Constants DEF PageFree, PageBusy, PageStart
<1>4. /\ k \in [Pages -> PageBusy .. PageStart + NPages]
      /\ \A q \in Pages : k[q] = IF q = c THEN m.slab[c] + m.slab[b] ELSE IF q = b THEN PageFree ELSE m.slab[q]
  BY <1>1, <1>3
<1>5. u = [w EXCEPT !.slab = k]
  BY DEF Absorb, Memory
<1> HIDE DEF f, g, k
<1>6. v \in Memory /\ v.next = f /\ v.slab = m.slab /\ v.type = m.type
  BY <1>2, SetNext
<1> HIDE DEF v
<1>7. w \in Memory /\ w.next = f /\ w.prev = g /\ w.slab = m.slab /\ w.type = m.type
  BY <1>2, <1>6, SetPrev
<1> HIDE DEF w
<1>8. u \in Memory /\ u.next = f /\ u.prev = g /\ u.slab = k /\ u.type = m.type
  BY <1>4, <1>5, <1>7, SetSlab
<1> QED BY <1>2, <1>4, <1>8

\* A listed run and the loose one that lie side by side become one loose run.
JoinedRun(m, u, F, h, c, l, R) ==
    /\ u \in Memory
    /\ \E t : FreeSound(u, F \ Run(m, h), t)
    /\ Loose(u, F \ Run(m, h), c, l)
    /\ c .. c + l - 1 = Run(m, h) \cup R
    /\ Outside(m, u, F \cup R)
LEMMA JoinRuns ==
    ASSUME NEW m \in Memory, NEW F, NEW s, FreeSound(m, F, s), NEW p, NEW n, Loose(m, F, p, n),
           NEW h \in ToSet(s), NEW c, NEW b,
           \/ c = p /\ b = h /\ p + n = h
           \/ c = h /\ b = p /\ h + m.slab[h] = p,
           NEW u, u = Absorb(Unlink(m, h), b, c)
    PROVE  JoinedRun(m, u, F, h, c, m.slab[h] + n, p .. p + n - 1)
<1> DEFINE v == Unlink(m, h)
           R == p .. p + n - 1
           k == m.slab[h]
           N == k + n
           G == F \ Run(m, h)
<1>1. /\ p \in Int /\ n \in Int /\ n >= 1 /\ NPages \in Nat /\ p >= 0
      /\ R \subseteq Pages /\ p \in R /\ p + n - 1 \in R /\ R \cap F = {}
      /\ Pages \subseteq Nodes /\ m.slab[p] = n /\ FreeHead \notin Pages /\ p + n <= NPages
      /\ p \in Pages /\ FreeHead \in Nodes
  BY LooseFacts
<1>2. /\ F \subseteq Pages /\ F \subseteq Int /\ ToSet(s) \subseteq F
      /\ k \in 1 .. NPages /\ h \in Run(m, h) /\ Run(m, h) \subseteq F
      /\ \A g \in ToSet(s) : g # h => Run(m, h) \cap Run(m, g) = {}
      /\ \A g \in ToSet(s) : g \in Run(m, g)
  BY FreeFacts
<1>0. v = Unlink(m, h) /\ u = Absorb(v, b, c)
  OBVIOUS
<1> HIDE DEF v
<1>4. Unlinked(m, v, G) /\ \E t : FreeSound(v, G, t)
  BY <1>0, UnlinkRun
<1>3. /\ v \in Memory /\ v.slab = m.slab /\ v.type = m.type
      /\ \A y \in Nodes \ (G \cup {FreeHead}) : v.next[y] = m.next[y] /\ v.prev[y] = m.prev[y]
  BY <1>4 DEF Unlinked
<1>t. PICK t : FreeSound(v, G, t)
  BY <1>4
<1>5. h \in Int /\ k \in Int /\ k >= 1 /\ h \in Pages /\ h \notin R /\ p # h
  <2>1. h \in F
    BY <1>2
  <2>2. h \notin R /\ p # h
    BY <1>1, <2>1, Zenon
  <2> QED BY <1>1, <1>2, <2>1, <2>2
<1>6. h \in 0 .. NPages - 1 /\ h + k <= NPages
  <2>1. h + k - 1 \in Run(m, h)
    BY <1>5 DEF Run
  <2>2. h + k - 1 \in Pages /\ h \in Pages
    BY <1>2, <1>5, <2>1
  <2> QED BY <1>1, <1>5, <2>2 DEF Pages
<1>7. /\ b \in Pages /\ c \in Pages /\ b # c /\ m.slab[c] + m.slab[b] = N
      /\ b \in {h, p} /\ c \in {h, p} /\ c \in Int /\ c + N <= NPages
  BY <1>1, <1>5, <1>6
<1>8. c .. c + N - 1 = Run(m, h) \cup R
  BY <1>1, <1>5 DEF Run
<1>9. m.slab[c] + m.slab[b] \in PageBusy .. PageStart + NPages
  <2>1. N >= 1 /\ N <= NPages /\ N \in Int
    BY <1>1, <1>5, <1>6, <1>7 DEF Pages
  <2> QED BY <1>1, <1>7, <2>1 DEF PageBusy, PageStart
<1>10. /\ u \in Memory /\ u.type = m.type
       /\ \A y \in Nodes : /\ u.next[y] = IF y = b THEN Null ELSE v.next[y]
                          /\ u.prev[y] = IF y = b THEN Null ELSE v.prev[y]
       /\ \A q \in Pages : u.slab[q] = IF q = c THEN N ELSE IF q = b THEN PageFree ELSE m.slab[q]
  <2>1. v.slab[c] + v.slab[b] \in PageBusy .. PageStart + NPages
    BY <1>3, <1>9
  <2>2. /\ u \in Memory /\ u.type = v.type
        /\ \A y \in Nodes : /\ u.next[y] = IF y = b THEN Null ELSE v.next[y]
                           /\ u.prev[y] = IF y = b THEN Null ELSE v.prev[y]
        /\ \A q \in Pages : u.slab[q] = IF q = c THEN v.slab[c] + v.slab[b]
                                        ELSE IF q = b THEN PageFree ELSE v.slab[q]
    BY <1>0, <1>3, <1>7, <2>1, AbsorbFields, SMTT(30)
  <2> QED BY <1>3, <1>7, <2>2
<1>11. b \notin G /\ c \notin G /\ G \subseteq Pages
  BY <1>1, <1>2, <1>7
<1>12. FreeSound(u, G, t)
  <2>1. u.next[FreeHead] = v.next[FreeHead]
    BY <1>1, <1>7, <1>10
  <2>2. \A q \in G : /\ u.next[q] = v.next[q] /\ u.prev[q] = v.prev[q]
                     /\ u.slab[q] = v.slab[q] /\ u.type[q] = v.type[q]
    BY <1>1, <1>3, <1>10, <1>11
  <2> QED BY <1>3, <1>t, <2>1, <2>2, FreeFrame
<1>13. Loose(u, G, c, N)
  <2>1. (c .. c + N - 1) \cap G = {}
    BY <1>1, <1>8
  <2>2. \A q \in c .. c + N - 1 : u.type[q] = PageType
    <3>1. \A q \in Run(m, h) : m.type[q] = PageType
      BY <1>2 DEF FreeSound
    <3>2. \A q \in R : m.type[q] = PageType
      BY DEF Loose
    <3> QED BY <1>8, <1>10, <3>1, <3>2
  <2>3. ASSUME NEW q \in c + 1 .. c + N - 1
        PROVE  u.slab[q] = PageFree /\ u.next[q] = Null
    <3>1. q \in Run(m, h) \cup R /\ q # c /\ q \in Pages /\ q \in Nodes
      BY <1>1, <1>2, <1>5, <1>7, <1>8
    <3>2. CASE q = b
      BY <1>10, <3>1, <3>2
    <3>3. CASE q # b
      <4>1. q # h /\ q # p
        BY <1>7, <3>1, <3>3
      <4>2. v.next[q] = m.next[q]
        BY <1>1, <1>3, <3>1
      <4>3. m.slab[q] = PageFree /\ m.next[q] = Null
        <5>1. CASE q \in Run(m, h)
          <6>1. q \in F \ ToSet(s)
            BY <1>2, <4>1, <5>1
          <6> QED BY <6>1 DEF FreeSound
        <5>2. CASE q \in R
          <6>1. q \in p + 1 .. p + n - 1
            BY <1>1, <4>1, <5>2
          <6> QED BY <6>1 DEF Loose
        <5> QED BY <3>1, <5>1, <5>2
      <4> QED BY <1>10, <3>1, <3>3, <4>2, <4>3
    <3> QED BY <3>2, <3>3
  <2>4. N \in Nat \ {0} /\ u.slab[c] = N
    BY <1>1, <1>5, <1>7, <1>10
  <2> QED BY <1>7, <2>1, <2>2, <2>3, <2>4 DEF Loose
<1>14. Outside(m, u, F \cup R)
  <2>1. ASSUME NEW y \in Nodes \ ((F \cup R) \cup {FreeHead})
        PROVE  u.next[y] = m.next[y] /\ u.prev[y] = m.prev[y]
    BY <1>1, <1>2, <1>3, <1>7, <1>10
  <2>2. ASSUME NEW q \in Pages \ (F \cup R)
        PROVE  u.slab[q] = m.slab[q] /\ u.type[q] = m.type[q]
    <3>1. h \in F \cup R /\ p \in F \cup R
      BY <1>1, <1>2
    <3>2. q \in Pages /\ q # b /\ q # c
      BY <1>7, <3>1
    <3> QED BY <1>10, <3>2
  <2> QED BY <2>1, <2>2 DEF Outside
<1> QED BY <1>8, <1>10, <1>12, <1>13, <1>14 DEF JoinedRun

LEMMA OutsideTrans ==
    ASSUME NEW m, NEW v, NEW u, NEW X, Outside(m, v, X), Outside(v, u, X)
    PROVE  Outside(m, u, X)
  BY DEF Outside

LEMMA RecognisedFrame ==
    ASSUME NEW m, NEW u, NEW X, X \subseteq Pages, Outside(m, u, X), Recognised(m, Pages \ X)
    PROVE  Recognised(u, Pages \ X)
<1>1. Pages \subseteq Nodes /\ FreeHead \notin Pages
  BY Constants
<1>2. \A q \in Pages \ X : u.next[q] = m.next[q] /\ u.slab[q] = m.slab[q] /\ u.type[q] = m.type[q]
  BY <1>1 DEF Outside
<1> QED BY <1>2 DEF Recognised

\* The pages A are free, those of a loose run at c and those of the listed runs.
Merging(u, A, c) ==
    \E G, t, l : /\ FreeSound(u, G, t) /\ Loose(u, G, c, l) /\ G \cup (c .. c + l - 1) = A
                 /\ c + l \notin G

LEMMA JoinNextFacts ==
    ASSUME NEW m \in Memory, NEW F, NEW s, FreeSound(m, F, s), NEW p, NEW n, Loose(m, F, p, n),
           Recognised(m, Pages \ (F \cup (p .. p + n - 1))), NEW u, u = JoinNext(m, p)
    PROVE  /\ u \in Memory /\ Outside(m, u, F \cup (p .. p + n - 1))
           /\ Merging(u, F \cup (p .. p + n - 1), p)
<1> DEFINE R == p .. p + n - 1
           h == p + n
<1>1. /\ p \in Int /\ n \in Int /\ n >= 1 /\ NPages \in Nat /\ p >= 0
      /\ R \subseteq Pages /\ h - 1 \in R /\ R \cap F = {} /\ m.slab[p] = n /\ h <= NPages
  BY LooseFacts
<1>2. CASE h \in F
  <2>1. h \in ToSet(s)
    BY <1>1, <1>2, FreeFacts
  <2>2. /\ m.slab[h] \in 1 .. NPages /\ Run(m, h) \subseteq F /\ m.next[h] # Null /\ h \in Pages
        /\ h + m.slab[h] \notin F /\ m.type[h] = PageType
    BY <1>2, <2>1, FreeFacts, FreeMarks
  <2>3. h < NPages
    BY <1>1, <2>2 DEF Pages
  <2>4. u = Absorb(Unlink(m, h), h, p)
    BY <1>1, <2>2, <2>3 DEF JoinNext
  <2> DEFINE G == F \ Run(m, h)
             l == m.slab[h] + n
  <2>9. JoinedRun(m, u, F, h, p, l, R)
    BY <2>1, <2>4, JoinRuns
  <2>5. /\ u \in Memory /\ (\E t : FreeSound(u, G, t)) /\ Loose(u, G, p, l)
        /\ p .. p + l - 1 = Run(m, h) \cup R /\ Outside(m, u, F \cup R)
    BY <2>9 DEF JoinedRun
  <2>6. G \cup (p .. p + l - 1) = F \cup R
    BY <2>2, <2>5
  <2>7. p + l \notin G
    BY <1>1, <2>2
  <2> HIDE DEF G, l
  <2> QED BY <2>5, <2>6, <2>7 DEF Merging
<1>3. CASE h \notin F
  <2>1. h \in Pages => h \in Pages \ (F \cup R)
    BY <1>1, <1>3
  <2>2. h < NPages => h \in Pages
    BY <1>1 DEF Pages
  <2>3. PageFree # n
    BY <1>1 DEF PageFree
  <2>4. u = m
    BY <1>1, <2>1, <2>2 DEF JoinNext, Recognised
  <2>5. Outside(m, m, F \cup R)
    BY DEF Outside
  <2> QED BY <1>3, <2>4, <2>5 DEF Merging
<1> QED BY <1>2, <1>3

LEMMA JoinPrevFacts ==
    ASSUME NEW m \in Memory, NEW F, NEW s, FreeSound(m, F, s), NEW p, NEW n, Loose(m, F, p, n),
           p + n \notin F,
           Recognised(m, Pages \ (F \cup (p .. p + n - 1))), NEW u, u = JoinPrev(m, p)
    PROVE  /\ u \in Memory /\ Outside(m, u, F \cup (p .. p + n - 1))
           /\ Merging(u, F \cup (p .. p + n - 1), RunBefore(m, p))
           /\ RunBefore(m, p) - 1 \notin F \cup (p .. p + n - 1)
<1> DEFINE R == p .. p + n - 1
           last == p - 1
<1>1. /\ p \in Int /\ n \in Int /\ n >= 1 /\ NPages \in Nat /\ p >= 0 /\ p < NPages
      /\ R \subseteq Pages /\ R \cap F = {} /\ m.slab[p] = n /\ p \notin F
  BY LooseFacts
<1>2. CASE last \in F
  <2>1. last + 1 \notin F
    BY <1>1
  <2>2. PICK g \in ToSet(s) : last = g + m.slab[g] - 1
    BY <1>2, <2>1, FreeFacts
  <2>3. /\ m.slab[g] \in 1 .. NPages /\ Run(m, g) \subseteq F /\ m.next[g] # Null /\ g \in Int
        /\ g \in F /\ g - 1 \notin F /\ m.type[last] = PageType
    BY <1>2, FreeFacts, FreeMarks
  <2>4. g + m.slab[g] = p
    BY <1>1, <2>2, <2>3
  <2>5. last > -1 /\ last \in Run(m, g)
    <3>1. last \in Pages
      BY <1>2 DEF FreeSound
    <3> QED BY <1>1, <2>2, <2>3, <3>1 DEF Pages, Run
  <2>6. m.slab[last] = PageFree => m.prev[last] = g
    <3> SUFFICES ASSUME m.slab[last] = PageFree PROVE m.prev[last] = g
      OBVIOUS
    <3>1. m.slab[g] > 1
      BY <1>1, <2>2, <2>3 DEF PageFree
    <3>2. g + m.slab[g] < NPages
      BY <1>1, <2>4
    <3>3. m.prev[g + m.slab[g] - 1] = g
      BY <3>1, <3>2 DEF FreeSound
    <3> QED BY <2>2, <3>3
  <2>7. m.slab[last] # PageFree => last = g
    <3> SUFFICES ASSUME m.slab[last] # PageFree PROVE last = g
      OBVIOUS
    <3>1. last \in ToSet(s)
      BY <1>2 DEF FreeSound
    <3>2. last \in Run(m, last)
      BY <3>1, FreeFacts
    <3>3. last # g => Run(m, last) \cap Run(m, g) = {}
      BY <3>1, FreeFacts
    <3> QED BY <2>5, <3>2, <3>3
  <2>8. RunBefore(m, p) = g
    <3>1. (IF m.slab[last] = PageFree THEN m.prev[last] ELSE last) = g
      BY <2>6, <2>7
    <3>2. p > 0
      BY <1>1, <2>5
    <3> QED BY <2>3, <3>1, <3>2, Zenon DEF RunBefore
  <2>9. g # p
    BY <1>1, <2>3
  <2>10. u = Absorb(Unlink(m, g), p, g)
    BY <2>8, <2>9 DEF JoinPrev
  <2> DEFINE G == F \ Run(m, g)
             l == m.slab[g] + n
  <2>14. JoinedRun(m, u, F, g, g, l, R)
    BY <2>4, <2>10, JoinRuns
  <2>11. /\ u \in Memory /\ (\E t : FreeSound(u, G, t)) /\ Loose(u, G, g, l)
         /\ g .. g + l - 1 = Run(m, g) \cup R /\ Outside(m, u, F \cup R)
    BY <2>14 DEF JoinedRun
  <2>12. G \cup (g .. g + l - 1) = F \cup R
    BY <2>3, <2>11
  <2>13. g + l \notin G
    <3>1. g + l = p + n
      BY <1>1, <2>3, <2>4
    <3> QED BY <3>1
  <2> HIDE DEF G, l
  <2>15. g - 1 \notin R
    BY <1>1, <2>3, <2>4
  <2> QED BY <2>3, <2>8, <2>11, <2>12, <2>13, <2>15 DEF Merging
<1>3. CASE last \notin F
  <2>1. p > 0 => last \in Pages \ (F \cup R)
    BY <1>1, <1>3 DEF Pages
  <2>2. RunBefore(m, p) = p
    BY <2>1 DEF RunBefore, Recognised
  <2>3. u = m
    BY <2>2 DEF JoinPrev
  <2>4. Outside(m, m, F \cup R)
    BY DEF Outside
  <2>5. last \notin R
    BY <1>1
  <2> QED BY <1>3, <2>2, <2>3, <2>4, <2>5 DEF Merging
<1> QED BY <1>2, <1>3

\* What pgrest_slab_free_pages does once the pages are marked free.
Merge(m, page) ==
    LET joined == JoinNext(m, page)
        head   == RunBefore(joined, page)
    IN  PushFront(PointBack(JoinPrev(joined, page), head), FreeHead, head)

LEMMA MergeFacts ==
    ASSUME NEW m \in Memory, NEW F, NEW s, FreeSound(m, F, s), NEW p, NEW n, Loose(m, F, p, n),
           Recognised(m, Pages \ (F \cup (p .. p + n - 1))), NEW u, u = Merge(m, p)
    PROVE  Freed(m, u, F \cup (p .. p + n - 1))
<1> DEFINE A == F \cup (p .. p + n - 1)
           v == JoinNext(m, p)
           h == RunBefore(v, p)
           w == JoinPrev(v, p)
           x == PointBack(w, h)
<1>0. v = JoinNext(m, p) /\ w = JoinPrev(v, p) /\ u = PushFront(x, FreeHead, h)
  BY DEF Merge
<1>1. A \subseteq Pages
  BY FreeFacts, LooseFacts
<1>2. v \in Memory /\ Outside(m, v, A) /\ Merging(v, A, p)
  BY <1>0, JoinNextFacts
<1> HIDE DEF v
<1>3. PICK F1, t1, n1 : /\ FreeSound(v, F1, t1) /\ Loose(v, F1, p, n1)
                        /\ F1 \cup (p .. p + n1 - 1) = A /\ p + n1 \notin F1
  BY <1>2 DEF Merging
<1>4. Recognised(v, Pages \ A)
  BY <1>1, <1>2, RecognisedFrame
<1> HIDE DEF A, w
<1>5. w \in Memory /\ Outside(v, w, A) /\ Merging(w, A, h) /\ h - 1 \notin A
  BY <1>0, <1>2, <1>3, <1>4, JoinPrevFacts
<1> HIDE DEF h, x
<1>6. PICK F2, t2, n2 : /\ FreeSound(w, F2, t2) /\ Loose(w, F2, h, n2)
                        /\ F2 \cup (h .. h + n2 - 1) = A /\ h + n2 \notin F2
  BY <1>5 DEF Merging
<1>7. /\ x \in Memory /\ FreeSound(x, F2, t2) /\ Loose(x, F2, h, n2)
      /\ n2 > 1 => x.prev[h + n2 - 1] = h
      /\ Outside(w, x, A)
  BY <1>5, <1>6, PointBackFacts DEF x
<1>8. h - 1 \notin F2
  BY <1>5, <1>6
<1>9. Freed(x, u, A)
  BY <1>0, <1>6, <1>7, <1>8, PushRun
<1>10. Outside(m, u, A)
  BY <1>2, <1>5, <1>7, <1>9, OutsideTrans DEF Freed
<1> QED BY <1>9, <1>10 DEF Freed, A

-----------------------------------------------------------------------------
(* Pages become free.                                                      *)

\* The descriptors of a run that is given back, before it leaves its list.
Mark(m, page, n) ==
    LET inner == page + 1 .. page + n - 1
    IN  [m EXCEPT
           !.slab = [p \in Pages |-> CASE p = page -> n
                                       [] p \in inner -> PageFree
                                       [] OTHER -> @[p]],
           !.next = [x \in Nodes |-> IF x \in inner THEN Null ELSE @[x]],
           !.prev = [x \in Nodes |-> IF x \in inner THEN Null ELSE @[x]],
           !.type[page] = PageType]

Marked(m, u, p, n) ==
    /\ u \in Memory
    /\ \A y \in Nodes : u.next[y] = IF y \in p + 1 .. p + n - 1 THEN Null ELSE m.next[y]
    /\ \A y \in Nodes : u.prev[y] = IF y \in p + 1 .. p + n - 1 THEN Null ELSE m.prev[y]
    /\ \A q \in Pages : u.slab[q] = IF q = p THEN n
                                    ELSE IF q \in p + 1 .. p + n - 1 THEN PageFree ELSE m.slab[q]
    /\ \A q \in Pages : u.type[q] = IF q = p THEN PageType ELSE m.type[q]

LEMMA MarkFields ==
    ASSUME NEW m \in Memory, NEW p \in Pages, NEW n \in 1 .. NPages, NEW u, u = Mark(m, p, n)
    PROVE  Marked(m, u, p, n)
<1> DEFINE inner == p + 1 .. p + n - 1
           f == [x \in Nodes |-> IF x \in inner THEN Null ELSE m.next[x]]
           g == [x \in Nodes |-> IF x \in inner THEN Null ELSE m.prev[x]]
           k == [q \in Pages |-> CASE q = p -> n [] q \in inner -> PageFree [] OTHER -> m.slab[q]]
           e == [m.type EXCEPT ![p] = PageType]
           v == [m EXCEPT !.slab = k]
           w == [v EXCEPT !.next = f]
           x == [w EXCEPT !.prev = g]
<1>1. /\ m.next \in Links /\ m.prev \in Links /\ m.slab \in [Pages -> PageBusy .. PageStart + NPages]
      /\ m.type \in [Pages -> {PageType} \cup Classes]
  BY DEF Memory, Links
<1>2. f \in Links /\ g \in Links
  BY <1>1 DEF Links
<1>3. PageFree \in PageBusy .. PageStart + NPages /\ n \in PageBusy .. PageStart + NPages
  BY Constants DEF PageFree, PageBusy, PageStart
<1>4. \A q \in Pages : k[q] = IF q = p THEN n ELSE IF q \in inner THEN PageFree ELSE m.slab[q]
  OBVIOUS
<1>5. k \in [Pages -> PageBusy .. PageStart + NPages]
  BY <1>1, <1>3
<1>6. /\ e \in [Pages -> {PageType} \cup Classes]
      /\ \A q \in Pages : e[q] = IF q = p THEN PageType ELSE m.type[q]
  BY <1>1
<1>7. /\ \A y \in Nodes : f[y] = IF y \in inner THEN Null ELSE m.next[y]
      /\ \A y \in Nodes : g[y] = IF y \in inner THEN Null ELSE m.prev[y]
  OBVIOUS
<1>8. u = [x EXCEPT !.type = e]
  BY DEF Mark, Memory
<1> HIDE DEF f, g, k, e
<1>9. v \in Memory /\ v.next = m.next /\ v.prev = m.prev /\ v.slab = k /\ v.type = m.type
  BY <1>5, SetSlab
<1> HIDE DEF v
<1>10. w \in Memory /\ w.next = f /\ w.prev = m.prev /\ w.slab = k /\ w.type = m.type
  BY <1>2, <1>9, SetNext
<1> HIDE DEF w
<1>11. x \in Memory /\ x.next = f /\ x.prev = g /\ x.slab = k /\ x.type = m.type
  BY <1>2, <1>10, SetPrev
<1> HIDE DEF x
<1>12. u \in Memory /\ u.next = f /\ u.prev = g /\ u.slab = k /\ u.type = e
  BY <1>6, <1>8, <1>11, SetType
<1> QED BY <1>4, <1>6, <1>7, <1>12 DEF Marked

LEMMA ReleaseMarks ==
    ASSUME NEW m, NEW p, NEW n
    PROVE  /\ Release(m, p, n) = IF m.next[p] # Null THEN Unlink(Mark(m, p, n), p) ELSE Mark(m, p, n)
           /\ FreePages(m, p, n) = Merge(Release(m, p, n), p)
  BY DEF Release, Mark, FreePages, Merge

\* A run that is in no list is marked.
LEMMA MarkLoose ==
    ASSUME NEW m \in Memory, NEW F, NEW s, FreeSound(m, F, s),
           NEW p \in Pages, NEW n \in 1 .. NPages, p + n <= NPages, (p .. p + n - 1) \cap F = {},
           \A q \in p + 1 .. p + n - 1 : m.type[q] = PageType,
           NEW u, Marked(m, u, p, n)
    PROVE  /\ FreeSound(u, F, s) /\ Loose(u, F, p, n) /\ Outside(m, u, F \cup (p .. p + n - 1))
<1> DEFINE R == p .. p + n - 1
           inner == p + 1 .. p + n - 1
<1>0. NPages \in Nat /\ Pages \subseteq Nodes /\ FreeHead \in Nodes /\ FreeHead \notin Pages
  BY Constants
<1>1. /\ p \in Int /\ n \in Int /\ n >= 1 /\ NPages \in Nat /\ p >= 0 /\ FreeHead \notin Pages
      /\ Pages \subseteq Nodes /\ FreeHead \in Nodes
  BY <1>0 DEF Pages
<1>2. R \subseteq Pages /\ R = inner \cup {p} /\ p \notin inner
  BY <1>1 DEF Pages
<1>3. F \subseteq Pages
  BY FreeFacts
<1>4. /\ \A y \in Nodes \ R : u.next[y] = m.next[y] /\ u.prev[y] = m.prev[y]
      /\ \A q \in Pages \ R : u.slab[q] = m.slab[q] /\ u.type[q] = m.type[q]
      /\ \A q \in inner : u.slab[q] = PageFree /\ u.next[q] = Null /\ u.type[q] = m.type[q]
      /\ u.slab[p] = n /\ u.type[p] = PageType
  BY <1>1, <1>2 DEF Marked
<1> HIDE DEF R
<1>5. FreeSound(u, F, s)
  <2>1. FreeHead \in Nodes \ R
    BY <1>1, <1>2
  <2>2. \A q \in F : q \in Nodes \ R /\ q \in Pages \ R
    BY <1>1, <1>3 DEF R
  <2> QED BY <1>4, <2>1, <2>2, FreeFrame
<1>6. Loose(u, F, p, n)
  <2>1. \A q \in R : u.type[q] = PageType
    BY <1>2, <1>4
  <2> QED BY <1>1, <1>4, <2>1 DEF Loose, R
<1>7. Outside(m, u, F \cup R)
  BY <1>1, <1>4 DEF Outside
<1> QED BY <1>5, <1>6, <1>7 DEF R

\* A run that a caller owns is given back.
LEMMA FreeOwned ==
    ASSUME NEW m \in Memory, NEW F, NEW s, FreeSound(m, F, s),
           NEW p \in Pages, NEW n \in 1 .. NPages, p + n <= NPages, (p .. p + n - 1) \cap F = {},
           \A q \in p + 1 .. p + n - 1 : m.type[q] = PageType,
           m.next[p] = Null,
           Recognised(m, Pages \ (F \cup (p .. p + n - 1))),
           NEW u, u = FreePages(m, p, n)
    PROVE  Freed(m, u, F \cup (p .. p + n - 1))
<1> DEFINE A == F \cup (p .. p + n - 1)
           v == Mark(m, p, n)
<1>1. u = Merge(v, p)
  BY ReleaseMarks
<1>2. Marked(m, v, p, n)
  BY MarkFields
<1> HIDE DEF v
<1>3. v \in Memory
  BY <1>2 DEF Marked
<1>4. FreeSound(v, F, s) /\ Loose(v, F, p, n) /\ Outside(m, v, A)
  BY <1>2, MarkLoose
<1>5. A \subseteq Pages
  BY <1>3, <1>4, FreeFacts, LooseFacts
<1>6. Recognised(v, Pages \ A)
  BY <1>4, <1>5, RecognisedFrame
<1>7. Freed(v, u, A)
  BY <1>1, <1>3, <1>4, <1>6, MergeFacts
<1> QED BY <1>4, <1>7, OutsideTrans DEF Freed

\* A free run is given back again: it leaves the list and is joined as if new.
LEMMA FreeListedRun ==
    ASSUME NEW m \in Memory, NEW F, NEW s, FreeSound(m, F, s), NEW p \in ToSet(s),
           Recognised(m, Pages \ F), NEW u, u = FreePages(m, p, m.slab[p])
    PROVE  Freed(m, u, F)
<1> DEFINE n == m.slab[p]
           R == p .. p + n - 1
           inner == p + 1 .. p + n - 1
           G == F \ R
           v == Mark(m, p, n)
           w == Unlink(v, p)
           o == Unlink(m, p)
<1>0. NPages \in Nat /\ Pages \subseteq Nodes /\ FreeHead \in Nodes /\ FreeHead \notin Pages
  BY Constants
<1>1. /\ F \subseteq Pages /\ F \subseteq Int /\ p \in F
      /\ n \in 1 .. NPages /\ R \subseteq F
      /\ m.next[p] \in Nodes /\ m.prev[p] \in Nodes /\ m.next[p] # Null
  BY FreeFacts DEF Run
<1>2. /\ p \in Int /\ n \in Int /\ n >= 1 /\ p >= 0 /\ p \in Pages /\ p + n <= NPages
      /\ R = inner \cup {p} /\ p \notin inner
  <2>1. p \in Pages /\ p \in Int
    BY <1>1
  <2>2. p + n - 1 \in R
    BY <1>0, <1>1, <2>1
  <2>3. p + n - 1 \in Pages
    BY <1>1, <2>2
  <2> QED BY <1>0, <1>1, <2>1, <2>3 DEF Pages
<1>3. \A q \in inner : m.type[q] = PageType
  BY <1>1, <1>2, FreeMarks
<1>4. u = Merge(w, p)
  BY <1>1, ReleaseMarks
<1>5. Marked(m, v, p, n)
  BY <1>1, <1>2, MarkFields
<1>6. Unlinked(m, o, G) /\ \E t : FreeSound(o, G, t)
  BY UnlinkRun DEF Run
<1>7. /\ \A y \in Nodes : o.next[y] = IF y = m.prev[p] THEN m.next[p] ELSE m.next[y]
      /\ \A y \in Nodes : o.prev[y] = IF y = m.next[p] THEN m.prev[p] ELSE m.prev[y]
  BY <1>0, <1>1, UnlinkFields
<1> HIDE DEF v, n
<1>8. v \in Memory /\ v.next[p] = m.next[p] /\ v.prev[p] = m.prev[p]
  BY <1>0, <1>1, <1>2, <1>5 DEF Marked
<1>9. /\ w \in Memory /\ w.slab = v.slab /\ w.type = v.type
      /\ \A y \in Nodes : w.next[y] = IF y = v.prev[p] THEN v.next[p] ELSE v.next[y]
      /\ \A y \in Nodes : w.prev[y] = IF y = v.next[p] THEN v.prev[p] ELSE v.prev[y]
  <2>1. p \in Nodes /\ v.prev[p] \in Nodes /\ v.next[p] \in Nodes
    BY <1>0, <1>1, <1>8
  <2> QED BY <1>8, <2>1, UnlinkFields
<1> HIDE DEF w, o, inner, R
<1>10. o \in Memory /\ o.slab = m.slab /\ o.type = m.type
  BY <1>6 DEF Unlinked
<1>11. \A y \in Nodes \ inner : w.next[y] = o.next[y] /\ w.prev[y] = o.prev[y]
  BY <1>5, <1>7, <1>8, <1>9 DEF Marked, inner
<1>12. \A q \in Pages \ R : w.slab[q] = m.slab[q] /\ w.type[q] = m.type[q]
  BY <1>2, <1>5, <1>9 DEF Marked, inner
<1>13. PICK t : FreeSound(o, G, t)
  BY <1>6
<1>14. FreeSound(w, G, t)
  <2>1. FreeHead \in Nodes \ inner
    BY <1>0, <1>1, <1>2
  <2>2. \A q \in G : q \in Nodes \ inner /\ q \in Pages \ R
    BY <1>0, <1>1, <1>2
  <2>3. w.next[FreeHead] = o.next[FreeHead]
    BY <1>11, <2>1
  <2>4. \A q \in G : /\ w.next[q] = o.next[q] /\ w.prev[q] = o.prev[q]
                     /\ w.slab[q] = o.slab[q] /\ w.type[q] = o.type[q]
    BY <1>10, <1>11, <1>12, <2>2
  <2> QED BY <1>10, <1>13, <2>3, <2>4, FreeFrame
<1>15. Loose(w, G, p, n)
  <2>1. w.slab[p] = n /\ w.type[p] = PageType
    BY <1>2, <1>5, <1>9 DEF Marked
  <2>2. \A q \in inner : q \in Pages /\ q \in Nodes /\ q # p /\ q \in F
    BY <1>0, <1>1, <1>2
  <2>3. \A q \in inner : v.slab[q] = PageFree /\ v.next[q] = Null /\ v.type[q] = PageType
    BY <1>3, <1>5, <2>2 DEF Marked, inner
  <2>4. \A q \in inner : q # v.prev[p]
    <3>1. m.prev[p] \in ToSet(s) \cup {FreeHead}
      BY <1>0, Neighbours, Constants DEF FreeSound
    <3>2. \A q \in inner : q - 1 \in R /\ q - 1 \in F
      BY <1>1, <1>2 DEF inner, R
    <3>3. \A q \in inner : q \notin ToSet(s)
      BY <3>2, FreeMarks
    <3> QED BY <1>0, <1>8, <2>2, <3>1, <3>3
  <2>5. \A q \in inner : w.slab[q] = PageFree /\ w.next[q] = Null /\ w.type[q] = PageType
    BY <1>9, <2>2, <2>3, <2>4
  <2>6. \A q \in R : w.type[q] = PageType
    BY <1>2, <2>1, <2>5
  <2>7. R \cap G = {} /\ n \in Nat \ {0}
    BY <1>2
  <2> QED BY <1>2, <2>1, <2>5, <2>6, <2>7 DEF Loose, inner, R
<1>16. G \cup R = F
  BY <1>1
<1>17. Outside(m, w, F)
  <2>1. \A y \in Nodes \ (F \cup {FreeHead}) : o.next[y] = m.next[y] /\ o.prev[y] = m.prev[y]
    BY <1>6 DEF Unlinked
  <2>2. inner \subseteq F
    BY <1>1, <1>2
  <2>3. \A y \in Nodes \ (F \cup {FreeHead}) : w.next[y] = m.next[y] /\ w.prev[y] = m.prev[y]
    BY <1>11, <2>1, <2>2
  <2> QED BY <1>1, <1>12, <2>3 DEF Outside
<1>18. Recognised(w, Pages \ F)
  BY <1>1, <1>17, RecognisedFrame
<1>19. Freed(w, u, F)
  BY <1>4, <1>9, <1>14, <1>15, <1>16, <1>18, MergeFacts DEF R
<1> QED BY <1>17, <1>19, OutsideTrans DEF Freed

\* A page without chunks leaves its slot list and is given back.
ChunkPageFreed(m, u, F, p, h, s) ==
    /\ u \in Memory
    /\ \E t : FreeSound(u, F \cup {p}, t)
    /\ \E t : Chain(u, h, t) /\ ToSet(t) = ToSet(s) \ {p}
    /\ \A y \in Nodes \ (F \cup ToSet(s) \cup {FreeHead, h}) : u.next[y] = m.next[y] /\ u.prev[y] = m.prev[y]
    /\ \A y \in ToSet(s) \ {p} : u.next[y] # Null
    /\ \A q \in Pages \ (F \cup {p}) : u.slab[q] = m.slab[q] /\ u.type[q] = m.type[q]
LEMMA FreeChunkPage ==
    ASSUME NEW m \in Memory, NEW F, NEW f, FreeSound(m, F, f),
           NEW h \in Heads, h # FreeHead, NEW s, Chain(m, h, s), NEW p \in ToSet(s), ToSet(s) \cap F = {},
           Recognised(m, Pages \ (F \cup ToSet(s))), \A q \in ToSet(s) : m.type[q] # PageType,
           NEW u, u = FreePages(m, p, 1)
    PROVE  ChunkPageFreed(m, u, F, p, h, s)
<1> DEFINE v == Mark(m, p, 1)
           w == Unlink(v, p)
           A == F \cup {p}
<1>0. /\ NPages \in Nat /\ NPages > 0 /\ Pages \subseteq Nodes /\ FreeHead \in Nodes /\ FreeHead \notin Pages
      /\ Pages \subseteq Int /\ h \notin Pages /\ h \in Nodes /\ Null \notin Nodes
  BY Constants
<1>1. /\ ToSet(s) \subseteq Pages /\ p \in Pages
      /\ m.next[p] \in ToSet(s) \cup {h} /\ m.prev[p] \in ToSet(s) \cup {h} /\ m.next[h] \in Nodes
      /\ m.next[p] \in Nodes /\ m.prev[p] \in Nodes /\ m.next[p] # Null
  BY <1>0, Neighbours
<1>2. F \subseteq Pages
  BY FreeFacts
<1>3. u = Merge(w, p)
  BY <1>1, ReleaseMarks
<1>4. Marked(m, v, p, 1)
  BY <1>0, <1>1, MarkFields
<1> HIDE DEF v, A
<1>5. /\ v \in Memory /\ \A y \in Nodes : v.next[y] = m.next[y] /\ v.prev[y] = m.prev[y]
      /\ \A q \in Pages : v.slab[q] = IF q = p THEN 1 ELSE m.slab[q]
      /\ \A q \in Pages : v.type[q] = IF q = p THEN PageType ELSE m.type[q]
  <2>1. p + 1 .. p + 1 - 1 = {}
    BY <1>0, <1>1
  <2> QED BY <1>4, <2>1 DEF Marked
<1>6. Chain(v, h, s)
  BY <1>0, <1>1, <1>5, ChainFrame
<1>7. s \in Seq(Pages) /\ IsInjective(s) /\ ToSet(s) = {s[i] : i \in 1 .. Len(s)}
  BY SeqMembers DEF Chain
<1>8. PICK j \in 1 .. Len(s) : p = s[j]
  BY <1>7
<1> DEFINE t == RemoveAt(s, j)
<1>9. Chain(w, h, t)
  BY <1>5, <1>6, <1>8, UnlinkChain
<1>10. ToSet(t) = ToSet(s) \ {p}
  BY <1>7, <1>8, RemoveMember
<1>11. /\ w \in Memory /\ w.slab = v.slab /\ w.type = v.type
       /\ \A y \in Nodes : w.next[y] = IF y = v.prev[p] THEN v.next[p] ELSE v.next[y]
       /\ \A y \in Nodes : w.prev[y] = IF y = v.next[p] THEN v.prev[p] ELSE v.prev[y]
  <2>1. p \in Nodes /\ v.prev[p] \in Nodes /\ v.next[p] \in Nodes
    BY <1>0, <1>1, <1>5
  <2> QED BY <1>5, <2>1, UnlinkFields
<1> HIDE DEF w, t
<1>12. \A y \in Nodes \ (ToSet(s) \cup {h}) : w.next[y] = m.next[y] /\ w.prev[y] = m.prev[y]
  BY <1>0, <1>1, <1>5, <1>11
<1>13. FreeSound(w, F, f)
  <2>1. FreeHead \in Nodes \ (ToSet(s) \cup {h})
    BY <1>0, <1>1
  <2>2. \A q \in F : q \in Nodes \ (ToSet(s) \cup {h}) /\ q \in Pages /\ q # p
    BY <1>0, <1>1, <1>2
  <2>3. w.next[FreeHead] = m.next[FreeHead]
    BY <1>12, <2>1
  <2>4. \A q \in F : /\ w.next[q] = m.next[q] /\ w.prev[q] = m.prev[q]
                     /\ w.slab[q] = m.slab[q] /\ w.type[q] = m.type[q]
    BY <1>5, <1>11, <1>12, <2>2
  <2> QED BY <2>3, <2>4, FreeFrame
<1>14. p .. p + 1 - 1 = {p} /\ p + 1 .. p + 1 - 1 = {}
  BY <1>0, <1>1
<1>15. Loose(w, F, p, 1)
  <2>1. p + 1 <= NPages
    BY <1>0, <1>1 DEF Pages
  <2>2. p \notin F /\ w.slab[p] = 1 /\ w.type[p] = PageType
    BY <1>1, <1>5, <1>11
  <2> QED BY <1>1, <1>14, <2>1, <2>2 DEF Loose
<1>16. Recognised(w, Pages \ A)
  <2> SUFFICES ASSUME NEW q \in Pages \ A
               PROVE  w.type[q] # PageType \/ (w.slab[q] # PageFree /\ w.next[q] = Null)
    BY DEF Recognised
  <2>1. q # p /\ q \in Nodes /\ q \notin F /\ q # h
    BY <1>0 DEF A
  <2>2. w.type[q] = m.type[q] /\ w.slab[q] = m.slab[q]
    BY <1>5, <1>11, <2>1
  <2>3. CASE q \in ToSet(s)
    BY <2>2, <2>3
  <2>4. CASE q \notin ToSet(s)
    BY <1>12, <2>1, <2>2, <2>4 DEF Recognised
  <2> QED BY <2>3, <2>4
<1>17. Freed(w, u, A)
  <2>1. A = F \cup (p .. p + 1 - 1)
    BY <1>14 DEF A
  <2> QED BY <1>3, <1>11, <1>13, <1>15, <1>16, <2>1, MergeFacts
<1>18. /\ u \in Memory
       /\ \A y \in Nodes \ (A \cup {FreeHead}) : u.next[y] = w.next[y] /\ u.prev[y] = w.prev[y]
       /\ \A q \in Pages \ A : u.slab[q] = w.slab[q] /\ u.type[q] = w.type[q]
       /\ \E g : FreeSound(u, A, g)
  BY <1>17 DEF Freed, Outside
<1>19. Chain(u, h, t)
  <2>1. \A y \in ToSet(t) \cup {h} : y \in Nodes \ (A \cup {FreeHead})
    BY <1>0, <1>1, <1>2, <1>10 DEF A
  <2> QED BY <1>9, <1>18, <2>1, ChainFrame
<1>20. \A y \in Nodes \ (F \cup ToSet(s) \cup {FreeHead, h}) : u.next[y] = m.next[y] /\ u.prev[y] = m.prev[y]
  BY <1>12, <1>18 DEF A
<1>21. \A q \in Pages \ A : u.slab[q] = m.slab[q] /\ u.type[q] = m.type[q]
  BY <1>5, <1>11, <1>18 DEF A
<1>22. \A y \in ToSet(s) \ {p} : u.next[y] # Null
  <2>1. \A y \in ToSet(t) : u.next[y] \in ToSet(t) \cup {h}
    BY <1>19, Neighbours
  <2>2. ToSet(t) \cup {h} \subseteq Nodes
    BY <1>0, <1>1, <1>10
  <2> QED BY <1>0, <1>10, <2>1, <2>2
<1> QED BY <1>10, <1>18, <1>19, <1>20, <1>21, <1>22 DEF ChunkPageFreed, A

-----------------------------------------------------------------------------
(* Pages are taken.                                                        *)

\* n pages from p on are marked as a run that a caller owns.
Claim(m, page, n) ==
    LET run == page .. page + n - 1
    IN  [m EXCEPT !.slab = [p \in Pages |->
                              CASE p = page -> PageStart + n
                                [] p \in run \ {page} -> PageBusy
                                [] OTHER -> @[p]],
                  !.next = [x \in Nodes |-> IF x \in run THEN Null ELSE @[x]],
                  !.prev = [x \in Nodes |-> IF x \in run THEN Null ELSE @[x]]]

\* What is left of the run at page when it gives its first n pages.
Cut(m, page, n) ==
    [m EXCEPT !.prev[page + m.slab[page] - 1] = page + n,
              !.slab[page + n] = m.slab[page] - n,
              !.next[page + n] = m.next[page],
              !.prev[page + n] = m.prev[page],
              !.next[m.prev[page]] = page + n,
              !.prev[m.next[page]] = page + n]

LEMMA TakeSplit ==
    ASSUME NEW m, NEW p, NEW n
    PROVE  TakePages(m, p, n) = Claim(IF m.slab[p] > n THEN Cut(m, p, n) ELSE Unlink(m, p), p, n)
  BY DEF TakePages, Claim, Cut

Claimed(m, u, p, n) ==
    /\ u \in Memory /\ u.type = m.type
    /\ \A y \in Nodes : u.next[y] = IF y \in p .. p + n - 1 THEN Null ELSE m.next[y]
    /\ \A y \in Nodes : u.prev[y] = IF y \in p .. p + n - 1 THEN Null ELSE m.prev[y]
    /\ \A q \in Pages : u.slab[q] = IF q = p THEN PageStart + n
                                    ELSE IF q \in p .. p + n - 1 THEN PageBusy ELSE m.slab[q]

LEMMA ClaimFields ==
    ASSUME NEW m \in Memory, NEW p \in Pages, NEW n \in 1 .. NPages, NEW u, u = Claim(m, p, n)
    PROVE  Claimed(m, u, p, n)
<1> DEFINE run == p .. p + n - 1
           f == [x \in Nodes |-> IF x \in run THEN Null ELSE m.next[x]]
           g == [x \in Nodes |-> IF x \in run THEN Null ELSE m.prev[x]]
           k == [q \in Pages |-> CASE q = p -> PageStart + n
                                   [] q \in run \ {p} -> PageBusy
                                   [] OTHER -> m.slab[q]]
           v == [m EXCEPT !.slab = k]
           w == [v EXCEPT !.next = f]
<1>1. m.next \in Links /\ m.prev \in Links /\ m.slab \in [Pages -> PageBusy .. PageStart + NPages]
  BY DEF Memory, Links
<1>2. f \in Links /\ g \in Links
  BY <1>1 DEF Links
<1>3. PageBusy \in PageBusy .. PageStart + NPages /\ PageStart + n \in PageBusy .. PageStart + NPages
  BY Constants DEF PageBusy, PageStart
<1>4. \A q \in Pages : k[q] = IF q = p THEN PageStart + n ELSE IF q \in run THEN PageBusy ELSE m.slab[q]
  OBVIOUS
<1>5. k \in [Pages -> PageBusy .. PageStart + NPages]
  BY <1>1, <1>3
<1>6. /\ \A y \in Nodes : f[y] = IF y \in run THEN Null ELSE m.next[y]
      /\ \A y \in Nodes : g[y] = IF y \in run THEN Null ELSE m.prev[y]
  OBVIOUS
<1>7. u = [w EXCEPT !.prev = g]
  BY DEF Claim, Memory
<1> HIDE DEF f, g, k
<1>8. v \in Memory /\ v.next = m.next /\ v.prev = m.prev /\ v.slab = k /\ v.type = m.type
  BY <1>5, SetSlab
<1> HIDE DEF v
<1>9. w \in Memory /\ w.next = f /\ w.prev = m.prev /\ w.slab = k /\ w.type = m.type
  BY <1>2, <1>8, SetNext
<1> HIDE DEF w
<1>10. u \in Memory /\ u.next = f /\ u.prev = g /\ u.slab = k /\ u.type = m.type
  BY <1>2, <1>7, <1>9, SetPrev
<1> QED BY <1>4, <1>6, <1>10 DEF Claimed

CutFields(m, u, p, n) ==
    /\ u \in Memory /\ u.type = m.type
    /\ \A y \in Nodes : u.next[y] = IF y = m.prev[p] THEN p + n
                                    ELSE IF y = p + n THEN m.next[p] ELSE m.next[y]
    /\ \A y \in Nodes : u.prev[y] = IF y = m.next[p] THEN p + n
                                    ELSE IF y = p + n THEN m.prev[p]
                                    ELSE IF y = p + m.slab[p] - 1 THEN p + n ELSE m.prev[y]
    /\ \A q \in Pages : u.slab[q] = IF q = p + n THEN m.slab[p] - n ELSE m.slab[q]

LEMMA CutIs ==
    ASSUME NEW m \in Memory, NEW p \in Pages, NEW n \in 1 .. NPages, m.slab[p] > n,
           p + m.slab[p] <= NPages, m.next[p] \in Nodes, m.prev[p] \in Nodes, NEW u, u = Cut(m, p, n)
    PROVE  CutFields(m, u, p, n)
<1> DEFINE r == p + n
           l == p + m.slab[p] - 1
           f == [[m.next EXCEPT ![r] = m.next[p]] EXCEPT ![m.prev[p]] = r]
           g == [[[m.prev EXCEPT ![l] = r] EXCEPT ![r] = m.prev[p]] EXCEPT ![m.next[p]] = r]
           k == [m.slab EXCEPT ![r] = m.slab[p] - n]
           v == [m EXCEPT !.slab = k]
           w == [v EXCEPT !.next = f]
<1>1. /\ m.next \in Links /\ m.prev \in Links /\ m.slab \in [Pages -> PageBusy .. PageStart + NPages]
      /\ Pages \subseteq Nodes /\ NPages \in Nat
  BY Constants DEF Memory, Links
<1>2. r \in Pages /\ l \in Pages /\ m.slab[p] - n \in PageBusy .. PageStart + NPages
  <2>1. m.slab[p] \in Int /\ p \in Int /\ p >= 0 /\ n \in Int /\ n >= 1 /\ n <= NPages
    BY <1>1 DEF Pages, PageBusy, PageStart
  <2>2. r \in 0 .. NPages - 1 /\ l \in 0 .. NPages - 1 /\ m.slab[p] - n \in 1 .. NPages
    BY <1>1, <2>1
  <2>3. NPages \in Nat
    BY <1>1
  <2>4. r \in Pages /\ l \in Pages
    BY <2>2 DEF Pages
  <2>5. 1 .. NPages \subseteq PageBusy .. PageStart + NPages
    BY <2>3 DEF PageBusy, PageStart
  <2> QED BY <2>2, <2>4, <2>5
<1>3. u = [w EXCEPT !.prev = g]
  BY DEF Cut, Memory
<1>4. /\ k \in [Pages -> PageBusy .. PageStart + NPages]
      /\ \A q \in Pages : k[q] = IF q = r THEN m.slab[p] - n ELSE m.slab[q]
  BY <1>1, <1>2
<1> HIDE DEF r, l
<1>5. /\ f \in Links
      /\ \A y \in Nodes : f[y] = IF y = m.prev[p] THEN r ELSE IF y = r THEN m.next[p] ELSE m.next[y]
  BY <1>1, <1>2 DEF Links
<1>6. /\ g \in Links
      /\ \A y \in Nodes : g[y] = IF y = m.next[p] THEN r ELSE IF y = r THEN m.prev[p]
                                 ELSE IF y = l THEN r ELSE m.prev[y]
  BY <1>1, <1>2 DEF Links
<1> HIDE DEF f, g, k
<1>7. v \in Memory /\ v.next = m.next /\ v.prev = m.prev /\ v.slab = k /\ v.type = m.type
  BY <1>4, SetSlab
<1> HIDE DEF v
<1>8. w \in Memory /\ w.next = f /\ w.prev = m.prev /\ w.slab = k /\ w.type = m.type
  BY <1>5, <1>7, SetNext
<1> HIDE DEF w
<1>9. u \in Memory /\ u.next = f /\ u.prev = g /\ u.slab = k /\ u.type = m.type
  BY <1>3, <1>6, <1>8, SetPrev
<1> QED BY <1>4, <1>5, <1>6, <1>9 DEF CutFields, r, l

\* Only the pages G of F are still free, and nothing outside F has changed.
Shrunk(m, u, F, G) ==
    /\ u \in Memory /\ u.type = m.type /\ Outside(m, u, F)
    /\ \E t : FreeSound(u, G, t)

LEMMA CutRun ==
    ASSUME NEW m \in Memory, NEW F, NEW s, FreeSound(m, F, s), NEW p \in ToSet(s),
           NEW n \in 1 .. NPages, m.slab[p] > n, NEW u, u = Cut(m, p, n)
    PROVE  Shrunk(m, u, F, F \ (p .. p + n - 1))
<1> DEFINE z == m.slab[p]
           rest == p + n
           last == p + z - 1
           R == p .. p + n - 1
           G == F \ R
<1>0. NPages \in Nat /\ Pages \subseteq Nodes /\ FreeHead \in Nodes /\ FreeHead \notin Pages /\ FreeHead \in Heads
  BY Constants
<1>1. /\ F \subseteq Pages /\ F \subseteq Int /\ ToSet(s) \subseteq F /\ Chain(m, FreeHead, s)
      /\ z \in 1 .. NPages
      /\ \A h \in ToSet(s) : m.slab[h] \in 1 .. NPages /\ h \in Run(m, h) /\ Run(m, h) \subseteq F
      /\ \A h, g \in ToSet(s) : h # g => Run(m, h) \cap Run(m, g) = {}
  BY FreeFacts
<1>2. /\ m.next[p] \in ToSet(s) \cup {FreeHead} /\ m.prev[p] \in ToSet(s) \cup {FreeHead}
      /\ m.next[p] \in Nodes /\ m.prev[p] \in Nodes
  <2>1. /\ \A y \in ToSet(s) : m.next[y] \in ToSet(s) \cup {FreeHead} /\ m.prev[y] \in ToSet(s) \cup {FreeHead}
        /\ ToSet(s) \cup {FreeHead} \subseteq Nodes
    BY <1>0, <1>1, Neighbours
  <2> QED BY <2>1
<1>3. /\ p \in Int /\ z \in Int /\ n \in Int /\ n >= 1 /\ p \in Pages
      /\ rest \in Run(m, p) /\ last \in Run(m, p) /\ R \subseteq Run(m, p) /\ p \in R
      /\ rest \notin R /\ rest # p /\ last # p /\ last \notin R
      /\ Run(m, p) \ R = rest .. last /\ last = rest + (z - n) - 1 /\ p + z = rest + (z - n)
      /\ z > n /\ z <= NPages
  <2>0. p \in F /\ z \in 1 .. NPages
    BY <1>1
  <2>1. p \in Int /\ z \in Int /\ n \in Int /\ n >= 1 /\ p \in Pages /\ z > n /\ z <= NPages
    BY <1>0, <2>0, FreeFacts
  <2> QED BY <2>1 DEF Run
<1>4. \A q \in Run(m, p) : q \in ToSet(s) => q = p
  BY <1>1
<1>5. rest \in Pages /\ last \in Pages /\ rest \notin ToSet(s) /\ last \notin ToSet(s)
  BY <1>1, <1>3, <1>4
<1>6. p + z <= NPages
  BY <1>0, <1>3, <1>5 DEF Pages
<1>7. CutFields(m, u, p, n)
  BY <1>2, <1>3, <1>6, CutIs
<1> HIDE DEF z
<1>8. /\ u \in Memory /\ u.type = m.type
      /\ \A y \in Nodes : u.next[y] = IF y = m.prev[p] THEN rest
                                      ELSE IF y = rest THEN m.next[p] ELSE m.next[y]
      /\ \A y \in Nodes : u.prev[y] = IF y = m.next[p] THEN rest
                                      ELSE IF y = rest THEN m.prev[p]
                                      ELSE IF y = last THEN rest ELSE m.prev[y]
      /\ \A q \in Pages : u.slab[q] = IF q = rest THEN z - n ELSE m.slab[q]
  BY <1>7 DEF CutFields, z
<1> HIDE DEF rest, last, R
<1>11. PICK t : Chain(u, FreeHead, t) /\ ToSet(t) = (ToSet(s) \ {p}) \cup {rest}
  <2>0. \A y \in ToSet(s) \cup {FreeHead} : y \in Nodes /\ y # rest /\ y # last
    BY <1>0, <1>1, <1>5
  <2>1. \A y \in (ToSet(s) \ {p}) \cup {FreeHead} :
           u.next[y] = IF y = m.prev[p] THEN rest ELSE m.next[y]
    BY <1>8, <2>0
  <2>2. \A y \in ToSet(s) \ {p} : u.prev[y] = IF y = m.next[p] THEN rest ELSE m.prev[y]
    BY <1>8, <2>0
  <2>3. rest # m.prev[p] /\ rest # m.next[p] /\ rest \in Nodes
    BY <1>0, <1>2, <1>5
  <2>4. u.next[rest] = m.next[p] /\ u.prev[rest] = m.prev[p]
    BY <1>8, <2>3
  <2>5. FreeHead \in Heads /\ Chain(m, FreeHead, s) /\ rest \in Pages /\ rest \notin ToSet(s)
    BY <1>0, <1>1, <1>5
  <2>6. Replaced(m, u, FreeHead, s, p, rest)
    BY <2>1, <2>2, <2>4 DEF Replaced
  <2> QED BY <2>5, <2>6, ReplaceChain
<1>12. \A y \in Nodes \ (ToSet(s) \cup {FreeHead, rest, last}) : u.next[y] = m.next[y] /\ u.prev[y] = m.prev[y]
  BY <1>2, <1>8
<1>13. ASSUME NEW h \in ToSet(t)
       PROVE  /\ u.slab[h] \in 1 .. NPages
              /\ Run(u, h) \subseteq G
              /\ h - 1 \notin G /\ h + u.slab[h] \notin G
              /\ u.slab[h] > 1 /\ h + u.slab[h] < NPages => u.prev[h + u.slab[h] - 1] = h
  <2>1. CASE h = rest
    <3>1. u.slab[h] = z - n /\ z - n \in 1 .. NPages
      BY <1>0, <1>3, <1>5, <1>8, <2>1
    <3>2. Run(u, h) = rest .. last
      BY <1>3, <2>1, <3>1 DEF Run
    <3>3. h - 1 \in R
      BY <1>3, <2>1 DEF rest, R
    <3>4. h + u.slab[h] \notin F
      <4>1. h + u.slab[h] = p + z
        BY <1>3, <2>1, <3>1
      <4> QED BY <4>1, FreeMarks DEF z
    <3>5. u.slab[h] > 1 => u.prev[last] = rest
      <4> SUFFICES ASSUME u.slab[h] > 1 PROVE u.prev[last] = rest
        OBVIOUS
      <4>1. last # rest
        BY <1>3, <3>1 DEF rest
      <4>2. last # m.next[p] /\ last \in Nodes
        BY <1>0, <1>2, <1>5
      <4> QED BY <1>8, <4>1, <4>2
    <3>6. rest .. last \subseteq G
      BY <1>1, <1>3
    <3>7. h + u.slab[h] - 1 = last
      BY <1>3, <2>1, <3>1
    <3> QED BY <2>1, <3>1, <3>2, <3>3, <3>4, <3>5, <3>6, <3>7
  <2>2. CASE h # rest
    <3>1. h \in ToSet(s) /\ h # p /\ h \in Pages
      BY <1>1, <1>11, <2>2
    <3>2. u.slab[h] = m.slab[h] /\ Run(u, h) = Run(m, h)
      BY <1>8, <2>2, <3>1 DEF Run
    <3>3. Run(m, h) \subseteq G
      BY <1>1, <1>3, <3>1
    <3>4. h - 1 \notin F /\ h + m.slab[h] \notin F
      BY <3>1, FreeMarks
    <3>5. m.slab[h] > 1 => u.prev[h + m.slab[h] - 1] = m.prev[h + m.slab[h] - 1]
      <4> SUFFICES ASSUME m.slab[h] > 1 PROVE u.prev[h + m.slab[h] - 1] = m.prev[h + m.slab[h] - 1]
        OBVIOUS
      <4> DEFINE l == h + m.slab[h] - 1
      <4>1. h \in Int /\ m.slab[h] \in 1 .. NPages
        BY <1>1, <3>1
      <4>2. l \in Run(m, h) /\ l # h
        BY <1>0, <4>1 DEF Run
      <4> HIDE DEF l
      <4>3. l \in Pages /\ l \notin ToSet(s) /\ l \notin Run(m, p)
        BY <1>1, <3>1, <4>2
      <4>4. l \in Nodes \ (ToSet(s) \cup {FreeHead, rest, last})
        BY <1>0, <1>3, <4>3
      <4> QED BY <1>12, <4>4 DEF l
    <3>6. m.slab[h] > 1 /\ h + m.slab[h] < NPages => m.prev[h + m.slab[h] - 1] = h
      BY <3>1, FreeMarks
    <3>7. m.slab[h] \in 1 .. NPages
      BY <1>1, <3>1
    <3> QED BY <3>2, <3>3, <3>4, <3>5, <3>6, <3>7
  <2> QED BY <2>1, <2>2
<1>14. ASSUME NEW q \in G
       PROVE  u.type[q] = PageType /\ \E h \in ToSet(t) : q \in Run(u, h)
  <2>1. u.type[q] = PageType
    BY <1>8, FreeMarks
  <2>2. PICK g \in ToSet(s) : q \in Run(m, g)
    BY DEF FreeSound
  <2>3. CASE g = p
    <3>1. q \in rest .. last
      BY <1>3, <2>2, <2>3
    <3>2. u.slab[rest] = z - n /\ Run(u, rest) = rest .. last
      BY <1>3, <1>5, <1>8 DEF Run
    <3> QED BY <1>11, <2>1, <3>1, <3>2
  <2>4. CASE g # p
    <3>1. g \in ToSet(t) /\ g \in Pages /\ g # rest
      BY <1>1, <1>5, <1>11, <2>4
    <3>2. Run(u, g) = Run(m, g)
      BY <1>8, <3>1 DEF Run
    <3> QED BY <2>1, <2>2, <3>1, <3>2
  <2> QED BY <2>3, <2>4
<1>15. ASSUME NEW q \in G \ ToSet(t)
       PROVE  u.slab[q] = PageFree /\ u.next[q] = Null
  <2>1. q \in F \ ToSet(s) /\ q # rest /\ q \in Pages /\ q \in Nodes
    BY <1>0, <1>1, <1>3, <1>11
  <2>2. m.slab[q] = PageFree /\ m.next[q] = Null
    BY <2>1, FreeMarks
  <2>3. q # m.prev[p]
    BY <1>0, <1>2, <2>1
  <2> QED BY <1>8, <2>1, <2>2, <2>3
<1>16. FreeSound(u, G, t)
  BY <1>1, <1>11, <1>13, <1>14, <1>15 DEF FreeSound
<1>17. Outside(m, u, F)
  <2>1. {rest, last} \subseteq F /\ ToSet(s) \subseteq F
    BY <1>1, <1>3
  <2> QED BY <1>8, <1>12, <2>1 DEF Outside
<1> QED BY <1>8, <1>16, <1>17 DEF Shrunk, R

\* What TakePages does: the pages leave the list and are marked.
Taken(m, u, F, p, n) ==
    /\ Shrunk(m, u, F, F \ (p .. p + n - 1))
    /\ \A q \in p .. p + n - 1 : /\ u.next[q] = Null
                                 /\ u.slab[q] = IF q = p THEN PageStart + n ELSE PageBusy
                                 /\ u.type[q] = PageType
LEMMA TakePagesFacts ==
    ASSUME NEW m \in Memory, NEW F, NEW s, FreeSound(m, F, s), NEW p \in ToSet(s),
           NEW n \in 1 .. NPages, m.slab[p] >= n, NEW u, u = TakePages(m, p, n)
    PROVE  Taken(m, u, F, p, n) /\ p .. p + n - 1 \subseteq F
<1> DEFINE R == p .. p + n - 1
           G == F \ R
           v == IF m.slab[p] > n THEN Cut(m, p, n) ELSE Unlink(m, p)
<1>0. NPages \in Nat /\ Pages \subseteq Nodes /\ FreeHead \in Nodes /\ FreeHead \notin Pages
  BY Constants
<1>1. /\ F \subseteq Pages /\ F \subseteq Int /\ p \in F /\ m.slab[p] \in 1 .. NPages
      /\ Run(m, p) \subseteq F
  BY FreeFacts
<1>2. p \in Int /\ p \in Pages /\ n \in Int /\ n >= 1 /\ R \subseteq Run(m, p) /\ p \in R
  <2>1. p \in Int /\ p \in Pages
    BY <1>1
  <2> QED BY <1>0, <1>1, <2>1 DEF Run
<1>3. R \subseteq F /\ R \subseteq Pages
  BY <1>1, <1>2
<1>4. u = Claim(v, p, n)
  BY TakeSplit
<1>5. Shrunk(m, v, F, G)
  <2>1. CASE m.slab[p] > n
    <3>1. v = Cut(m, p, n)
      BY <2>1
    <3> QED BY <2>1, <3>1, CutRun
  <2>2. CASE ~(m.slab[p] > n)
    <3>1. v = Unlink(m, p)
      BY <2>2
    <3>2. m.slab[p] = n
      BY <1>0, <1>1, <1>2, <2>2
    <3>3. R = Run(m, p)
      BY <3>2 DEF Run
    <3> HIDE DEF v, R
    <3>4. Unlinked(m, v, G) /\ \E t : FreeSound(v, G, t)
      BY <3>1, <3>3, UnlinkRun
    <3>5. Outside(m, v, F)
      BY <3>4 DEF Unlinked, Outside
    <3> QED BY <3>4, <3>5 DEF Shrunk, Unlinked
  <2> QED BY <2>1, <2>2
<1> HIDE DEF v, R
<1>6. v \in Memory /\ v.type = m.type /\ Outside(m, v, F)
  BY <1>5 DEF Shrunk
<1>7. PICK t : FreeSound(v, G, t)
  BY <1>5 DEF Shrunk
<1>8. Claimed(v, u, p, n)
  BY <1>2, <1>4, <1>6, ClaimFields
<1>9. /\ u \in Memory /\ u.type = v.type
      /\ \A y \in Nodes \ R : u.next[y] = v.next[y] /\ u.prev[y] = v.prev[y]
      /\ \A q \in Pages \ R : u.slab[q] = v.slab[q]
      /\ \A q \in R : u.next[q] = Null /\ u.slab[q] = IF q = p THEN PageStart + n ELSE PageBusy
  BY <1>0, <1>2, <1>3, <1>8 DEF Claimed, R
<1>10. FreeSound(u, G, t)
  <2>1. \A q \in G : q \in Nodes \ R /\ q \in Pages \ R
    BY <1>0, <1>1
  <2>2. FreeHead \in Nodes \ R
    BY <1>0, <1>3
  <2> QED BY <1>6, <1>7, <1>9, <2>1, <2>2, FreeFrame
<1>11. Outside(v, u, F)
  BY <1>0, <1>3, <1>9 DEF Outside
<1>12. Shrunk(m, u, F, G)
  BY <1>6, <1>9, <1>10, <1>11, OutsideTrans DEF Shrunk
<1>13. \A q \in R : u.type[q] = PageType
  BY <1>3, <1>6, <1>9, FreeMarks
<1> QED BY <1>3, <1>9, <1>12, <1>13 DEF Taken, R

-----------------------------------------------------------------------------
(* Blocks.                                                                 *)

LEMMA BlockFacts ==
    ASSUME NEW b \in Blocks
    PROVE  /\ b.page \in Pages /\ b.len \in Nat /\ b.page \in Covers(b)
           /\ b.len = 0 => /\ b.class \in Classes /\ b.chunk \in Usable(b.class)
                           /\ b = Piece(b.page, b.class, b.chunk) /\ Covers(b) = {b.page}
           /\ b.len # 0 => /\ b.len \in 1 .. MaxRun /\ b.class = 0
                           /\ Covers(b) = b.page .. b.page + b.len - 1
<1>0. Pages \subseteq Int /\ MaxRun \in Nat
  BY Constants
<1>1. CASE b \in Runs
  <2>1. PICK p \in Pages, n \in 1 .. MaxRun : b = [page |-> p, len |-> n, class |-> 0, chunk |-> 0]
    BY <1>1 DEF Runs
  <2>2. b.page = p /\ b.len = n /\ b.class = 0
    BY <2>1
  <2>3. n \in Nat /\ n # 0 /\ p \in p .. p + n - 1
    BY <1>0
  <2>4. Covers(b) = p .. p + n - 1
    BY <2>2, <2>3 DEF Covers
  <2> QED BY <2>2, <2>3, <2>4
<1>2. CASE b \in Pieces
  <2>0. PICK k \in Classes : b \in {[page |-> p, len |-> 0, class |-> k, chunk |-> c] :
                                      p \in Pages, c \in Usable(k)}
    BY <1>2 DEF Pieces
  <2>1. PICK p \in Pages, c \in Usable(k) : b = [page |-> p, len |-> 0, class |-> k, chunk |-> c]
    BY <2>0
  <2>2. b.page = p /\ b.len = 0 /\ b.class = k /\ b.chunk = c /\ b = Piece(p, k, c)
    BY <2>1 DEF Piece
  <2>3. p + 0 = p /\ p .. p = {p}
    BY <1>0
  <2>4. Covers(b) = {p}
    BY <2>2, <2>3 DEF Covers
  <2> QED BY <2>2, <2>4
<1> QED BY <1>1, <1>2 DEF Blocks

LEMMA PieceFacts ==
    ASSUME NEW p \in Pages, NEW k \in Classes, NEW c \in Usable(k)
    PROVE  LET b == Piece(p, k, c) IN
           b \in Blocks /\ b.page = p /\ b.len = 0 /\ b.class = k /\ b.chunk = c /\ Covers(b) = {p}
<1> DEFINE b == Piece(p, k, c)
<1>1. b.page = p /\ b.len = 0 /\ b.class = k /\ b.chunk = c
  BY DEF Piece
<1>2. b \in Pieces
  BY DEF Pieces, Piece
<1>3. b \in Blocks
  BY <1>2 DEF Blocks
<1> HIDE DEF b
<1>4. Covers(b) = {b.page}
  BY <1>1, <1>3, BlockFacts
<1> QED BY <1>1, <1>3, <1>4 DEF b

LEMMA RunFacts ==
    ASSUME NEW p \in Pages, NEW n \in 1 .. MaxRun
    PROVE  LET b == [page |-> p, len |-> n, class |-> 0, chunk |-> 0] IN
           b \in Blocks /\ b.page = p /\ b.len = n /\ b.class = 0 /\ Covers(b) = p .. p + n - 1
<1> DEFINE b == [page |-> p, len |-> n, class |-> 0, chunk |-> 0]
<1>1. b.page = p /\ b.len = n /\ b.class = 0
  OBVIOUS
<1>2. b \in Runs
  BY DEF Runs
<1>3. b \in Blocks /\ n # 0
  BY <1>2, Constants DEF Blocks
<1> HIDE DEF b
<1>4. Covers(b) = b.page .. b.page + b.len - 1
  BY <1>1, <1>3, BlockFacts
<1> QED BY <1>1, <1>3, <1>4 DEF b

LEMMA OwnFacts ==
    ASSUME NEW L, L \subseteq Blocks
    PROVE  /\ \A b \in L : Covers(b) \subseteq Used(L) /\ b.page \in Used(L)
           /\ \A b \in L : b.len = 0 => b.chunk \in Own(L, b.page, b.class)
           /\ \A p, k : Own(L, p, k) # {} => p \in Used(L)
           /\ \A k \in Classes : Partial(L, k) \subseteq Used(L)
           /\ \A k \in Classes, p \in Pages : Own(L, p, k) \subseteq Usable(k)
           /\ \A k \in Classes, p \in Pages : \A c \in Own(L, p, k) : Piece(p, k, c) \in L
<1>1. \A b \in L : Covers(b) \subseteq Used(L) /\ b.page \in Used(L)
  BY BlockFacts DEF Used
<1>2. \A b \in L : b.chunk \in Own(L, b.page, b.class)
  BY DEF Own
<1>3. \A p, k : Own(L, p, k) # {} => p \in Used(L)
  BY <1>1 DEF Own
<1>4. ASSUME NEW k \in Classes, NEW p \in Pages, NEW c \in Own(L, p, k)
      PROVE  c \in Usable(k) /\ Piece(p, k, c) \in L
  <2>1. PICK b \in L : b.page = p /\ b.class = k /\ b.chunk = c
    BY DEF Own
  <2>2. b.len = 0
    <3>1. k # 0
      BY DEF Classes
    <3> QED BY <2>1, <3>1, BlockFacts
  <2> QED BY <2>1, <2>2, BlockFacts
<1>5. \A k \in Classes : Partial(L, k) \subseteq Used(L)
  BY <1>3 DEF Partial
<1> QED BY <1>1, <1>2, <1>3, <1>4, <1>5

\* Two blocks that share a page are different chunks of it.
LEMMA SharedPage ==
    ASSUME NEW L, L \subseteq Blocks, LiveSound(L), NEW a \in L, NEW b \in L, a # b,
           NEW q \in Covers(a), q \in Covers(b)
    PROVE  a.len = 0 /\ b.len = 0 /\ a.class = b.class /\ a.page = b.page /\ a.chunk # b.chunk
<1>1. ~Overlap(a, b)
  BY DEF LiveSound
<1>2. a.len = 0 /\ b.len = 0 /\ a.class = b.class /\ a.chunk # b.chunk
  BY <1>1 DEF Overlap
<1>3. Covers(a) = {a.page} /\ Covers(b) = {b.page}
  BY <1>2, BlockFacts
<1> QED BY <1>2, <1>3

\* A block that is handed out overlaps no other.
Fresh(L, b) == \A a \in L : ~Overlap(b, a)
LEMMA AddBlock ==
    ASSUME NEW L, LiveSound(L), NEW b, Covers(b) \subseteq Pages, Fresh(L, b)
    PROVE  LiveSound(L \cup {b})
  BY DEF LiveSound, Fresh, Overlap

LEMMA DropBlock ==
    ASSUME NEW L, LiveSound(L), NEW b
    PROVE  LiveSound(L \ {b})
  BY DEF LiveSound

LEMMA FreshRun ==
    ASSUME NEW L, L \subseteq Blocks, NEW b, Covers(b) \cap Used(L) = {}
    PROVE  Fresh(L, b)
<1>1. \A a \in L : Covers(a) \subseteq Used(L)
  BY OwnFacts
<1> QED BY <1>1 DEF Fresh, Overlap

LEMMA UsedAdd ==
    ASSUME NEW L, NEW b
    PROVE  Used(L \cup {b}) = Used(L) \cup Covers(b)
  BY DEF Used

\* What callers own is not taken for a free run.
LEMMA UsedRecognised ==
    ASSUME NEW m, NEW mp, NEW L, Sound(m, mp, L)
    PROVE  Recognised(m, Used(L)) /\ Used(L) \subseteq Pages
<1>1. L \subseteq Blocks /\ \A b \in L : Covers(b) \subseteq Pages
  BY DEF Sound, LiveSound
<1>2. ASSUME NEW q \in Used(L)
      PROVE  q \in Pages /\ (m.type[q] # PageType \/ (m.slab[q] # PageFree /\ m.next[q] = Null))
  <2>1. PICK b \in L : q \in Covers(b)
    BY DEF Used
  <2>2. IF b.len = 0 THEN ChunkMarked(m, mp, L, b) ELSE RunMarked(m, b)
    BY DEF Sound, BlocksMarked
  <2>3. CASE b.len = 0
    <3>1. q = b.page /\ b.class \in Classes
      BY <1>1, <2>1, <2>3, BlockFacts
    <3>2. m.type[q] \in Classes
      BY <2>2, <2>3, <3>1 DEF ChunkMarked
    <3>3. PageType \notin Classes
      BY DEF PageType, Classes
    <3> QED BY <1>1, <2>1, <3>2, <3>3
  <2>4. CASE b.len # 0
    <3>1. b.len \in 1 .. MaxRun /\ NPages \in Nat /\ MaxRun \in Nat
      BY <1>1, <2>4, BlockFacts, Constants
    <3>2. m.next[q] = Null /\ m.slab[q] \in {PageStart + b.len, PageBusy}
      BY <2>1, <2>2, <2>4 DEF RunMarked
    <3>3. m.slab[q] # PageFree
      BY <3>1, <3>2 DEF PageStart, PageBusy, PageFree
    <3> QED BY <1>1, <2>1, <3>2, <3>3
  <2> QED BY <2>3, <2>4
<1> QED BY <1>2 DEF Recognised

\* The marks of a block depend on the descriptors of its pages.
SameMarks(m, u, X) ==
    \A q \in X : /\ u.next[q] = Null <=> m.next[q] = Null
                 /\ u.slab[q] = m.slab[q] /\ u.type[q] = m.type[q]
LEMMA MarksKept ==
    ASSUME NEW m, NEW mp, NEW L, NEW u, NEW np, NEW K, NEW b \in Blocks,
           IF b.len = 0 THEN ChunkMarked(m, mp, L, b) ELSE RunMarked(m, b),
           SameMarks(m, u, Covers(b)),
           b.len = 0 => np[b.page] = mp[b.page] /\ Own(K, b.page, b.class) = Own(L, b.page, b.class)
    PROVE  IF b.len = 0 THEN ChunkMarked(u, np, K, b) ELSE RunMarked(u, b)
<1>1. b.page \in Covers(b)
  BY BlockFacts
<1>2. CASE b.len = 0
  BY <1>1, <1>2 DEF ChunkMarked, SameMarks
<1>3. CASE b.len # 0
  BY <1>3 DEF RunMarked, SameMarks
<1> QED BY <1>2, <1>3

LEMMA SlotKept ==
    ASSUME NEW m, NEW L, NEW u, NEW K, NEW k \in Classes, SlotListed(m, L, k),
           u.next[Slot(k)] = m.next[Slot(k)],
           \A q \in Partial(L, k) : u.next[q] = m.next[q] /\ u.prev[q] = m.prev[q],
           Partial(K, k) = Partial(L, k)
    PROVE  SlotListed(u, K, k)
<1>1. PICK s : Chain(m, Slot(k), s) /\ ToSet(s) = Partial(L, k)
  BY DEF SlotListed
<1>2. Chain(u, Slot(k), s)
  BY <1>1, ChainFrame
<1> QED BY <1>1, <1>2 DEF SlotListed

-----------------------------------------------------------------------------
(* Each operation keeps the invariant.                                     *)

LEMMA FirstFitFacts ==
    ASSUME NEW m \in Memory, NEW F, NEW s, FreeSound(m, F, s), NEW n, Fitting(m, n) # {},
           NEW p, p = FirstFit(m, n)
    PROVE  p \in ToSet(s) /\ m.slab[p] >= n
<1>1. FreeHead \in Heads /\ Chain(m, FreeHead, s)
  BY Constants DEF FreeSound
<1>2. List(m, FreeHead) = s
  BY <1>1, ListOfChain
<1>3. s \in Seq(Pages) /\ ToSet(s) = {s[i] : i \in 1 .. Len(s)} /\ Len(s) \in Nat
  BY <1>1, SeqMembers DEF Chain
<1> DEFINE S == Fitting(m, n)
<1>4. S = {i \in 1 .. Len(s) : m.slab[s[i]] >= n}
  BY <1>2 DEF Fitting
<1>5. S \subseteq Nat
  BY <1>3, <1>4
<1>6. p = s[Min(S)]
  BY <1>2 DEF FirstFit
<1> HIDE DEF S
<1>7. Min(S) \in S
  BY <1>5, MinFacts DEF S
<1> QED BY <1>3, <1>4, <1>6, <1>7

LEMMA SoundFacts ==
    ASSUME NEW m, NEW mp, NEW L, Sound(m, mp, L)
    PROVE  /\ m \in Memory /\ mp \in [Pages -> SUBSET Nat] /\ L \subseteq Blocks /\ LiveSound(L)
           /\ \A b \in L : Covers(b) \subseteq Pages
           /\ \A b \in L : IF b.len = 0 THEN ChunkMarked(m, mp, L, b) ELSE RunMarked(m, b)
           /\ \E s : FreeSound(m, Unused(L), s)
           /\ \A k \in Classes : SlotListed(m, L, k)
  BY DEF Sound, LiveSound, BlocksMarked, FreeListed

\* Blocks and slot lists that the change of the free pages A does not reach.
LEMMA OutsideKept ==
    ASSUME NEW m, NEW mp, NEW L, Sound(m, mp, L), NEW u, NEW A, A \subseteq Pages, Outside(m, u, A)
    PROVE  /\ \A b \in L : Covers(b) \cap A = {} => SameMarks(m, u, Covers(b))
           /\ \A k \in Classes : u.next[Slot(k)] = m.next[Slot(k)]
           /\ \A k \in Classes : Partial(L, k) \cap A = {} =>
                 \A q \in Partial(L, k) : u.next[q] = m.next[q] /\ u.prev[q] = m.prev[q]
<1>1. Pages \subseteq Nodes /\ FreeHead \notin Pages
  BY Constants
<1>2. \A k \in Classes : Slot(k) \in Nodes /\ Slot(k) \notin A /\ Slot(k) # FreeHead
  BY Constants
<1>3. \A b \in L : Covers(b) \subseteq Pages
  BY SoundFacts
<1>4. \A k : Partial(L, k) \subseteq Pages
  BY DEF Partial
<1>5. \A y \in Nodes \ (A \cup {FreeHead}) : u.next[y] = m.next[y] /\ u.prev[y] = m.prev[y]
  BY DEF Outside
<1>6. \A q \in Pages \ A : u.slab[q] = m.slab[q] /\ u.type[q] = m.type[q]
  BY DEF Outside
<1>7. ASSUME NEW b \in L, Covers(b) \cap A = {}
      PROVE  SameMarks(m, u, Covers(b))
  <2>1. \A q \in Covers(b) : q \in Pages \ A /\ q \in Nodes \ (A \cup {FreeHead})
    BY <1>1, <1>3, <1>7
  <2> QED BY <1>5, <1>6, <2>1 DEF SameMarks
<1>8. ASSUME NEW k \in Classes, Partial(L, k) \cap A = {}, NEW q \in Partial(L, k)
      PROVE  u.next[q] = m.next[q] /\ u.prev[q] = m.prev[q]
  <2>1. q \in Nodes \ (A \cup {FreeHead})
    BY <1>1, <1>4, <1>8
  <2> QED BY <1>5, <2>1
<1> QED BY <1>2, <1>5, <1>7, <1>8

\* A run is handed out.
LEMMA AllocRunSound ==
    ASSUME NEW m, NEW mp, NEW L, Sound(m, mp, L), NEW n \in 1 .. MaxRun, Fitting(m, n) # {},
           NEW p, p = FirstFit(m, n), NEW u, u = TakePages(m, p, n),
           NEW b, b = [page |-> p, len |-> n, class |-> 0, chunk |-> 0]
    PROVE  Sound(u, mp, L \cup {b}) /\ b \in Blocks /\ Fresh(L, b)
<1> DEFINE K == L \cup {b}
           F == Unused(L)
           R == p .. p + n - 1
<1>0. /\ m \in Memory /\ mp \in [Pages -> SUBSET Nat] /\ L \subseteq Blocks /\ LiveSound(L)
      /\ \A a \in L : IF a.len = 0 THEN ChunkMarked(m, mp, L, a) ELSE RunMarked(m, a)
      /\ \A k \in Classes : SlotListed(m, L, k)
  BY SoundFacts
<1>1. PICK s : FreeSound(m, F, s)
  BY SoundFacts
<1>2. p \in ToSet(s) /\ m.slab[p] >= n
  BY <1>0, <1>1, FirstFitFacts
<1>3. n \in 1 .. NPages
  BY Constants
<1>4. Taken(m, u, F, p, n) /\ R \subseteq F
  BY <1>0, <1>1, <1>2, <1>3, TakePagesFacts
<1>5. /\ u \in Memory /\ Outside(m, u, F) /\ (\E t : FreeSound(u, F \ R, t))
      /\ \A q \in R : /\ u.next[q] = Null /\ u.type[q] = PageType
                      /\ u.slab[q] = IF q = p THEN PageStart + n ELSE PageBusy
  BY <1>4 DEF Taken, Shrunk
<1>6. p \in Pages
  BY <1>0, <1>1, <1>2, FreeFacts
<1>7. b \in Blocks /\ b.page = p /\ b.len = n /\ b.class = 0 /\ Covers(b) = R
  BY <1>6, RunFacts
<1> HIDE DEF R
<1>8. R \subseteq Pages /\ R \cap Used(L) = {} /\ F \subseteq Pages /\ F \cap Used(L) = {}
  BY <1>4 DEF Unused
<1>9. Fresh(L, b)
  BY <1>0, <1>7, <1>8, FreshRun
<1>10. LiveSound(K)
  BY <1>0, <1>7, <1>8, <1>9, AddBlock
<1>11. Unused(K) = F \ R
  BY <1>7, UsedAdd DEF Unused
<1>12. \A q \in Pages, k \in Classes : Own(K, q, k) = Own(L, q, k)
  <2>1. \A k \in Classes : k # 0
    BY DEF Classes
  <2> QED BY <1>7, <2>1 DEF Own
<1>13. \A k \in Classes : Partial(K, k) = Partial(L, k)
  BY <1>12 DEF Partial
<1>14. \A a \in L : Covers(a) \cap F = {}
  BY <1>0, <1>8, OwnFacts
<1>15. \A k \in Classes : Partial(L, k) \cap F = {}
  BY <1>0, <1>8, OwnFacts
<1>16. \A a \in L : IF a.len = 0 THEN ChunkMarked(u, mp, K, a) ELSE RunMarked(u, a)
  <2> TAKE a \in L
  <2>1. a \in Blocks /\ (a.len = 0 => a.page \in Pages /\ a.class \in Classes)
    BY <1>0, BlockFacts
  <2>2. SameMarks(m, u, Covers(a))
    BY <1>5, <1>8, <1>14, OutsideKept
  <2>3. a.len = 0 => Own(K, a.page, a.class) = Own(L, a.page, a.class)
    BY <1>12, <2>1
  <2>4. IF a.len = 0 THEN ChunkMarked(m, mp, L, a) ELSE RunMarked(m, a)
    BY <1>0
  <2> QED BY <2>1, <2>2, <2>3, <2>4, MarksKept
<1>17. b.len # 0 /\ RunMarked(u, b)
  <2>1. b.len # 0
    BY <1>7, Constants
  <2> QED BY <1>5, <1>7, <2>1 DEF RunMarked
<1>18. BlocksMarked(u, mp, K)
  BY <1>16, <1>17 DEF BlocksMarked
<1>19. ASSUME NEW k \in Classes PROVE SlotListed(u, K, k)
  <2>1. /\ u.next[Slot(k)] = m.next[Slot(k)]
        /\ \A q \in Partial(L, k) : u.next[q] = m.next[q] /\ u.prev[q] = m.prev[q]
    BY <1>5, <1>8, <1>15, OutsideKept
  <2> QED BY <1>0, <1>13, <2>1, SlotKept
<1>20. FreeListed(u, K)
  BY <1>5, <1>11 DEF FreeListed
<1>21. K \subseteq Blocks
  BY <1>0, <1>7
<1> HIDE DEF K
<1> QED BY <1>0, <1>5, <1>7, <1>9, <1>10, <1>18, <1>19, <1>20, <1>21 DEF Sound, K

\* Pages are given back, and no chunk.
LEMMA FreedSound ==
    ASSUME NEW m, NEW mp, NEW L, Sound(m, mp, L), NEW K, K \subseteq L,
           \A q \in Pages, k \in Classes : Own(K, q, k) = Own(L, q, k),
           NEW u, Freed(m, u, Unused(K))
    PROVE  Sound(u, mp, K)
<1>0. /\ m \in Memory /\ mp \in [Pages -> SUBSET Nat] /\ L \subseteq Blocks /\ LiveSound(L)
      /\ \A a \in L : IF a.len = 0 THEN ChunkMarked(m, mp, L, a) ELSE RunMarked(m, a)
      /\ \A k \in Classes : SlotListed(m, L, k)
  BY SoundFacts
<1>1. u \in Memory /\ Outside(m, u, Unused(K)) /\ FreeListed(u, K)
  BY DEF Freed, FreeListed
<1>2. K \subseteq Blocks /\ Unused(K) \subseteq Pages /\ Unused(K) \cap Used(K) = {}
  BY <1>0 DEF Unused
<1>3. LiveSound(K)
  BY <1>0 DEF LiveSound
<1>4. \A k \in Classes : Partial(K, k) = Partial(L, k)
  BY DEF Partial
<1>5. /\ \A a \in K : Covers(a) \cap Unused(K) = {}
      /\ \A k \in Classes : Partial(L, k) \cap Unused(K) = {}
  BY <1>2, <1>4, OwnFacts
<1>6. ASSUME NEW a \in K PROVE IF a.len = 0 THEN ChunkMarked(u, mp, K, a) ELSE RunMarked(u, a)
  <2>1. a \in Blocks /\ (a.len = 0 => a.page \in Pages /\ a.class \in Classes)
    BY <1>2, BlockFacts
  <2>2. SameMarks(m, u, Covers(a))
    BY <1>1, <1>2, <1>5, OutsideKept
  <2>3. a.len = 0 => Own(K, a.page, a.class) = Own(L, a.page, a.class)
    BY <2>1
  <2>4. IF a.len = 0 THEN ChunkMarked(m, mp, L, a) ELSE RunMarked(m, a)
    BY <1>0
  <2> QED BY <2>1, <2>2, <2>3, <2>4, MarksKept
<1>7. BlocksMarked(u, mp, K)
  BY <1>6 DEF BlocksMarked
<1>8. ASSUME NEW k \in Classes PROVE SlotListed(u, K, k)
  <2>1. /\ u.next[Slot(k)] = m.next[Slot(k)]
        /\ \A q \in Partial(L, k) : u.next[q] = m.next[q] /\ u.prev[q] = m.prev[q]
    BY <1>1, <1>2, <1>5, OutsideKept
  <2> QED BY <1>0, <1>4, <2>1, SlotKept
<1> QED BY <1>0, <1>1, <1>2, <1>3, <1>7, <1>8 DEF Sound

\* The length that pgrest_slab_do_free reads from a descriptor.
RunLength(m, p) == IF m.slab[p] > PageStart THEN m.slab[p] - PageStart ELSE m.slab[p]

\* A caller gives back its run.
LEMMA FreeRunSound ==
    ASSUME NEW m, NEW mp, NEW L, Sound(m, mp, L), NEW b \in L, b.len # 0,
           NEW u, u = FreePages(m, b.page, RunLength(m, b.page))
    PROVE  Sound(u, mp, L \ {b})
<1> DEFINE p == b.page
           n == b.len
           K == L \ {b}
           F == Unused(L)
           R == p .. p + n - 1
<1>0. /\ m \in Memory /\ L \subseteq Blocks /\ LiveSound(L) /\ Covers(b) \subseteq Pages
      /\ RunMarked(m, b)
  BY SoundFacts
<1>1. p \in Pages /\ n \in 1 .. MaxRun /\ Covers(b) = R /\ b.class = 0
  BY <1>0, BlockFacts
<1>2. NPages \in Nat /\ MaxRun \in Nat /\ MaxRun <= NPages /\ p \in Int
  BY <1>1, Constants
<1>3. n \in 1 .. NPages /\ p \in R /\ p + n - 1 \in R
  BY <1>1, <1>2
<1>4. p + n <= NPages
  <2>1. p + n - 1 \in Pages
    BY <1>0, <1>1, <1>3
  <2> QED BY <1>1, <1>2, <2>1 DEF Pages
<1>5. /\ m.slab[p] = PageStart + n /\ m.next[p] = Null
      /\ \A q \in p + 1 .. p + n - 1 : m.type[q] = PageType
  <2>1. \A q \in p + 1 .. p + n - 1 : q \in R
    BY <1>2, <1>3
  <2> QED BY <1>0, <1>1, <1>3, <2>1 DEF RunMarked
<1>6. u = FreePages(m, p, n)
  <2>1. RunLength(m, p) = n
    BY <1>2, <1>3, <1>5 DEF RunLength, PageStart
  <2> QED BY <2>1
<1>7. PICK s : FreeSound(m, F, s)
  BY SoundFacts
<1>8. Used(L) = Used(K) \cup R /\ Used(K) \cap R = {}
  <2>1. L = K \cup {b}
    OBVIOUS
  <2>2. Used(L) = Used(K) \cup R
    BY <1>1, <2>1, UsedAdd
  <2>3. ASSUME NEW a \in K, NEW q \in Covers(a), q \in R PROVE FALSE
    BY <1>0, <1>1, <2>3, SharedPage
  <2>4. Used(K) \cap R = {}
    BY <2>3 DEF Used
  <2> QED BY <2>2, <2>4
<1>9. R \subseteq Pages
  BY <1>0, <1>1
<1> HIDE DEF K, p, n
<1>10. R \cap F = {} /\ Unused(K) = F \cup R /\ Pages \ (F \cup R) \subseteq Used(L)
  BY <1>8, <1>9 DEF Unused
<1>11. Recognised(m, Pages \ (F \cup R))
  BY <1>10, UsedRecognised DEF Recognised
<1>12. Freed(m, u, F \cup R)
  BY <1>0, <1>1, <1>3, <1>4, <1>5, <1>6, <1>7, <1>10, <1>11, FreeOwned
<1>13. \A q \in Pages, k \in Classes : Own(K, q, k) = Own(L, q, k)
  <2>1. \A k \in Classes : k # 0
    BY DEF Classes
  <2> QED BY <1>1, <2>1 DEF Own, K
<1>14. K \subseteq L
  BY DEF K
<1> QED BY <1>10, <1>12, <1>13, <1>14, FreedSound DEF K

\* A caller gives back a page that nobody owns.
LEMMA FreeAgainSound ==
    ASSUME NEW m, NEW mp, NEW L, Sound(m, mp, L), NEW p \in Unused(L), m.slab[p] # PageFree,
           NEW u, u = FreePages(m, p, RunLength(m, p))
    PROVE  Sound(u, mp, L)
<1>0. m \in Memory /\ L \subseteq Blocks
  BY SoundFacts
<1>1. PICK s : FreeSound(m, Unused(L), s)
  BY SoundFacts
<1>2. p \in ToSet(s)
  BY <1>1, FreeMarks
<1>3. m.slab[p] \in 1 .. NPages /\ NPages \in Nat
  BY <1>0, <1>1, <1>2, FreeFacts, Constants
<1>4. RunLength(m, p) = m.slab[p]
  BY <1>3 DEF RunLength, PageStart
<1>5. Recognised(m, Pages \ Unused(L))
  BY UsedRecognised DEF Recognised, Unused
<1>6. Freed(m, u, Unused(L))
  BY <1>0, <1>1, <1>2, <1>4, <1>5, FreeListedRun
<1> QED BY <1>6, FreedSound

\* A chunk of page p, of class k, is handed out or given back: what has to be
\* shown for the rest of the invariant to hold.
ChunkStep(m, mp, L, u, np, K, p, k) ==
    /\ u \in Memory /\ np \in [Pages -> SUBSET Nat] /\ K \subseteq Blocks /\ LiveSound(K)
    /\ \A q \in Pages, j \in Classes : q # p \/ j # k => Own(K, q, j) = Own(L, q, j)
    /\ \A a \in K : IF p \in Covers(a) THEN a.len = 0 /\ a.class = k ELSE a \in L
    /\ SameMarks(m, u, Used(K) \ {p})
    /\ \A q \in Pages \ {p} : np[q] = mp[q]
    /\ Own(K, p, k) # {} => /\ u.type[p] = k /\ np[p] = (0 .. Reserved[k] - 1) \cup Own(K, p, k)
                            /\ u.next[p] = Null <=> Own(K, p, k) = Usable(k)
    /\ FreeListed(u, K) /\ SlotListed(u, K, k)
    /\ \A j \in Classes \ {k} : /\ u.next[Slot(j)] = m.next[Slot(j)]
                                 /\ \A q \in Partial(L, j) : u.next[q] = m.next[q] /\ u.prev[q] = m.prev[q]

LEMMA ChunkStepSound ==
    ASSUME NEW m, NEW mp, NEW L, Sound(m, mp, L), NEW p \in Pages, NEW k \in Classes,
           NEW u, NEW np, NEW K, ChunkStep(m, mp, L, u, np, K, p, k)
    PROVE  Sound(u, np, K)
<1>1. /\ u \in Memory /\ np \in [Pages -> SUBSET Nat] /\ K \subseteq Blocks /\ LiveSound(K)
      /\ \A q \in Pages, j \in Classes : q # p \/ j # k => Own(K, q, j) = Own(L, q, j)
      /\ \A a \in K : IF p \in Covers(a) THEN a.len = 0 /\ a.class = k ELSE a \in L
      /\ FreeListed(u, K) /\ SlotListed(u, K, k)
  BY DEF ChunkStep
<1>2. ASSUME NEW a \in K PROVE IF a.len = 0 THEN ChunkMarked(u, np, K, a) ELSE RunMarked(u, a)
  <2>1. a \in Blocks /\ a.page \in Pages /\ a.page \in Covers(a) /\ Covers(a) \subseteq Used(K)
    BY <1>1, BlockFacts, OwnFacts
  <2>2. CASE p \in Covers(a)
    <3>1. a.len = 0 /\ a.class = k
      BY <1>1, <2>2
    <3>2. a.page = p
      BY <2>1, <2>2, <3>1, BlockFacts
    <3>3. Own(K, p, k) # {}
      BY <1>1, <3>1, <3>2, OwnFacts
    <3>4. ChunkMarked(u, np, K, a)
      BY <3>1, <3>2, <3>3 DEF ChunkStep, ChunkMarked
    <3> QED BY <3>1, <3>4
  <2>3. CASE p \notin Covers(a)
    <3>1. a \in L /\ a.page # p
      BY <1>1, <2>1, <2>3
    <3>2. IF a.len = 0 THEN ChunkMarked(m, mp, L, a) ELSE RunMarked(m, a)
      BY <3>1, SoundFacts
    <3>3. SameMarks(m, u, Covers(a))
      <4>1. SameMarks(m, u, Used(K) \ {p})
        BY DEF ChunkStep
      <4> QED BY <2>1, <2>3, <4>1 DEF SameMarks
    <3>4. np[a.page] = mp[a.page]
      BY <2>1, <3>1 DEF ChunkStep
    <3>5. a.len = 0 => Own(K, a.page, a.class) = Own(L, a.page, a.class)
      <4>1. a.len = 0 => a.class \in Classes
        BY <2>1, BlockFacts
      <4> QED BY <1>1, <2>1, <3>1, <4>1
    <3> QED BY <2>1, <3>2, <3>3, <3>4, <3>5, MarksKept
  <2> QED BY <2>2, <2>3
<1>3. BlocksMarked(u, np, K)
  BY <1>2 DEF BlocksMarked
<1>4. ASSUME NEW j \in Classes PROVE SlotListed(u, K, j)
  <2>1. CASE j = k
    BY <1>1, <2>1
  <2>2. CASE j # k
    <3>1. /\ u.next[Slot(j)] = m.next[Slot(j)]
          /\ \A q \in Partial(L, j) : u.next[q] = m.next[q] /\ u.prev[q] = m.prev[q]
      BY <2>2 DEF ChunkStep
    <3>2. Partial(K, j) = Partial(L, j)
      BY <1>1, <2>2 DEF Partial
    <3>3. SlotListed(m, L, j)
      BY SoundFacts
    <3> QED BY <3>1, <3>2, <3>3, SlotKept
  <2> QED BY <2>1, <2>2
<1> QED BY <1>1, <1>3, <1>4 DEF Sound

OwnAdded(L, K, p, k, c) ==
    \A q, j : Own(K, q, j) = IF q = p /\ j = k THEN Own(L, p, k) \cup {c} ELSE Own(L, q, j)
LEMMA OwnAdd ==
    ASSUME NEW L, NEW p, NEW k, NEW c, NEW b, b = Piece(p, k, c)
    PROVE  OwnAdded(L, L \cup {b}, p, k, c)
<1>1. b.page = p /\ b.class = k /\ b.chunk = c
  BY DEF Piece
<1> QED BY <1>1 DEF Own, OwnAdded

OwnDropped(L, K, p, k, c) ==
    \A q \in Pages, j \in Classes :
       Own(K, q, j) = IF q = p /\ j = k THEN Own(L, q, j) \ {c} ELSE Own(L, q, j)

LEMMA OwnDrop ==
    ASSUME NEW L, L \subseteq Blocks, NEW b \in L, b.len = 0,
           NEW p, p = b.page, NEW k, k = b.class, NEW c, c = b.chunk
    PROVE  OwnDropped(L, L \ {b}, p, k, c)
<1> SUFFICES ASSUME NEW q \in Pages, NEW j \in Classes
             PROVE  Own(L \ {b}, q, j) = IF q = b.page /\ j = b.class
                                         THEN Own(L, q, j) \ {b.chunk} ELSE Own(L, q, j)
  BY DEF OwnDropped
<1>1. CASE ~(q = b.page /\ j = b.class)
  BY <1>1 DEF Own
<1>2. CASE q = b.page /\ j = b.class
  <2>1. b = Piece(q, j, b.chunk)
    BY <1>2, BlockFacts
  <2>2. ASSUME NEW a \in L, a.page = q, a.class = j, a # b PROVE a.chunk # b.chunk
    <3>1. j # 0
      BY DEF Classes
    <3>2. a = Piece(q, j, a.chunk)
      BY <2>2, <3>1, BlockFacts
    <3> QED BY <2>1, <2>2, <3>2
  <2>3. Own(L \ {b}, q, j) \subseteq Own(L, q, j) \ {b.chunk}
    BY <2>2 DEF Own
  <2>4. Own(L, q, j) \ {b.chunk} \subseteq Own(L \ {b}, q, j)
    BY DEF Own
  <2> QED BY <1>2, <2>3, <2>4
<1> QED BY <1>1, <1>2

\* All the blocks of a page with chunks are chunks of the same class.
LEMMA OneClass ==
    ASSUME NEW L, L \subseteq Blocks, LiveSound(L), NEW p \in Pages, NEW k \in Classes, Own(L, p, k) # {}
    PROVE  /\ \A a \in L : p \in Covers(a) => a.len = 0 /\ a.class = k /\ a.page = p
           /\ \A j \in Classes : Own(L, p, j) # {} => j = k
<1>1. PICK c : c \in Own(L, p, k)
  OBVIOUS
<1>2. Piece(p, k, c) \in L /\ c \in Usable(k)
  BY <1>1, OwnFacts
<1> DEFINE b == Piece(p, k, c)
<1>3. b.page = p /\ b.len = 0 /\ b.class = k /\ Covers(b) = {p}
  BY <1>2, PieceFacts
<1> HIDE DEF b
<1>4. ASSUME NEW a \in L, p \in Covers(a) PROVE a.len = 0 /\ a.class = k /\ a.page = p
  <2>1. CASE a = b
    BY <1>3, <2>1
  <2>2. CASE a # b
    BY <1>2, <1>3, <1>4, <2>2, SharedPage DEF b
  <2> QED BY <2>1, <2>2
<1>5. ASSUME NEW j \in Classes, Own(L, p, j) # {} PROVE j = k
  <2>1. PICK a \in L : a.page = p /\ a.class = j
    BY <1>5 DEF Own
  <2>2. p \in Covers(a)
    BY <2>1, BlockFacts
  <2> QED BY <1>4, <2>1, <2>2
<1> QED BY <1>4, <1>5

\* A page becomes the only one in the list of class k.
Open(m, p, k) ==
    [m EXCEPT !.type[p] = k, !.next[p] = Slot(k), !.prev[p] = Slot(k), !.next[Slot(k)] = p]
OpenBits(mp, p, k) == [mp EXCEPT ![p] = 0 .. FirstChunk(k)]
Opened(m, u, p, k) ==
    /\ u \in Memory /\ u.slab = m.slab
    /\ \A q \in Pages : u.type[q] = IF q = p THEN k ELSE m.type[q]
    /\ \A y \in Nodes : u.next[y] = IF y = Slot(k) THEN p ELSE IF y = p THEN Slot(k) ELSE m.next[y]
    /\ \A y \in Nodes : u.prev[y] = IF y = p THEN Slot(k) ELSE m.prev[y]
LEMMA OpenFields ==
    ASSUME NEW m \in Memory, NEW p \in Pages, NEW k \in Classes, NEW u, u = Open(m, p, k)
    PROVE  Opened(m, u, p, k)
<1> DEFINE h == Slot(k)
           e == [m.type EXCEPT ![p] = k]
           f == [[m.next EXCEPT ![p] = h] EXCEPT ![h] = p]
           g == [m.prev EXCEPT ![p] = h]
           v == [m EXCEPT !.type = e]
           w == [v EXCEPT !.next = f]
<1>1. /\ m.next \in Links /\ m.prev \in Links /\ m.type \in [Pages -> {PageType} \cup Classes]
      /\ p \in Nodes /\ h \in Nodes
  BY Constants DEF Memory, Links
<1>2. u = [w EXCEPT !.prev = g]
  BY DEF Open, Memory
<1>3. /\ e \in [Pages -> {PageType} \cup Classes]
      /\ \A q \in Pages : e[q] = IF q = p THEN k ELSE m.type[q]
  BY <1>1
<1> HIDE DEF h
<1>4. /\ f \in Links /\ \A y \in Nodes : f[y] = IF y = h THEN p ELSE IF y = p THEN h ELSE m.next[y]
      /\ g \in Links /\ \A y \in Nodes : g[y] = IF y = p THEN h ELSE m.prev[y]
  BY <1>1 DEF Links
<1> HIDE DEF e, f, g
<1>5. v \in Memory /\ v.next = m.next /\ v.prev = m.prev /\ v.slab = m.slab /\ v.type = e
  BY <1>3, SetType
<1> HIDE DEF v
<1>6. w \in Memory /\ w.next = f /\ w.prev = m.prev /\ w.slab = m.slab /\ w.type = e
  BY <1>4, <1>5, SetNext
<1> HIDE DEF w
<1>7. u \in Memory /\ u.next = f /\ u.prev = g /\ u.slab = m.slab /\ u.type = e
  BY <1>2, <1>4, <1>6, SetPrev
<1> QED BY <1>3, <1>4, <1>7 DEF Opened, h

LEMMA SingleChain ==
    ASSUME NEW u, NEW h \in Heads, NEW p \in Pages,
           u.next[h] = p, u.next[p] = h, u.prev[p] = h
    PROVE  Chain(u, h, <<p>>) /\ ToSet(<<p>>) = {p}
<1> DEFINE s == <<p>>
<1>1. s \in Seq(Pages) /\ Len(s) = 1 /\ s[1] = p /\ DOMAIN s = {1}
  OBVIOUS
<1> HIDE DEF s
<1>2. IsInjective(s)
  BY <1>1 DEF IsInjective
<1>3. \A i \in 1 .. Len(s) : i = 1
  BY <1>1
<1>4. Chain(u, h, s)
  BY <1>1, <1>2, <1>3 DEF Chain
<1>5. ToSet(s) = {p}
  BY <1>1 DEF ToSet
<1> QED BY <1>4, <1>5 DEF s

\* A page is taken for chunks of class k, and gives its first.
LEMMA AllocChunkPageSound ==
    ASSUME NEW m, NEW mp, NEW L, Sound(m, mp, L), NEW k \in Classes, m.next[Slot(k)] = Slot(k),
           Fitting(m, 1) # {}, NEW p, p = FirstFit(m, 1),
           NEW u, u = Open(TakePages(m, p, 1), p, k),
           NEW np, np = OpenBits(mp, p, k),
           NEW b, b = Piece(p, k, FirstChunk(k))
    PROVE  Sound(u, np, L \cup {b}) /\ b \in Blocks /\ Fresh(L, b)
<1> DEFINE K == L \cup {b}
           F == Unused(L)
           h == Slot(k)
           v == TakePages(m, p, 1)
           c == FirstChunk(k)
<1>0. /\ m \in Memory /\ mp \in [Pages -> SUBSET Nat] /\ L \subseteq Blocks /\ LiveSound(L)
      /\ SlotListed(m, L, k)
  BY SoundFacts
<1>1. PICK s : FreeSound(m, F, s)
  BY SoundFacts
<1>2. p \in ToSet(s) /\ m.slab[p] >= 1
  BY <1>0, <1>1, FirstFitFacts
<1>3. /\ NPages \in Nat /\ 1 \in 1 .. NPages /\ h \in Heads /\ h \in Nodes /\ h \notin Pages /\ h # FreeHead
      /\ Reserved[k] \in Nat /\ Chunks[k] \in Nat /\ Reserved[k] + 1 < Chunks[k]
      /\ Pages \subseteq Nodes /\ FreeHead \in Nodes /\ FreeHead \notin Pages /\ Null \notin Nodes
  <2>1. NPages \in Nat /\ NPages > 0 /\ h \in Heads /\ Pages \cap Heads = {} /\ Nodes = Pages \cup Heads
    BY Constants
  <2>2. 1 \in 1 .. NPages
    BY <2>1
  <2> QED BY <2>1, <2>2, Constants
<1>4. p \in Pages /\ p \in Int
  BY <1>0, <1>1, <1>2, FreeFacts
<1>5. Taken(m, v, F, p, 1) /\ p .. p + 1 - 1 = {p} /\ {p} \subseteq F
  <2>1. p .. p + 1 - 1 = {p}
    BY <1>4
  <2> QED BY <1>0, <1>1, <1>2, <1>3, <2>1, TakePagesFacts
<1>6. v \in Memory /\ Outside(m, v, F) /\ \E t : FreeSound(v, F \ {p}, t)
  BY <1>5 DEF Taken, Shrunk
<1>7. Opened(v, u, p, k)
  BY <1>4, <1>6, OpenFields
<1> HIDE DEF v
<1>8. /\ u \in Memory /\ u.slab = v.slab
      /\ u.next[h] = p /\ u.next[p] = h /\ u.prev[p] = h /\ u.type[p] = k
      /\ \A q \in Pages \ {p} : u.type[q] = v.type[q]
      /\ \A y \in Nodes \ {p, h} : u.next[y] = v.next[y] /\ u.prev[y] = v.prev[y]
  BY <1>3, <1>4, <1>7 DEF Opened
<1>9. c \in Usable(k) /\ {c} # Usable(k) /\ 0 .. c = (0 .. Reserved[k] - 1) \cup {c} /\ 0 .. c \subseteq Nat
  BY <1>3 DEF FirstChunk, Usable
<1> HIDE DEF c, h
<1>10. b \in Blocks /\ b.page = p /\ b.len = 0 /\ b.class = k /\ Covers(b) = {p}
  BY <1>4, <1>9, PieceFacts DEF c
<1>11. F \subseteq Pages /\ F \cap Used(L) = {} /\ p \notin Used(L)
  BY <1>5 DEF Unused
<1>12. Fresh(L, b)
  BY <1>0, <1>10, <1>11, FreshRun
<1>13. LiveSound(K) /\ K \subseteq Blocks
  BY <1>0, <1>4, <1>10, <1>12, AddBlock
<1>14. Used(K) = Used(L) \cup {p} /\ Unused(K) = F \ {p}
  BY <1>10, UsedAdd DEF Unused
<1>15. \A q, j : Own(K, q, j) = IF q = p /\ j = k THEN {c} ELSE Own(L, q, j)
  <2>1. \A j : Own(L, p, j) = {}
    BY <1>0, <1>11, OwnFacts
  <2>2. \A q, j : Own(K, q, j) = IF q = p /\ j = k THEN Own(L, p, k) \cup {c} ELSE Own(L, q, j)
    <3>1. b = Piece(p, k, c)
      BY DEF c
    <3>2. OwnAdded(L, K, p, k, c)
      BY <3>1, OwnAdd
    <3> QED BY <3>2 DEF OwnAdded
  <2> QED BY <2>1, <2>2
<1>16. \A a \in K : IF p \in Covers(a) THEN a.len = 0 /\ a.class = k ELSE a \in L
  BY <1>0, <1>10, <1>11, OwnFacts
<1>17. SameMarks(m, u, Used(K) \ {p})
  <2> SUFFICES ASSUME NEW q \in Used(L)
               PROVE  u.next[q] = m.next[q] /\ u.slab[q] = m.slab[q] /\ u.type[q] = m.type[q]
    BY <1>14 DEF SameMarks
  <2>1. q \in Pages \ F /\ q # p /\ q \in Nodes \ (F \cup {FreeHead}) /\ q \in Nodes \ {p, h}
    BY <1>3, <1>11, UsedRecognised
  <2> QED BY <1>6, <1>8, <2>1 DEF Outside
<1>18. np \in [Pages -> SUBSET Nat] /\ np[p] = 0 .. c /\ \A q \in Pages \ {p} : np[q] = mp[q]
  BY <1>0, <1>4, <1>9 DEF c, OpenBits
<1>19. /\ u.type[p] = k /\ np[p] = (0 .. Reserved[k] - 1) \cup Own(K, p, k)
       /\ u.next[p] = Null <=> Own(K, p, k) = Usable(k)
  <2>1. Own(K, p, k) = {c}
    BY <1>15
  <2>2. u.next[p] # Null
    BY <1>3, <1>8
  <2> QED BY <1>8, <1>9, <1>18, <2>1, <2>2
<1>20. FreeListed(u, K)
  <2>1. PICK t : FreeSound(v, F \ {p}, t)
    BY <1>6
  <2>2. FreeHead \in Nodes \ {p, h}
    BY <1>3, <1>4
  <2>3. \A q \in F \ {p} : q \in Nodes \ {p, h} /\ q \in Pages \ {p}
    BY <1>3, <1>11
  <2>4. u.next[FreeHead] = v.next[FreeHead]
    BY <1>8, <2>2
  <2>5. \A q \in F \ {p} : /\ u.next[q] = v.next[q] /\ u.prev[q] = v.prev[q]
                           /\ u.slab[q] = v.slab[q] /\ u.type[q] = v.type[q]
    BY <1>8, <2>3
  <2>6. FreeSound(u, F \ {p}, t)
    BY <1>6, <2>1, <2>4, <2>5, FreeFrame
  <2> QED BY <1>14, <2>6 DEF FreeListed
<1>21. SlotListed(u, K, k)
  <2>1. PICK t : Chain(m, h, t) /\ ToSet(t) = Partial(L, k)
    BY <1>0 DEF SlotListed, h
  <2>2. Partial(L, k) = {}
    <3>1. t \in Seq(Pages) /\ Len(t) \in Nat /\ ToSet(t) = {t[i] : i \in 1 .. Len(t)}
      BY <2>1, SeqMembers DEF Chain
    <3>2. m.next[h] = IF Len(t) = 0 THEN h ELSE t[1]
      BY <2>1 DEF Chain
    <3>3. Len(t) # 0 => t[1] \in Pages
      BY <3>1
    <3>4. Len(t) = 0
      BY <1>3, <3>2, <3>3 DEF h
    <3> QED BY <2>1, <3>1, <3>4
  <2>3. Partial(K, k) = {p}
    <3>1. p \in Partial(K, k)
      BY <1>4, <1>9, <1>15 DEF Partial
    <3>2. \A q \in Partial(K, k) : q = p
      BY <1>15, <2>2 DEF Partial
    <3> QED BY <3>1, <3>2
  <2>4. Chain(u, h, <<p>>) /\ ToSet(<<p>>) = {p}
    BY <1>3, <1>4, <1>8, SingleChain
  <2> QED BY <2>3, <2>4 DEF SlotListed, h
<1>22. ASSUME NEW j \in Classes \ {k}
       PROVE  /\ u.next[Slot(j)] = m.next[Slot(j)]
              /\ \A q \in Partial(L, j) : u.next[q] = m.next[q] /\ u.prev[q] = m.prev[q]
  <2>1. Slot(j) \in Nodes /\ Slot(j) \notin Pages /\ Slot(j) # FreeHead /\ Slot(j) # h
    BY Constants DEF h
  <2>2. \A q \in Partial(L, j) : q \in Pages /\ q \in Used(L)
    BY <1>0, OwnFacts DEF Partial
  <2>3. \A y \in Partial(L, j) \cup {Slot(j)} : y \in Nodes \ (F \cup {FreeHead}) /\ y \in Nodes \ {p, h}
    BY <1>3, <1>4, <1>11, <2>1, <2>2
  <2> QED BY <1>6, <1>8, <2>3 DEF Outside
<1> HIDE DEF K
<1>23. ChunkStep(m, mp, L, u, np, K, p, k)
  BY <1>8, <1>13, <1>15, <1>16, <1>17, <1>18, <1>19, <1>20, <1>21, <1>22 DEF ChunkStep
<1>24. Sound(u, np, K)
  BY <1>4, <1>23, ChunkStepSound
<1> QED BY <1>10, <1>12, <1>24 DEF K

\* A member leaves its list for good.
Drop(m, p) == [Unlink(m, p) EXCEPT !.next[p] = Null, !.prev[p] = Null]
Dropped(m, u, h, s, p) ==
    /\ u \in Memory /\ u.slab = m.slab /\ u.type = m.type
    /\ u.next[p] = Null
    /\ \A y \in Nodes \ (ToSet(s) \cup {h}) : u.next[y] = m.next[y] /\ u.prev[y] = m.prev[y]
    /\ \A y \in ToSet(s) \ {p} : u.next[y] # Null
    /\ \E t : Chain(u, h, t) /\ ToSet(t) = ToSet(s) \ {p}
LEMMA DropFields ==
    ASSUME NEW m \in Memory, NEW h \in Heads, NEW s, Chain(m, h, s), NEW p \in ToSet(s),
           NEW u, u = Drop(m, p)
    PROVE  Dropped(m, u, h, s, p)
<1> DEFINE v == Unlink(m, p)
           f == [v.next EXCEPT ![p] = Null]
           g == [v.prev EXCEPT ![p] = Null]
           w == [v EXCEPT !.next = f]
<1>0. h \in Nodes /\ h \notin Pages /\ Pages \subseteq Nodes /\ Null \notin Nodes
  BY Constants
<1>1. /\ ToSet(s) \subseteq Pages /\ p \in Pages /\ p \in Nodes
      /\ m.next[p] \in ToSet(s) \cup {h} /\ m.prev[p] \in ToSet(s) \cup {h}
      /\ m.next[p] \in Nodes /\ m.prev[p] \in Nodes
  BY <1>0, Neighbours
<1>2. s \in Seq(Pages) /\ IsInjective(s) /\ ToSet(s) = {s[i] : i \in 1 .. Len(s)}
  BY SeqMembers DEF Chain
<1>3. PICK j \in 1 .. Len(s) : p = s[j]
  BY <1>2
<1> DEFINE t == RemoveAt(s, j)
<1>4. Chain(v, h, t) /\ ToSet(t) = ToSet(s) \ {p}
  BY <1>2, <1>3, UnlinkChain, RemoveMember
<1>5. /\ v \in Memory /\ v.slab = m.slab /\ v.type = m.type
      /\ \A y \in Nodes : v.next[y] = IF y = m.prev[p] THEN m.next[p] ELSE m.next[y]
      /\ \A y \in Nodes : v.prev[y] = IF y = m.next[p] THEN m.prev[p] ELSE m.prev[y]
  BY <1>1, UnlinkFields
<1>6. u = [w EXCEPT !.prev = g]
  BY <1>5 DEF Drop, Memory
<1> HIDE DEF v, t
<1>7. /\ f \in Links /\ f[p] = Null /\ \A y \in Nodes \ {p} : f[y] = v.next[y]
      /\ g \in Links /\ \A y \in Nodes \ {p} : g[y] = v.prev[y]
  <2>1. v.next \in Links /\ v.prev \in Links
    BY <1>5 DEF Memory, Links
  <2> QED BY <1>1, <2>1 DEF Links
<1> HIDE DEF f, g
<1>8. w \in Memory /\ w.next = f /\ w.prev = v.prev /\ w.slab = v.slab /\ w.type = v.type
  BY <1>5, <1>7, SetNext
<1> HIDE DEF w
<1>9. u \in Memory /\ u.next = f /\ u.prev = g /\ u.slab = v.slab /\ u.type = v.type
  BY <1>6, <1>7, <1>8, SetPrev
<1>10. Chain(u, h, t)
  <2>1. \A y \in ToSet(t) \cup {h} : y \in Nodes \ {p}
    BY <1>0, <1>1, <1>4
  <2>2. \A y \in ToSet(t) \cup {h} : u.next[y] = v.next[y] /\ u.prev[y] = v.prev[y]
    BY <1>7, <1>9, <2>1
  <2> QED BY <1>4, <2>2, ChainFrame
<1>11. \A y \in ToSet(s) \ {p} : u.next[y] # Null
  <2>1. \A y \in ToSet(t) : u.next[y] \in ToSet(t) \cup {h}
    BY <1>10, Neighbours
  <2>2. ToSet(t) \cup {h} \subseteq Nodes
    BY <1>0, <1>1, <1>4
  <2> QED BY <1>0, <1>4, <2>1, <2>2
<1>12. \A y \in Nodes \ (ToSet(s) \cup {h}) : u.next[y] = m.next[y] /\ u.prev[y] = m.prev[y]
  BY <1>1, <1>5, <1>7, <1>9
<1> QED BY <1>4, <1>5, <1>7, <1>9, <1>10, <1>11, <1>12 DEF Dropped

\* What a member of a slot list is.
LEMMA PartialPage ==
    ASSUME NEW m, NEW mp, NEW L, Sound(m, mp, L), NEW k \in Classes, NEW p \in Pages, Own(L, p, k) # {}
    PROVE  /\ p \in Used(L) /\ p \notin Unused(L)
           /\ m.type[p] = k /\ mp[p] = (0 .. Reserved[k] - 1) \cup Own(L, p, k)
           /\ m.next[p] = Null <=> Own(L, p, k) = Usable(k)
           /\ Own(L, p, k) \subseteq Usable(k)
           /\ \A a \in L : p \in Covers(a) => a.len = 0 /\ a.class = k /\ a.page = p
           /\ \A j \in Classes : Own(L, p, j) # {} => j = k
<1>0. L \subseteq Blocks /\ LiveSound(L)
  BY SoundFacts
<1>1. PICK c : c \in Own(L, p, k)
  OBVIOUS
<1> DEFINE b == Piece(p, k, c)
<1>2. b \in L /\ c \in Usable(k)
  BY <1>0, <1>1, OwnFacts
<1>3. b.page = p /\ b.len = 0 /\ b.class = k
  BY <1>2, PieceFacts
<1> HIDE DEF b
<1>4. ChunkMarked(m, mp, L, b)
  BY <1>2, <1>3, SoundFacts
<1>5. /\ m.type[p] = k /\ mp[p] = (0 .. Reserved[k] - 1) \cup Own(L, p, k)
      /\ m.next[p] = Null <=> Own(L, p, k) = Usable(k)
  BY <1>3, <1>4 DEF ChunkMarked
<1>6. p \in Used(L) /\ Own(L, p, k) \subseteq Usable(k)
  BY <1>0, OwnFacts
<1>7. /\ \A a \in L : p \in Covers(a) => a.len = 0 /\ a.class = k /\ a.page = p
      /\ \A j \in Classes : Own(L, p, j) # {} => j = k
  BY <1>0, OneClass
<1> QED BY <1>5, <1>6, <1>7 DEF Unused

\* The bits of a page of class k whose chunks O are owned.
Masked(k, O, bits) ==
    /\ bits = FullMask(k) <=> O = Usable(k)
    /\ bits \cap Usable(k) = O
    /\ Usable(k) \subseteq FullMask(k)
    /\ \A c \in FullMask(k) : c \notin bits => c \in Usable(k) /\ c \notin O
LEMMA MaskFacts ==
    ASSUME NEW k \in Classes, NEW O, O \subseteq Usable(k), NEW bits, bits = (0 .. Reserved[k] - 1) \cup O
    PROVE  Masked(k, O, bits)
<1>1. Reserved[k] \in Nat /\ Chunks[k] \in Nat /\ Reserved[k] + 1 < Chunks[k]
  BY Constants
<1>2. Usable(k) \subseteq 0 .. Chunks[k] - 1 /\ 0 .. Chunks[k] - 1 \subseteq Nat
  BY <1>1 DEF Usable
<1>3. (0 .. Reserved[k] - 1) \cap Usable(k) = {}
  BY <1>1 DEF Usable
<1>4. (0 .. Reserved[k] - 1) \cup Usable(k) = 0 .. Chunks[k] - 1
  BY <1>1 DEF Usable
<1>5. FullMask(k) = 0 .. Chunks[k] - 1
  BY DEF FullMask
<1> QED BY <1>2, <1>3, <1>4, <1>5 DEF Masked

LEMMA ClassSize ==
    ASSUME NEW k \in Classes
    PROVE  \A c \in Usable(k) : Usable(k) \ {c} # {}
<1>1. Reserved[k] \in Nat /\ Chunks[k] \in Nat /\ Reserved[k] + 1 < Chunks[k]
  BY Constants
<1>2. Reserved[k] \in Usable(k) /\ Reserved[k] + 1 \in Usable(k) /\ Reserved[k] # Reserved[k] + 1
  BY <1>1 DEF Usable
<1> QED BY <1>2

\* The search of do_alloc finds a chunk.
FirstFree(k, bits) == CHOOSE i \in 0 .. Chunks[k] - 1 : i \notin bits /\ 0 .. i - 1 \subseteq bits
Found(k, bits, c) == c \in 0 .. Chunks[k] - 1 /\ c \notin bits /\ 0 .. c - 1 \subseteq bits
LEMMA SearchFinds ==
    ASSUME NEW k \in Classes, NEW bits, FullMask(k) \ bits # {},
           NEW c, c = FirstFree(k, bits)
    PROVE  Found(k, bits, c)
<1> DEFINE S == FullMask(k) \ bits
<1>1. Chunks[k] \in Nat
  BY Constants
<1>2. FullMask(k) = 0 .. Chunks[k] - 1 /\ S \subseteq Nat
  BY <1>1 DEF FullMask
<1>3. Min(S) \in S /\ \A y \in S : Min(S) <= y
  BY <1>2, MinFacts
<1> DEFINE x == Min(S)
<1> HIDE DEF x
<1>4. x \in S /\ x \in Nat /\ \A y \in S : x <= y
  BY <1>2, <1>3 DEF x
<1>5. x \in 0 .. Chunks[k] - 1 /\ x \notin bits
  BY <1>2, <1>4
<1>6. ASSUME NEW y \in 0 .. x - 1 PROVE y \in bits
  <2>1. y \in Nat /\ ~(x <= y) /\ y \in 0 .. Chunks[k] - 1
    BY <1>1, <1>4, <1>5
  <2>2. y \notin S
    BY <1>4, <2>1
  <2> QED BY <1>2, <2>1, <2>2
<1>7. \E i \in 0 .. Chunks[k] - 1 : i \notin bits /\ 0 .. i - 1 \subseteq bits
  BY <1>5, <1>6
<1> QED BY <1>7 DEF Found, FirstFree

\* The first page of a slot list gives a chunk.
Given(m, mp, p, k, c) == IF mp[p] \cup {c} = FullMask(k) THEN Drop(m, p) ELSE m
SetBit(mp, p, c) == [mp EXCEPT ![p] = @ \cup {c}]
LEMMA AllocChunkSound ==
    ASSUME NEW m, NEW mp, NEW L, Sound(m, mp, L), NEW k \in Classes,
           NEW p, p = m.next[Slot(k)], p # Slot(k),
           NEW c, c = FirstFree(k, mp[p]), NEW u, u = Given(m, mp, p, k, c),
           NEW np, np = SetBit(mp, p, c),
           NEW b, b = Piece(p, k, c)
    PROVE  Sound(u, np, L \cup {b}) /\ b \in Blocks /\ Fresh(L, b)
<1> DEFINE K == L \cup {b}
           F == Unused(L)
           h == Slot(k)
           O == Own(L, p, k)
           full == mp[p] \cup {c} = FullMask(k)
<1>0. /\ m \in Memory /\ mp \in [Pages -> SUBSET Nat] /\ L \subseteq Blocks /\ LiveSound(L)
      /\ SlotListed(m, L, k) /\ \E f : FreeSound(m, F, f)
  BY SoundFacts
<1>1. /\ NPages \in Nat /\ h \in Heads /\ h \in Nodes /\ h \notin Pages /\ h # FreeHead
      /\ Pages \subseteq Nodes /\ FreeHead \in Nodes /\ FreeHead \notin Pages /\ Null \notin Nodes
  BY Constants
<1>2. PICK s : Chain(m, h, s) /\ ToSet(s) = Partial(L, k)
  BY <1>0 DEF SlotListed
<1>3. p \in ToSet(s) /\ p \in Pages /\ O # {} /\ O # Usable(k)
  <2>1. m.next[h] \in ToSet(s) \cup {h}
    BY <1>1, <1>2, Neighbours
  <2> QED BY <1>2, <2>1 DEF Partial
<1>4. /\ p \in Used(L) /\ p \notin F
      /\ m.type[p] = k /\ mp[p] = (0 .. Reserved[k] - 1) \cup O
      /\ m.next[p] # Null /\ O \subseteq Usable(k)
      /\ \A a \in L : p \in Covers(a) => a.len = 0 /\ a.class = k /\ a.page = p
  BY <1>3, PartialPage
<1> HIDE DEF O, h
<1>a. Masked(k, O, mp[p])
  BY <1>4, MaskFacts
<1>5. FullMask(k) \ mp[p] # {}
  <2>1. mp[p] \cap Usable(k) = O /\ Usable(k) \subseteq FullMask(k)
    BY <1>a DEF Masked
  <2> QED BY <1>3, <1>4, <2>1
<1>6. Found(k, mp[p], c)
  BY <1>5, SearchFinds
<1>7. c \in Usable(k) /\ c \notin O
  BY <1>6, <1>a DEF Found, Masked, FullMask
<1>8. b \in Blocks /\ b.page = p /\ b.len = 0 /\ b.class = k /\ b.chunk = c /\ Covers(b) = {p}
  BY <1>3, <1>7, PieceFacts
<1>9. Fresh(L, b)
  <2> SUFFICES ASSUME NEW a \in L, p \in Covers(a) PROVE a.len = 0 /\ a.class = k /\ a.chunk # c
    BY <1>8 DEF Fresh, Overlap
  <2>1. a.len = 0 /\ a.class = k /\ a.page = p
    BY <1>4
  <2>2. a.chunk \in O
    BY <1>0, <2>1, OwnFacts DEF O
  <2> QED BY <1>7, <2>1, <2>2
<1>10. LiveSound(K) /\ K \subseteq Blocks
  BY <1>0, <1>3, <1>8, <1>9, AddBlock
<1>11. Used(K) = Used(L) /\ Unused(K) = F
  <2>1. Used(K) = Used(L) \cup {p}
    BY <1>8, UsedAdd
  <2>2. Used(K) = Used(L)
    BY <1>4, <2>1
  <2> QED BY <2>2 DEF Unused
<1>12. \A q, j : Own(K, q, j) = IF q = p /\ j = k THEN O \cup {c} ELSE Own(L, q, j)
  <2>1. OwnAdded(L, K, p, k, c)
    BY OwnAdd
  <2> QED BY <2>1 DEF OwnAdded, O
<1>13. \A a \in K : IF p \in Covers(a) THEN a.len = 0 /\ a.class = k ELSE a \in L
  BY <1>4, <1>8
<1>14. /\ np \in [Pages -> SUBSET Nat] /\ np[p] = (0 .. Reserved[k] - 1) \cup (O \cup {c})
       /\ \A q \in Pages \ {p} : np[q] = mp[q]
  <2>1. c \in Nat
    BY <1>6, Constants DEF Found
  <2>2. np[p] = mp[p] \cup {c}
    BY <1>0, <1>3 DEF SetBit
  <2>3. np \in [Pages -> SUBSET Nat] /\ \A q \in Pages \ {p} : np[q] = mp[q]
    BY <1>0, <1>3, <2>1 DEF SetBit
  <2> QED BY <1>4, <2>2, <2>3
<1>15. full <=> O \cup {c} = Usable(k)
  <2>1. O \cup {c} \subseteq Usable(k)
    BY <1>4, <1>7
  <2>2. mp[p] \cup {c} = (0 .. Reserved[k] - 1) \cup (O \cup {c})
    BY <1>4
  <2>3. Masked(k, O \cup {c}, mp[p] \cup {c})
    BY <2>1, <2>2, MaskFacts
  <2> QED BY <2>3 DEF Masked
<1>16. Partial(L, k) \cap F = {} /\ Partial(L, k) \subseteq Pages
  BY <1>0, OwnFacts DEF Partial, Unused
<1>17. \A q \in Pages : q # p => (q \in Partial(K, k) <=> q \in Partial(L, k))
  BY <1>12 DEF Partial
<1>18. p \in Partial(K, k) <=> ~full
  BY <1>3, <1>12, <1>15 DEF Partial
<1>19. /\ u \in Memory /\ SlotListed(u, K, k) /\ u.type[p] = k
       /\ u.slab = m.slab /\ u.type = m.type
       /\ u.next[p] = Null <=> full
       /\ \A y \in Nodes \ (Partial(L, k) \cup {h}) : u.next[y] = m.next[y] /\ u.prev[y] = m.prev[y]
       /\ \A y \in Partial(L, k) \ {p} : u.next[y] # Null
  <2>1. CASE full
    <3>1. u = Drop(m, p)
      BY <2>1 DEF Given
    <3>2. Dropped(m, u, h, s, p)
      BY <1>0, <1>1, <1>2, <1>3, <3>1, DropFields
    <3>3. PICK t : Chain(u, h, t) /\ ToSet(t) = ToSet(s) \ {p}
      BY <3>2 DEF Dropped
    <3>4. Partial(K, k) = ToSet(s) \ {p}
      <4>1. Partial(K, k) \subseteq Pages
        BY DEF Partial
      <4> QED BY <1>2, <1>16, <1>17, <1>18, <2>1, <4>1
    <3>5. SlotListed(u, K, k)
      BY <3>3, <3>4 DEF SlotListed, h
    <3> QED BY <1>2, <1>4, <2>1, <3>2, <3>5 DEF Dropped
  <2>2. CASE ~full
    <3>1. u = m
      BY <2>2 DEF Given
    <3>2. Partial(K, k) = Partial(L, k)
      <4>1. Partial(K, k) \subseteq Pages
        BY DEF Partial
      <4> QED BY <1>2, <1>3, <1>16, <1>17, <1>18, <2>2, <4>1
    <3>3. SlotListed(u, K, k)
      BY <1>2, <3>1, <3>2 DEF SlotListed, h
    <3>4. \A y \in Partial(L, k) : m.next[y] # Null
      <4>1. \A y \in ToSet(s) : m.next[y] \in ToSet(s) \cup {h}
        BY <1>1, <1>2, Neighbours
      <4> QED BY <1>1, <1>2, <1>16, <4>1
    <3> QED BY <1>0, <1>4, <2>2, <3>1, <3>3, <3>4
  <2> QED BY <2>1, <2>2
<1> HIDE DEF K, h, full
<1>20. FreeListed(u, K)
  <2>1. PICK f : FreeSound(m, F, f)
    BY <1>0
  <2>2. \A q \in F \cup {FreeHead} : q \in Nodes \ (Partial(L, k) \cup {h})
    BY <1>1, <1>16 DEF Unused
  <2>3. u.next[FreeHead] = m.next[FreeHead]
    BY <1>19, <2>2
  <2>4. \A q \in F : /\ u.next[q] = m.next[q] /\ u.prev[q] = m.prev[q]
                     /\ u.slab[q] = m.slab[q] /\ u.type[q] = m.type[q]
    BY <1>19, <2>2
  <2>5. FreeSound(u, F, f)
    <3>1. m \in Memory
      BY <1>0
    <3>2. SameFree(m, u, F)
      BY <2>3, <2>4 DEF SameFree
    <3> QED BY <2>1, <3>1, <3>2, FreeKept
  <2> QED BY <1>11, <2>5 DEF FreeListed
<1>21. SameMarks(m, u, Used(K) \ {p})
  <2> SUFFICES ASSUME NEW q \in Used(L), q # p PROVE u.next[q] = Null <=> m.next[q] = Null
    BY <1>11, <1>19 DEF SameMarks
  <2>1. CASE q \in Partial(L, k)
    <3>1. m.next[q] # Null
      <4>1. \A y \in ToSet(s) : m.next[y] \in ToSet(s) \cup {h}
        BY <1>1, <1>2, Neighbours
      <4> QED BY <1>1, <1>2, <1>16, <2>1, <4>1
    <3> QED BY <1>19, <2>1, <3>1
  <2>2. CASE q \notin Partial(L, k)
    <3>1. q \in Nodes \ (Partial(L, k) \cup {h})
      BY <1>1, <2>2, UsedRecognised
    <3> QED BY <1>19, <3>1
  <2> QED BY <2>1, <2>2
<1>22. ASSUME NEW j \in Classes \ {k}
       PROVE  /\ u.next[Slot(j)] = m.next[Slot(j)]
              /\ \A q \in Partial(L, j) : u.next[q] = m.next[q] /\ u.prev[q] = m.prev[q]
  <2>1. Slot(j) \in Nodes /\ Slot(j) \notin Pages /\ Slot(j) # h
    BY Constants DEF h
  <2>2. \A q \in Partial(L, j) : q \in Pages /\ q \notin Partial(L, k)
    <3> TAKE q \in Partial(L, j)
    <3>1. q \in Pages /\ Own(L, q, j) # {}
      BY DEF Partial
    <3>2. Own(L, q, k) # {} => j = k
      BY <3>1, PartialPage
    <3> QED BY <3>1, <3>2 DEF Partial
  <2>3. \A y \in Partial(L, j) \cup {Slot(j)} : y \in Nodes \ (Partial(L, k) \cup {h})
    BY <1>1, <1>16, <2>1, <2>2
  <2> QED BY <1>19, <2>3
<1>23. /\ np[p] = (0 .. Reserved[k] - 1) \cup Own(K, p, k)
       /\ u.next[p] = Null <=> Own(K, p, k) = Usable(k)
  <2>1. Own(K, p, k) = O \cup {c}
    BY <1>12
  <2> QED BY <1>14, <1>15, <1>19, <2>1
<1>24. \A q \in Pages, j \in Classes : q # p \/ j # k => Own(K, q, j) = Own(L, q, j)
  BY <1>12
<1>25. ChunkStep(m, mp, L, u, np, K, p, k)
  BY <1>10, <1>13, <1>14, <1>19, <1>20, <1>21, <1>22, <1>23, <1>24 DEF ChunkStep
<1>26. Sound(u, np, K)
  BY <1>3, <1>25, ChunkStepSound
<1> QED BY <1>8, <1>9, <1>26 DEF K

\* A chunk is given back: a full page returns to the list of its class, and a
\* page with no chunk left to the free runs.
Reclaim(m, mp, p, k, c) ==
    LET found == IF m.next[p] = Null THEN PushFront(m, Slot(k), p) ELSE m
    IN  IF Emptied(k, mp[p] \ {c}) THEN FreePages(found, p, 1) ELSE found
ClearBit(mp, p, c) == [mp EXCEPT ![p] = mp[p] \ {c}]

\* The descriptors after that, when the chunks O of the page are still owned.
Reclaimed(m, L, u, K, p, k, O) ==
    /\ u \in Memory /\ SlotListed(u, K, k) /\ FreeListed(u, K)
    /\ O # {} => u.type[p] = k /\ u.next[p] # Null
    /\ \A q \in Used(L) \ {p} : u.slab[q] = m.slab[q] /\ u.type[q] = m.type[q]
    /\ \A y \in Nodes \ (Unused(L) \cup Partial(L, k) \cup {p, FreeHead, Slot(k)}) :
          u.next[y] = m.next[y] /\ u.prev[y] = m.prev[y]
    /\ \A y \in Partial(L, k) \ {p} : u.next[y] # Null

LEMMA PushBack ==
    ASSUME NEW m, NEW mp, NEW L, Sound(m, mp, L), NEW k \in Classes, NEW p \in Pages, Own(L, p, k) = Usable(k),
           Own(L, p, k) # {},
           NEW K, Unused(K) = Unused(L), Partial(K, k) = Partial(L, k) \cup {p},
           NEW O, NEW u, u = PushFront(m, Slot(k), p)
    PROVE  Reclaimed(m, L, u, K, p, k, O)
<1> DEFINE h == Slot(k)
           F == Unused(L)
<1>0. m \in Memory /\ L \subseteq Blocks /\ SlotListed(m, L, k) /\ \E f : FreeSound(m, F, f)
  BY SoundFacts
<1>1. /\ h \in Heads /\ h \in Nodes /\ h \notin Pages /\ h # FreeHead
      /\ Pages \subseteq Nodes /\ FreeHead \in Nodes /\ FreeHead \notin Pages /\ Null \notin Nodes
  BY Constants
<1>2. PICK s : Chain(m, h, s) /\ ToSet(s) = Partial(L, k)
  BY <1>0 DEF SlotListed
<1>3. m.type[p] = k /\ p \notin F
  BY PartialPage
<1>4. p \notin ToSet(s)
  BY <1>2 DEF Partial
<1>5. /\ m.next[h] \in ToSet(s) \cup {h} /\ ToSet(s) \subseteq Pages
      /\ m.next[h] \in Nodes /\ p \in Nodes /\ p # h
  BY <1>1, <1>2, Neighbours
<1> HIDE DEF h, F
<1>6. /\ u \in Memory /\ u.slab = m.slab /\ u.type = m.type
      /\ \A y \in Nodes : u.next[y] = IF y = h THEN p ELSE IF y = p THEN m.next[h] ELSE m.next[y]
      /\ \A y \in Nodes : u.prev[y] = IF y = m.next[h] THEN p ELSE IF y = p THEN h ELSE m.prev[y]
  BY <1>0, <1>1, <1>5, PushFields DEF h
<1>7. Chain(u, h, <<p>> \o s)
  BY <1>0, <1>1, <1>2, <1>4, PushChain DEF h
<1>8. ToSet(<<p>> \o s) = ToSet(s) \cup {p}
  <2>1. s \in Seq(Pages)
    BY <1>2 DEF Chain
  <2> QED BY <2>1, PushFacts
<1>9. SlotListed(u, K, k)
  <2>1. ToSet(<<p>> \o s) = Partial(K, k)
    BY <1>2, <1>8
  <2> QED BY <1>7, <2>1 DEF SlotListed, h
<1>10. \A y \in Nodes \ (ToSet(s) \cup {p, h}) : u.next[y] = m.next[y] /\ u.prev[y] = m.prev[y]
  BY <1>5, <1>6
<1>11. ToSet(s) \cap F = {}
  BY <1>0, <1>2, OwnFacts DEF F, Unused
<1>12. FreeListed(u, K)
  <2>1. PICK f : FreeSound(m, F, f)
    BY <1>0
  <2>2. \A q \in F \cup {FreeHead} : q \in Nodes \ (ToSet(s) \cup {p, h})
    BY <1>1, <1>3, <1>5, <1>11 DEF F, Unused
  <2>3. u.next[FreeHead] = m.next[FreeHead]
    BY <1>10, <2>2
  <2>4. \A q \in F : /\ u.next[q] = m.next[q] /\ u.prev[q] = m.prev[q]
                     /\ u.slab[q] = m.slab[q] /\ u.type[q] = m.type[q]
    BY <1>6, <1>10, <2>2
  <2>5. FreeSound(u, F, f)
    <3>1. SameFree(m, u, F)
      BY <2>3, <2>4 DEF SameFree
    <3> QED BY <1>0, <2>1, <3>1, FreeKept
  <2> QED BY <2>5 DEF FreeListed, F
<1>13. \A y \in ToSet(s) \cup {p} : u.next[y] # Null
  <2>1. \A y \in ToSet(<<p>> \o s) : u.next[y] \in ToSet(<<p>> \o s) \cup {h}
    BY <1>1, <1>7, Neighbours
  <2> QED BY <1>1, <1>5, <1>8, <2>1
<1> QED BY <1>2, <1>3, <1>6, <1>9, <1>10, <1>12, <1>13 DEF Reclaimed, h

LEMMA StaysListed ==
    ASSUME NEW m, NEW mp, NEW L, Sound(m, mp, L), NEW k \in Classes, NEW p \in Partial(L, k),
           NEW K, Unused(K) = Unused(L), Partial(K, k) = Partial(L, k), NEW O
    PROVE  Reclaimed(m, L, m, K, p, k, O)
<1>0. m \in Memory /\ SlotListed(m, L, k) /\ \E f : FreeSound(m, Unused(L), f)
  BY SoundFacts
<1>1. PICK s : Chain(m, Slot(k), s) /\ ToSet(s) = Partial(L, k)
  BY <1>0 DEF SlotListed
<1>2. SlotListed(m, K, k) /\ FreeListed(m, K)
  BY <1>0 DEF SlotListed, FreeListed
<1>3. Slot(k) \in Heads /\ Slot(k) \in Nodes /\ Null \notin Nodes
  BY Constants
<1>4. \A y \in ToSet(s) : m.next[y] # Null
  <2>1. /\ \A y \in ToSet(s) : m.next[y] \in ToSet(s) \cup {Slot(k)}
        /\ ToSet(s) \cup {Slot(k)} \subseteq Nodes
    BY <1>1, <1>3, Neighbours
  <2> QED BY <1>3, <2>1
<1>5. m.type[p] = k
  BY PartialPage DEF Partial
<1> QED BY <1>0, <1>1, <1>2, <1>4, <1>5 DEF Reclaimed

LEMMA GoesFree ==
    ASSUME NEW m, NEW mp, NEW L, Sound(m, mp, L), NEW k \in Classes, NEW p \in Partial(L, k),
           NEW K, Unused(K) = Unused(L) \cup {p}, Partial(K, k) = Partial(L, k) \ {p},
           NEW u, u = FreePages(m, p, 1)
    PROVE  Reclaimed(m, L, u, K, p, k, {})
<1> DEFINE h == Slot(k)
           F == Unused(L)
<1>0. m \in Memory /\ L \subseteq Blocks /\ SlotListed(m, L, k)
  BY SoundFacts
<1>1. PICK f : FreeSound(m, F, f)
  BY SoundFacts
<1>2. PICK s : Chain(m, h, s) /\ ToSet(s) = Partial(L, k)
  BY <1>0 DEF SlotListed
<1>3. h \in Heads /\ h # FreeHead
  BY Constants
<1>4. ToSet(s) \cap F = {}
  BY <1>0, <1>2, OwnFacts DEF Unused
<1>5. Recognised(m, Pages \ (F \cup ToSet(s)))
  BY UsedRecognised DEF Recognised, Unused
<1>6. \A q \in ToSet(s) : m.type[q] # PageType
  <2> TAKE q \in ToSet(s)
  <2>1. q \in Pages /\ Own(L, q, k) # {}
    BY <1>2 DEF Partial
  <2>2. m.type[q] = k
    BY <2>1, PartialPage
  <2> QED BY <2>2 DEF Classes, PageType
<1>7. ChunkPageFreed(m, u, F, p, h, s)
  BY <1>0, <1>1, <1>2, <1>3, <1>4, <1>5, <1>6, FreeChunkPage
<1>8. u \in Memory /\ SlotListed(u, K, k) /\ FreeListed(u, K)
  BY <1>2, <1>7 DEF ChunkPageFreed, SlotListed, FreeListed
<1>9. Used(L) \ {p} \subseteq Pages \ (F \cup {p})
  BY UsedRecognised DEF Unused
<1>10. \A q \in Used(L) \ {p} : u.slab[q] = m.slab[q] /\ u.type[q] = m.type[q]
  BY <1>7, <1>9 DEF ChunkPageFreed
<1> HIDE DEF h, F
<1>11. /\ \A y \in Nodes \ (F \cup Partial(L, k) \cup {p, FreeHead, h}) : u.next[y] = m.next[y] /\ u.prev[y] = m.prev[y]
       /\ \A y \in Partial(L, k) \ {p} : u.next[y] # Null
  BY <1>2, <1>7 DEF ChunkPageFreed
<1> QED BY <1>8, <1>10, <1>11 DEF Reclaimed, h, F

LEMMA FreeChunkSound ==
    ASSUME NEW m, NEW mp, NEW L, Sound(m, mp, L), NEW b \in L, b.len = 0,
           NEW p, p = b.page, NEW k, k = b.class, NEW c, c = b.chunk,
           NEW u, u = Reclaim(m, mp, p, k, c), NEW np, np = ClearBit(mp, p, c)
    PROVE  Sound(u, np, L \ {b})
<1> DEFINE K == L \ {b}
           O == Own(L, p, k)
           Q == Own(K, p, k)
<1>0. /\ m \in Memory /\ mp \in [Pages -> SUBSET Nat] /\ L \subseteq Blocks /\ LiveSound(L)
  BY SoundFacts
<1>1. p \in Pages /\ k \in Classes /\ c \in Usable(k) /\ Covers(b) = {p}
  BY <1>0, BlockFacts
<1>2. c \in O /\ O # {}
  <2>1. c \in O
    BY <1>0, OwnFacts
  <2> QED BY <2>1
<1>3. /\ p \in Used(L) /\ p \notin Unused(L)
      /\ m.type[p] = k /\ mp[p] = (0 .. Reserved[k] - 1) \cup O
      /\ m.next[p] = Null <=> O = Usable(k)
      /\ O \subseteq Usable(k)
      /\ \A a \in L : p \in Covers(a) => a.len = 0 /\ a.class = k /\ a.page = p
  BY <1>1, <1>2, PartialPage
<1>a. OwnDropped(L, K, p, k, c)
  BY <1>0, OwnDrop
<1>4. \A q \in Pages, j \in Classes : q # p \/ j # k => Own(K, q, j) = Own(L, q, j)
  BY <1>a DEF OwnDropped
<1>5. Q = O \ {c} /\ Q # Usable(k) /\ Q \subseteq Usable(k)
  <2>1. Q = O \ {c}
    BY <1>1, <1>a DEF OwnDropped
  <2> HIDE DEF O, Q
  <2> QED BY <1>1, <1>3, <2>1
<1> HIDE DEF O, Q
<1>6. K \subseteq Blocks /\ LiveSound(K)
  BY <1>0, DropBlock
<1>7. \A a \in K : IF p \in Covers(a) THEN a.len = 0 /\ a.class = k ELSE a \in L
  BY <1>3
<1>8. Used(L) = Used(K) \cup {p} /\ (p \in Used(K) <=> Q # {})
  <2>1. L = K \cup {b}
    OBVIOUS
  <2>2. Used(L) = Used(K) \cup {p}
    BY <1>1, <2>1, UsedAdd
  <2>3. Q # {} => p \in Used(K)
    BY <1>6, OwnFacts DEF Q
  <2>4. ASSUME p \in Used(K) PROVE Q # {}
    <3>1. PICK a \in K : p \in Covers(a)
      BY <2>4 DEF Used
    <3>2. a.len = 0 /\ a.class = k /\ a.page = p
      BY <1>3, <3>1
    <3>3. a.chunk \in Q
      BY <1>6, <3>2, OwnFacts DEF Q
    <3> QED BY <3>3
  <2> QED BY <2>2, <2>3, <2>4
<1>9. Unused(K) = IF Q = {} THEN Unused(L) \cup {p} ELSE Unused(L)
  BY <1>1, <1>8 DEF Unused
<1>10. Partial(K, k) = IF Q = {} THEN Partial(L, k) \ {p} ELSE Partial(L, k) \cup {p}
  <2>1. \A q \in Pages \ {p} : q \in Partial(K, k) <=> q \in Partial(L, k)
    BY <1>1, <1>4 DEF Partial
  <2>2. p \in Partial(K, k) <=> Q # {}
    BY <1>1, <1>5 DEF Partial, Q
  <2>3. Partial(K, k) \subseteq Pages /\ Partial(L, k) \subseteq Pages
    BY DEF Partial
  <2> QED BY <1>1, <2>1, <2>2, <2>3
<1>11. p \in Partial(L, k) <=> O # Usable(k)
  BY <1>1, <1>2 DEF Partial, O
<1>12. mp[p] \ {c} = (0 .. Reserved[k] - 1) \cup Q
  <2>1. c \notin 0 .. Reserved[k] - 1
    BY <1>1, Constants DEF Usable
  <2> QED BY <1>3, <1>5, <2>1
<1>13. Emptied(k, mp[p] \ {c}) <=> Q = {}
  <2>1. Masked(k, Q, mp[p] \ {c})
    BY <1>1, <1>5, <1>12, MaskFacts
  <2> QED BY <2>1 DEF Masked, Emptied
<1>14. /\ np \in [Pages -> SUBSET Nat] /\ np[p] = mp[p] \ {c} /\ \A q \in Pages \ {p} : np[q] = mp[q]
  BY <1>0, <1>1 DEF ClearBit
<1> HIDE DEF K
<1>15. Reclaimed(m, L, u, K, p, k, Q)
  <2>1. CASE O = Usable(k)
    <3>1. Q # {}
      BY <1>1, <1>5, <2>1, ClassSize
    <3>2. u = PushFront(m, Slot(k), p)
      BY <1>3, <1>13, <2>1, <3>1 DEF Reclaim
    <3>3. Unused(K) = Unused(L) /\ Partial(K, k) = Partial(L, k) \cup {p}
      BY <1>9, <1>10, <3>1
    <3> QED BY <1>1, <1>2, <2>1, <3>2, <3>3, PushBack DEF O
  <2>2. CASE O # Usable(k) /\ Q # {}
    <3>1. u = m
      BY <1>3, <1>13, <2>2 DEF Reclaim
    <3>2. p \in Partial(L, k) /\ Unused(K) = Unused(L) /\ Partial(K, k) = Partial(L, k)
      BY <1>9, <1>10, <1>11, <2>2
    <3> QED BY <1>1, <3>1, <3>2, StaysListed
  <2>3. CASE O # Usable(k) /\ Q = {}
    <3>1. u = FreePages(m, p, 1)
      BY <1>3, <1>13, <2>3 DEF Reclaim
    <3>2. p \in Partial(L, k) /\ Unused(K) = Unused(L) \cup {p} /\ Partial(K, k) = Partial(L, k) \ {p}
      BY <1>9, <1>10, <1>11, <2>3
    <3>3. Reclaimed(m, L, u, K, p, k, {})
      BY <1>1, <3>1, <3>2, GoesFree
    <3> QED BY <2>3, <3>3
  <2> QED BY <2>1, <2>2, <2>3
<1>16. /\ u \in Memory /\ SlotListed(u, K, k) /\ FreeListed(u, K)
       /\ Q # {} => u.type[p] = k /\ u.next[p] # Null
       /\ \A q \in Used(L) \ {p} : u.slab[q] = m.slab[q] /\ u.type[q] = m.type[q]
       /\ \A y \in Nodes \ (Unused(L) \cup Partial(L, k) \cup {p, FreeHead, Slot(k)}) :
             u.next[y] = m.next[y] /\ u.prev[y] = m.prev[y]
       /\ \A y \in Partial(L, k) \ {p} : u.next[y] # Null
  BY <1>15 DEF Reclaimed
<1>17. /\ Pages \subseteq Nodes /\ FreeHead \notin Pages
       /\ Slot(k) \notin Pages
  BY <1>1, Constants
<1>18. SameMarks(m, u, Used(K) \ {p})
  <2> SUFFICES ASSUME NEW q \in Used(L), q # p PROVE u.next[q] = Null <=> m.next[q] = Null
    BY <1>8, <1>16 DEF SameMarks
  <2>1. CASE q \in Partial(L, k)
    <3>1. q \in Pages /\ Own(L, q, k) # {} /\ Own(L, q, k) # Usable(k)
      BY <2>1 DEF Partial
    <3>2. m.next[q] # Null
      BY <1>1, <3>1, PartialPage
    <3> QED BY <1>16, <2>1, <3>2
  <2>2. CASE q \notin Partial(L, k)
    <3>1. q \in Pages /\ q \notin Unused(L)
      BY UsedRecognised DEF Unused
    <3>2. q \in Nodes \ (Unused(L) \cup Partial(L, k) \cup {p, FreeHead, Slot(k)})
      BY <1>17, <2>2, <3>1
    <3> QED BY <1>16, <3>2
  <2> QED BY <2>1, <2>2
<1>19. ASSUME NEW j \in Classes \ {k}
       PROVE  /\ u.next[Slot(j)] = m.next[Slot(j)]
              /\ \A q \in Partial(L, j) : u.next[q] = m.next[q] /\ u.prev[q] = m.prev[q]
  <2>1. Slot(j) \in Nodes /\ Slot(j) \notin Pages /\ Slot(j) # Slot(k) /\ Slot(j) # FreeHead
    BY <1>1, Constants
  <2>2. \A q \in Partial(L, j) : q \in Pages /\ q \notin Partial(L, k) /\ q # p /\ q \notin Unused(L)
    <3> TAKE q \in Partial(L, j)
    <3>1. q \in Pages /\ Own(L, q, j) # {}
      BY DEF Partial
    <3>2. Own(L, q, k) # {} => j = k
      BY <1>1, <3>1, PartialPage
    <3>3. q \notin Unused(L)
      BY <3>1, PartialPage
    <3>4. q # p
      BY <1>2, <3>2 DEF O
    <3> QED BY <3>1, <3>2, <3>3, <3>4 DEF Partial
  <2>3. Unused(L) \subseteq Pages /\ Partial(L, k) \subseteq Pages
    BY DEF Unused, Partial
  <2>4. \A y \in Partial(L, j) \cup {Slot(j)} :
           y \in Nodes \ (Unused(L) \cup Partial(L, k) \cup {p, FreeHead, Slot(k)})
    BY <1>1, <1>17, <2>1, <2>2, <2>3
  <2> QED BY <1>16, <2>4
<1>20. Own(K, p, k) # {} => /\ u.type[p] = k /\ np[p] = (0 .. Reserved[k] - 1) \cup Own(K, p, k)
                            /\ u.next[p] = Null <=> Own(K, p, k) = Usable(k)
  BY <1>5, <1>12, <1>14, <1>16 DEF Q
<1>22. ChunkStep(m, mp, L, u, np, K, p, k)
  BY <1>6, <1>7, <1>14, <1>16, <1>18, <1>19, <1>20, <1>4 DEF ChunkStep
<1> QED BY <1>1, <1>22, ChunkStepSound DEF K

-----------------------------------------------------------------------------
(* The invariant is inductive.                                             *)

LEMMA InitSound ==
    Init => SlabInv
<1> SUFFICES ASSUME Init PROVE SlabInv
  OBVIOUS
<1> DEFINE m == mem
<1>1. /\ NPages \in Nat /\ NPages > 0 /\ NClasses \in Nat
      /\ 0 \in Pages /\ 0 \in Nodes /\ FreeHead \in Nodes /\ FreeHead # 0 /\ FreeHead \notin Pages
  BY Constants DEF Pages, Nodes, FreeHead
<1>2. /\ \A x \in Nodes : m.next[x] = CASE x = FreeHead -> 0 [] x > FreeHead -> x
                                        [] x = 0 -> FreeHead [] OTHER -> Null
      /\ \A x \in Nodes : m.prev[x] = IF x = 0 THEN FreeHead ELSE Null
      /\ \A p \in Pages : m.slab[p] = IF p = 0 THEN NPages ELSE PageFree
      /\ \A p \in Pages : m.type[p] = PageType
      /\ m = [next |-> m.next, prev |-> m.prev, slab |-> m.slab, type |-> m.type]
      /\ DOMAIN m.next = Nodes /\ DOMAIN m.prev = Nodes /\ DOMAIN m.slab = Pages /\ DOMAIN m.type = Pages
  BY DEF Init
<1>3. m.next \in [Nodes -> Nodes \cup {Null}]
  <2>1. \A x \in Nodes : m.next[x] \in Nodes \cup {Null}
    BY <1>1, <1>2 DEF Nodes, FreeHead
  <2>2. m.next = [x \in Nodes |-> m.next[x]]
    BY DEF Init
  <2> HIDE DEF m
  <2> QED BY <2>1, <2>2
<1>4. m.prev \in [Nodes -> Nodes \cup {Null}]
  BY <1>1 DEF Init
<1>5. m.slab \in [Pages -> PageBusy .. PageStart + NPages]
  BY <1>1 DEF Init, PageBusy, PageStart, PageFree
<1>6. m.type \in [Pages -> {PageType} \cup Classes]
  BY DEF Init
<1>7. mem \in Memory
  <2> HIDE DEF m
  <2>1. m \in Memory
    BY <1>2, <1>3, <1>4, <1>5, <1>6 DEF Memory
  <2> QED BY <2>1 DEF m
<1>8. map \in [Pages -> SUBSET Nat] /\ live = {}
  BY DEF Init
<1>9. LiveSound(live) /\ BlocksMarked(mem, map, live)
  BY <1>8 DEF LiveSound, BlocksMarked
<1>10. Used(live) = {} /\ Unused(live) = Pages /\ \A k \in Classes : Partial(live, k) = {}
  BY <1>8 DEF Used, Unused, Own, Partial
<1>11. FreeListed(mem, live)
  <2> DEFINE s == <<0>>
  <2>1. s \in Seq(Pages) /\ IsInjective(s) /\ ToSet(s) = {0} /\ Len(s) = 1 /\ s[1] = 0
    BY <1>1 DEF IsInjective, ToSet
  <2> HIDE DEF s
  <2>2. m.next[FreeHead] = 0 /\ m.next[0] = FreeHead /\ m.prev[0] = FreeHead /\ m.slab[0] = NPages
    BY <1>1, <1>2 DEF FreeHead
  <2> HIDE DEF m
  <2>3. Chain(m, FreeHead, s)
    BY <2>1, <2>2 DEF Chain
  <2>4. Run(m, 0) = Pages
    BY <1>1, <2>2 DEF Run, Pages
  <2>5. \A q \in Pages \ {0} : m.slab[q] = PageFree /\ m.next[q] = Null
    <3> TAKE q \in Pages \ {0}
    <3>1. q \in Pages /\ q \in Nodes /\ q # FreeHead /\ ~(q > FreeHead) /\ q # 0
      BY <1>1 DEF Pages, Nodes, FreeHead
    <3> QED BY <1>2, <3>1
  <2>6. 0 - 1 \notin Pages /\ 0 + NPages \notin Pages /\ ~(0 + NPages < NPages)
    BY <1>1 DEF Pages
  <2>7. FreeSound(m, Pages, s)
    BY <1>1, <1>2, <2>1, <2>2, <2>3, <2>4, <2>5, <2>6 DEF FreeSound
  <2> QED BY <1>10, <2>7 DEF FreeListed, m
<1>12. ASSUME NEW k \in Classes PROVE SlotListed(mem, live, k)
  <2>1. m.next[Slot(k)] = Slot(k)
    BY <1>1, <1>2 DEF Slot, FreeHead, Nodes, Classes
  <2>2. << >> \in Seq(Pages) /\ IsInjective(<< >>) /\ ToSet(<< >>) = {} /\ Len(<< >>) = 0
    BY DEF IsInjective, ToSet
  <2> HIDE DEF m
  <2>3. Chain(m, Slot(k), << >>)
    BY <2>1, <2>2 DEF Chain
  <2> QED BY <1>10, <2>2, <2>3 DEF SlotListed, m
<1> QED BY <1>7, <1>8, <1>9, <1>11, <1>12 DEF SlabInv, Sound

\* What a step does to the blocks that are out.
Lent(b) == b \in Blocks /\ Fresh(live, b) /\ live' = live \cup {b}
Back(b) == b \in live /\ live' = live \ {b}

LEMMA AllocRunStep ==
    ASSUME SlabInv, NEW n \in 1 .. MaxRun, AllocRun(n)
    PROVE  SlabInv' /\ \E b : Lent(b)
<1> DEFINE p == FirstFit(mem, n)
           b == [page |-> p, len |-> n, class |-> 0, chunk |-> 0]
<1>1. /\ Fitting(mem, n) # {} /\ mem' = TakePages(mem, p, n)
      /\ live' = live \cup {b} /\ map' = map
  BY DEF AllocRun
<1>2. Sound(mem, map, live)
  BY DEF SlabInv
<1>3. Sound(mem', map', live \cup {b}) /\ b \in Blocks /\ Fresh(live, b)
  <2> HIDE DEF p
  <2> QED BY <1>1, <1>2, AllocRunSound DEF p
<1> HIDE DEF b
<1> QED BY <1>1, <1>3 DEF SlabInv, Lent

LEMMA AllocChunkStep ==
    ASSUME SlabInv, NEW k \in Classes, AllocChunk(k)
    PROVE  SlabInv' /\ \E b : Lent(b)
<1> DEFINE p == mem.next[Slot(k)]
           c == FirstFree(k, map[p])
           b == Piece(p, k, c)
<1>1. /\ p # Slot(k) /\ map' = SetBit(map, p, c) /\ live' = live \cup {b}
      /\ mem' = Given(mem, map, p, k, c)
  BY DEF AllocChunk, FirstFree, SetBit, Given, Drop
<1>2. Sound(mem, map, live)
  BY DEF SlabInv
<1>3. Sound(mem', map', live \cup {b}) /\ b \in Blocks /\ Fresh(live, b)
  BY <1>1, <1>2, AllocChunkSound
<1> HIDE DEF b
<1> QED BY <1>1, <1>3 DEF SlabInv, Lent

LEMMA AllocChunkPageStep ==
    ASSUME SlabInv, NEW k \in Classes, AllocChunkPage(k)
    PROVE  SlabInv' /\ \E b : Lent(b)
<1> DEFINE p == FirstFit(mem, 1)
           b == Piece(p, k, FirstChunk(k))
<1>1. /\ mem.next[Slot(k)] = Slot(k) /\ Fitting(mem, 1) # {}
      /\ mem' = Open(TakePages(mem, p, 1), p, k)
      /\ map' = OpenBits(map, p, k) /\ live' = live \cup {b}
  BY DEF AllocChunkPage, Open, OpenBits
<1>2. Sound(mem, map, live)
  BY DEF SlabInv
<1>3. Sound(mem', map', live \cup {b}) /\ b \in Blocks /\ Fresh(live, b)
  <2>1. p = FirstFit(mem, 1) /\ b = Piece(p, k, FirstChunk(k))
    OBVIOUS
  <2> HIDE DEF p, b
  <2> QED BY <1>1, <1>2, <2>1, AllocChunkPageSound
<1> HIDE DEF b
<1> QED BY <1>1, <1>3 DEF SlabInv, Lent

LEMMA FreeBlockStep ==
    ASSUME SlabInv, NEW b \in live, FreeBlock(b)
    PROVE  SlabInv' /\ Back(b)
<1>1. Sound(mem, map, live) /\ live \subseteq Blocks /\ b \in Blocks
  BY SoundFacts DEF SlabInv
<1>2. live' = live \ {b}
  BY DEF FreeBlock
<1>3. CASE b.len = 0
  <2>1. FreeChunk(b.page, b.chunk)
    BY <1>3 DEF FreeBlock
  <2>2. mem.type[b.page] = b.class
    BY <1>1, <1>3, SoundFacts DEF ChunkMarked
  <2>3. /\ mem' = Reclaim(mem, map, b.page, b.class, b.chunk)
        /\ map' = ClearBit(map, b.page, b.chunk)
    BY <2>1, <2>2 DEF FreeChunk, Reclaim, ClearBit
  <2>4. Sound(mem', map', live \ {b})
    BY <1>1, <1>3, <2>3, FreeChunkSound
  <2> QED BY <1>2, <2>4 DEF SlabInv, Back
<1>4. CASE b.len # 0
  <2>1. mem' = FreePages(mem, b.page, RunLength(mem, b.page)) /\ map' = map
    BY <1>4 DEF FreeBlock, FreeRun, RunLength
  <2>2. Sound(mem', map', live \ {b})
    BY <1>1, <1>4, <2>1, FreeRunSound
  <2> QED BY <1>2, <2>2 DEF SlabInv, Back
<1> QED BY <1>3, <1>4

LEMMA FreeAgainStep ==
    ASSUME SlabInv, NEW p \in Pages, FreeAgain(p)
    PROVE  SlabInv' /\ live' = live
<1>1. /\ mem' = FreePages(mem, p, RunLength(mem, p)) /\ map' = map /\ live' = live
      /\ mem.slab[p] # PageFree /\ \A b \in live : p \notin Covers(b)
  BY DEF FreeAgain, FreeRun, RunLength
<1>2. p \in Unused(live)
  BY <1>1 DEF Unused, Used
<1>3. Sound(mem, map, live)
  BY DEF SlabInv
<1>4. Sound(mem', map', live)
  BY <1>1, <1>2, <1>3, FreeAgainSound
<1> QED BY <1>1, <1>4 DEF SlabInv

LEMMA StepSound ==
    ASSUME SlabInv, [Next]_vars
    PROVE  SlabInv' /\ (live' = live \/ \E b : Lent(b) \/ Back(b))
<1>1. CASE UNCHANGED vars
  BY <1>1 DEF vars, SlabInv
<1>2. CASE \E n \in 1 .. MaxRun : AllocRun(n)
  BY <1>2, AllocRunStep
<1>3. CASE \E k \in Classes : AllocChunk(k) \/ AllocChunkPage(k)
  BY <1>3, AllocChunkStep, AllocChunkPageStep
<1>4. CASE \E b \in live : FreeBlock(b)
  BY <1>4, FreeBlockStep
<1>5. CASE \E p \in Pages : FreeAgain(p)
  BY <1>5, FreeAgainStep
<1> QED BY <1>1, <1>2, <1>3, <1>4, <1>5 DEF Next

-----------------------------------------------------------------------------
(* What the invariant says of the lists that the code walks.               *)

\* The list of free runs is the list of the gaps between the blocks: a run that
\* starts in a gap starts where the gap does and is as long.
LEMMA GapsListed ==
    ASSUME NEW m \in Memory, NEW F, NEW s, FreeSound(m, F, s),
           NEW a \in Pages, NEW n \in 1 .. NPages, a .. a + n - 1 \subseteq F,
           a - 1 \notin F, a + n \notin F
    PROVE  a \in ToSet(s) /\ m.slab[a] = n
<1>1. NPages \in Nat /\ a \in Int /\ n \in Int /\ n > 0
  BY Constants DEF Pages
<1>2. a \in F
  <2>1. a \in a .. a + n - 1
    BY <1>1
  <2> QED BY <2>1
<1>3. PICK h \in ToSet(s) : a \in Run(m, h)
  BY <1>2 DEF FreeSound
<1>4. /\ m.slab[h] \in 1 .. NPages /\ Run(m, h) \subseteq F /\ h + m.slab[h] \notin F
  BY DEF FreeSound
<1>5. h \in Int
  <2>1. s \in Seq(Pages)
    BY DEF FreeSound, Chain
  <2> QED BY <2>1, SeqMembers DEF Pages
<1> DEFINE z == m.slab[h]
<1>6. z \in Int /\ z > 0 /\ h .. h + z - 1 \subseteq F /\ a \in h .. h + z - 1
  BY <1>1, <1>3, <1>4 DEF Run
<1>7. h + z \notin F
  BY <1>4
<1> HIDE DEF z
<1>8. a = h
  <2>1. a # h => a - 1 \in h .. h + z - 1
    BY <1>1, <1>5, <1>6
  <2> QED BY <1>6, <2>1
<1>9. n = z
  <2>1. n < z => a + n \in h .. h + z - 1
    BY <1>1, <1>5, <1>6, <1>8
  <2>2. n > z => h + z \in a .. a + n - 1
    BY <1>1, <1>5, <1>6, <1>8
  <2>3. ~(n < z)
    BY <1>6, <2>1
  <2>4. ~(n > z)
    BY <1>7, <2>2
  <2> QED BY <1>1, <1>6, <2>3, <2>4
<1> QED BY <1>8, <1>9 DEF z

LEMMA SoundFreeList ==
    SlabInv => FreeListExact
<1> SUFFICES ASSUME SlabInv PROVE FreeListExact
  OBVIOUS
<1>1. Sound(mem, map, live) /\ mem \in Memory
  BY SoundFacts DEF SlabInv
<1>2. PICK s : FreeSound(mem, Unused(live), s)
  BY <1>1, SoundFacts
<1>3. Chain(mem, FreeHead, s) /\ s \in Seq(Pages) /\ IsInjective(s) /\ ToSet(s) \subseteq Pages
  BY <1>2, SeqMembers DEF FreeSound, Chain
<1>4. List(mem, FreeHead) = s
  BY <1>3, Constants, ListOfChain
<1> DEFINE F == Unused(live)
<1>5. F = Pages \ InUse
  BY DEF Unused, Used, InUse
<1> HIDE DEF F
<1>6. Gaps = {g \in Pages \X (1 .. NPages) :
                /\ g[1] .. g[1] + g[2] - 1 \subseteq F /\ g[1] - 1 \notin F /\ g[1] + g[2] \notin F}
  BY <1>5 DEF Gaps
<1>7. ASSUME NEW p \in ToSet(s) PROVE <<p, mem.slab[p]>> \in Gaps
  <2>1. /\ p \in Pages /\ mem.slab[p] \in 1 .. NPages /\ Run(mem, p) \subseteq F
        /\ p - 1 \notin F /\ p + mem.slab[p] \notin F
    BY <1>2, <1>3 DEF FreeSound, F
  <2> QED BY <1>6, <2>1 DEF Run
<1>8. ASSUME NEW g \in Gaps PROVE \E p \in ToSet(s) : g = <<p, mem.slab[p]>>
  <2>1. /\ g \in Pages \X (1 .. NPages)
        /\ g[1] .. g[1] + g[2] - 1 \subseteq F /\ g[1] - 1 \notin F /\ g[1] + g[2] \notin F
    BY <1>6
  <2>2. g[1] \in Pages /\ g[2] \in 1 .. NPages /\ g = <<g[1], g[2]>>
    BY <2>1
  <2>3. g[1] \in ToSet(s) /\ mem.slab[g[1]] = g[2]
    BY <1>1, <1>2, <2>1, <2>2, GapsListed DEF F
  <2> QED BY <2>2, <2>3
<1>9. {<<p, mem.slab[p]>> : p \in ToSet(s)} = Gaps
  BY <1>7, <1>8
<1> QED BY <1>3, <1>4, <1>9 DEF FreeListExact

LEMMA SoundLinks ==
    SlabInv => LinksAgree
<1> SUFFICES ASSUME SlabInv, NEW head \in {FreeHead} \cup {Slot(k) : k \in Classes},
                    NEW i \in 1 .. Len(List(mem, head))
             PROVE  mem.prev[List(mem, head)[i]] = IF i = 1 THEN head ELSE List(mem, head)[i - 1]
  BY DEF LinksAgree
<1>1. Sound(mem, map, live)
  BY DEF SlabInv
<1>2. head \in Heads
  BY Constants
<1>3. \E s : Chain(mem, head, s)
  <2>1. CASE head = FreeHead
    BY <1>1, <2>1, SoundFacts DEF FreeSound
  <2>2. ASSUME NEW k \in Classes, head = Slot(k) PROVE \E s : Chain(mem, head, s)
    BY <1>1, <2>2, SoundFacts DEF SlotListed
  <2> QED BY <2>1, <2>2
<1>4. PICK s : Chain(mem, head, s)
  BY <1>3
<1>5. List(mem, head) = s
  BY <1>2, <1>4, ListOfChain
<1> QED BY <1>4, <1>5 DEF Chain

LEMMA SoundSlots ==
    SlabInv => SlotListsExact
<1> SUFFICES ASSUME SlabInv, NEW k \in Classes
             PROVE  /\ ToSet(List(mem, Slot(k))) = Partial(live, k)
                    /\ \A p \in Pages : Own(live, p, k) # {} =>
                          map[p] = 0 .. Reserved[k] - 1 \cup Own(live, p, k)
  BY DEF SlotListsExact, Partial, Own
<1>1. Sound(mem, map, live)
  BY DEF SlabInv
<1>2. PICK s : Chain(mem, Slot(k), s) /\ ToSet(s) = Partial(live, k)
  BY <1>1, SoundFacts DEF SlotListed
<1>3. List(mem, Slot(k)) = s
  BY <1>2, Constants, ListOfChain
<1>4. ASSUME NEW p \in Pages, Own(live, p, k) # {}
      PROVE  map[p] = 0 .. Reserved[k] - 1 \cup Own(live, p, k)
  BY <1>1, <1>4, PartialPage
<1> QED BY <1>2, <1>3, <1>4

-----------------------------------------------------------------------------
(* Theorems.                                                               *)

\* The inductive invariant holds in every state: the descriptors, the bitmaps and
\* the lists always describe the blocks that callers own.
THEOREM SlabInvariant == Spec => []SlabInv
<1>1. Init => SlabInv
  BY InitSound
<1>2. SlabInv /\ [Next]_vars => SlabInv'
  BY StepSound
<1> QED BY <1>1, <1>2, PTL DEF Spec

\* After any sequence of requests and frees, of pages and of chunks, the free list
\* has every gap between the blocks as one run, and every list can be walked in
\* both directions (pgrest_slab_alloc_pages, pgrest_slab_free_pages).
THEOREM SlabListsExact == Spec => []ListsExact
<1>1. SlabInv => ListsExact
  <2>1. SlabInv => TypeOK
    BY SoundFacts DEF SlabInv, TypeOK
  <2> QED BY <2>1, SoundFreeList, SoundLinks DEF ListsExact
<1> QED BY <1>1, SlabInvariant, PTL

\* The list of a chunk size has exactly the pages with a chunk to give, and a
\* bitmap exactly the chunks that are owned (pgrest_slab_do_alloc,
\* pgrest_slab_do_free).
THEOREM SlabSlotListsExact == Spec => []SlotListsExact
<1> QED BY SoundSlots, SlabInvariant, PTL

\* No request is ever given memory that overlaps a block a caller still owns: the
\* allocator implements the abstract one.
THEOREM SlabImplementsAllocator == Spec => ImplementsAllocator
<1>1. Init => Abstract!Init
  BY DEF Init, Abstract!Init
<1>2. SlabInv /\ [Next]_vars => [Abstract!Next]_live
  <2> SUFFICES ASSUME SlabInv, [Next]_vars PROVE [Abstract!Next]_live
    OBVIOUS
  <2>1. live' = live \/ \E b : Lent(b) \/ Back(b)
    BY StepSound
  <2>2. ASSUME NEW b, Lent(b) PROVE Abstract!Next
    BY <2>2 DEF Lent, Fresh, Abstract!Next, Abstract!Alloc
  <2>3. ASSUME NEW b, Back(b) PROVE Abstract!Next
    <3>1. b \in Blocks
      BY <2>3, SoundFacts DEF Back, SlabInv
    <3> QED BY <2>3, <3>1 DEF Back, Abstract!Next, Abstract!Free
  <2> QED BY <2>1, <2>2, <2>3
<1> QED BY <1>1, <1>2, SlabInvariant, PTL DEF Spec, ImplementsAllocator, Abstract!Spec
=============================================================================
