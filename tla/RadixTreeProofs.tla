-------------------------- MODULE RadixTreeProofs --------------------------
(***************************************************************************)
(* Proofs about the radix tree, for every set of routes: the loop over the *)
(* wildcards of a path is bounded by num_params alone, and that number is  *)
(* what is left of the path in every tree the routes before have built;    *)
(* the walker reaches the handler of every route but the root's; and the   *)
(* priority of a node counts the routes at and below it, with the children *)
(* and index characters in the order this gives.                           *)
(***************************************************************************)
EXTENDS RadixTree, ListFacts

\* A node that holds a wildcard: a parameter, or the second node of a catch-all.
Holds(nd) == nd.type = "param" \/ (nd.type = "catchall" /\ ~nd.wild)

NodeSet(m) ==
    [path : Seq(STRING), wild : BOOLEAN,
     type : {"static", "root", "param", "catchall"}, indices : Seq(STRING),
     children : Seq(2 .. m), handler : Routes \cup {None}, priority : Int,
     cap : Int, ixMem : {"none", "palloc", "malloc"},
     chMem : {"none", "palloc", "malloc"}]

Heaps == {"none", "palloc", "malloc"}

TypeInv ==
    /\ pc \in {"idle", "add", "insert", "failed", "aborted", "walked"}
    /\ tree \in Seq(NodeSet(Len(tree))) /\ tree # <<>>
    /\ node \in DOMAIN tree
    /\ path \in Seq(STRING) /\ route \in Seq(STRING)
    /\ left \in Int
    /\ added \in Seq(Routes) /\ inited \subseteq Routes

\* The node pgrest_rtree_child_insert is at has not got its path yet.
Hole == IF pc = "insert" THEN node ELSE 0

\* What a node says of itself. The second node of a wildcard counts it.
NodeInv(nd, hole) ==
    /\ Len(nd.indices) <= Len(nd.children)
    /\ nd.type = "param" => ~nd.wild
    /\ nd.type = "catchall" /\ nd.wild => nd.path = <<>>
    /\ nd.wild => Len(nd.children) = 1
    /\ WildCount(nd.path) = IF Holds(nd) /\ ~hole THEN 1 ELSE 0

\* Exactly the child of a wild node holds a wildcard.
LinkInv(t) ==
    \A n \in DOMAIN t : \A c \in Range(t[n].children) : Holds(t[c]) <=> t[n].wild

\* The root's own handler, if any, is as long as the root's path, and every other
\* one is longer.
HandlerInv(t) ==
    /\ t[1].handler # None => Len(t[1].handler) = Len(t[1].path)
    /\ \A n \in 2 .. Len(t) :
          t[n].handler # None => Len(t[n].handler) > Len(t[1].path)

\* A set of nodes with the children of its members.
Closed(t, S) == \A n \in S : Range(t[n].children) \subseteq S

\* Every node is below the root.
ReachInv(t) == \A S \in SUBSET DOMAIN t : 1 \in S /\ Closed(t, S) => S = DOMAIN t

HandlersOf(t) == {t[n].handler : n \in DOMAIN t} \ {None}

TreeInv(t, hole) ==
    /\ t[1].type \in {"static", "root"}
    /\ \A n \in DOMAIN t : NodeInv(t[n], n = hole)
    /\ LinkInv(t)
    /\ HandlerInv(t)
    /\ ReachInv(t)

\* pgrest_rtree_add at a node: num_params is what the path has and the node does
\* not hold, and a wildcard that the node holds is the one the path begins with.
AddInv ==
    /\ path # <<>> /\ route \in Routes
    /\ left = WildCount(path) - (IF Holds(AtNode) THEN 1 ELSE 0)
    /\ Holds(AtNode) => SameWild(AtNode.path, path)
    /\ IF node = 1 THEN Len(route) = Len(path)
       ELSE Len(route) >= Len(tree[1].path) + Len(path)

\* pgrest_rtree_child_insert at a node: it is new and has nothing yet, or a
\* wildcard goes below it.
InsertInv ==
    /\ path # <<>> /\ route \in Routes
    /\ AtNode.type \in {"static", "root", "param"}
    /\ IF AtNode.type = "param"
       THEN left = 0 /\ WildCount(path) = 1
       ELSE left = WildCount(path)
    /\ \/ AtNode.path = <<>> /\ AtNode.children = <<>> /\ AtNode.handler = None
       \/ path[1] \in Wildcards /\ left > 0
    /\ IF node = 1 THEN Len(route) = Len(tree[1].path) + Len(path)
       ELSE Len(route) >= Len(tree[1].path) + Len(path)

RadixInv ==
    /\ TypeInv
    /\ TreeInv(tree, Hole)
    /\ Range(added) = HandlersOf(tree)
    /\ pc = "add" => AddInv
    /\ pc = "insert" => InsertInv
    /\ WalkerVisitsAll

-----------------------------------------------------------------------------
(* Paths.                                                                  *)

\* What is left of a path, and what was before.
LEMMA DropPath ==
    ASSUME NEW s \in Seq(STRING), NEW k \in 0 .. Len(s)
    PROVE  /\ Drop(s, k) \in Seq(STRING) /\ Len(Drop(s, k)) = Len(s) - k
           /\ \A i \in 1 .. Len(s) - k : Drop(s, k)[i] = s[k + i]
  BY DEF Drop

LEMMA TakePath ==
    ASSUME NEW s \in Seq(STRING), NEW k \in 0 .. Len(s)
    PROVE  /\ SubSeq(s, 1, k) \in Seq(STRING) /\ Len(SubSeq(s, 1, k)) = k
           /\ \A i \in 1 .. k : SubSeq(s, 1, k)[i] = s[i]
  OBVIOUS

WildAt(p) == {k \in DOMAIN p : p[k] \in Wildcards}

LEMMA CountType ==
    ASSUME NEW p \in Seq(STRING)
    PROVE  /\ IsFiniteSet(WildAt(p)) /\ WildAt(p) \subseteq 1 .. Len(p)
           /\ WildCount(p) = Cardinality(WildAt(p))
           /\ WildCount(p) \in Nat
<1>1. WildAt(p) \subseteq 1 .. Len(p) /\ IsFiniteSet(1 .. Len(p))
  BY FS_Interval DEF WildAt
<1>2. IsFiniteSet(WildAt(p))
  BY <1>1, FS_Subset
<1>3. WildCount(p) = Cardinality(WildAt(p))
  BY DEF WildCount, WildAt
<1> QED BY <1>1, <1>2, <1>3, FS_CardinalityType

\* No wildcard, one, some.
LEMMA CountSome ==
    ASSUME NEW p \in Seq(STRING)
    PROVE  /\ WildCount(p) = 0 <=> \A k \in 1 .. Len(p) : p[k] \notin Wildcards
           /\ \A k \in 1 .. Len(p) :
                 p[k] \in Wildcards /\ (\A j \in 1 .. Len(p) : p[j] \in Wildcards => j = k)
                 => WildCount(p) = 1
<1>1. WildAt(p) = {} <=> \A k \in 1 .. Len(p) : p[k] \notin Wildcards
  BY DEF WildAt
<1>2. WildCount(p) = 0 <=> WildAt(p) = {}
  BY CountType, FS_EmptySet
<1>3. ASSUME NEW k \in 1 .. Len(p), p[k] \in Wildcards,
             \A j \in 1 .. Len(p) : p[j] \in Wildcards => j = k
      PROVE  WildCount(p) = 1
  <2>1. WildAt(p) = {k}
    BY <1>3 DEF WildAt
  <2> QED BY <2>1, CountType, FS_Singleton
<1> QED BY <1>1, <1>2, <1>3

\* Cutting a path divides its wildcards.
LEMMA CountCut ==
    ASSUME NEW p \in Seq(STRING), NEW k \in 0 .. Len(p)
    PROVE  WildCount(p)
             = WildCount(SubSeq(p, 1, k)) + WildCount(Drop(p, k))
<1> DEFINE a == SubSeq(p, 1, k)
           b == Drop(p, k)
           f == [i \in WildAt(b) |-> k + i]
           up == {k + i : i \in WildAt(b)}
<1>1. /\ a \in Seq(STRING) /\ Len(a) = k /\ \A i \in 1 .. k : a[i] = p[i]
      /\ b \in Seq(STRING) /\ Len(b) = Len(p) - k
      /\ \A i \in 1 .. Len(p) - k : b[i] = p[k + i]
  BY DropPath, TakePath
<1>2. k \in Nat /\ k <= Len(p) /\ Len(p) \in Nat
  OBVIOUS
<1> HIDE DEF a, b
<1>3. /\ IsFiniteSet(WildAt(b)) /\ IsFiniteSet(WildAt(a))
      /\ WildAt(b) \subseteq 1 .. Len(p) - k /\ WildAt(a) \subseteq 1 .. k
      /\ WildCount(a) = Cardinality(WildAt(a)) /\ WildCount(a) \in Nat
      /\ WildCount(b) = Cardinality(WildAt(b)) /\ WildCount(b) \in Nat
  BY <1>1, CountType
<1>4. f \in Surjection(WildAt(b), up) /\ f \in Injection(WildAt(b), up)
  BY <1>2, <1>3 DEF Surjection, Injection, IsInjective
<1>5. IsFiniteSet(up) /\ Cardinality(up) = Cardinality(WildAt(b))
  BY <1>3, <1>4, FS_Surjection
<1>6. WildAt(p) = WildAt(a) \cup up
  <2>1. ASSUME NEW i \in WildAt(p) PROVE i \in WildAt(a) \cup up
    <3>1. i \in 1 .. Len(p) /\ p[i] \in Wildcards
      BY <2>1 DEF WildAt
    <3>2. CASE i <= k
      <4>1. i \in 1 .. k /\ i \in DOMAIN a /\ a[i] = p[i]
        BY <1>1, <1>2, <3>1, <3>2
      <4> QED BY <3>1, <4>1 DEF WildAt
    <3>3. CASE i > k
      <4>1. i - k \in 1 .. Len(p) - k /\ k + (i - k) = i
        BY <1>2, <3>1, <3>3
      <4>2. b[i - k] = p[i] /\ i - k \in DOMAIN b
        BY <1>1, <4>1
      <4>3. i - k \in WildAt(b)
        BY <3>1, <4>2 DEF WildAt
      <4> QED BY <4>1, <4>3
    <3> QED BY <1>2, <3>1, <3>2, <3>3
  <2>2. ASSUME NEW i \in WildAt(a) PROVE i \in WildAt(p)
    <3>1. i \in 1 .. k /\ a[i] \in Wildcards
      BY <1>3, <2>2 DEF WildAt
    <3>2. i \in DOMAIN p /\ p[i] = a[i]
      BY <1>1, <1>2, <3>1
    <3> QED BY <3>1, <3>2 DEF WildAt
  <2>3. ASSUME NEW i \in WildAt(b) PROVE k + i \in WildAt(p)
    <3>1. i \in 1 .. Len(p) - k /\ b[i] \in Wildcards
      BY <1>3, <2>3 DEF WildAt
    <3>2. k + i \in DOMAIN p /\ p[k + i] = b[i]
      BY <1>1, <1>2, <3>1
    <3> QED BY <3>1, <3>2 DEF WildAt
  <2> QED BY <2>1, <2>2, <2>3
<1>7. WildAt(a) \cap up = {}
  BY <1>2, <1>3
<1>8. Cardinality(WildAt(p)) = Cardinality(WildAt(a)) + Cardinality(up)
  <2>1. Cardinality(WildAt(a) \cup up)
          = Cardinality(WildAt(a)) + Cardinality(up) - Cardinality(WildAt(a) \cap up)
    BY <1>3, <1>5, FS_Union
  <2>2. Cardinality(WildAt(a) \cap up) = 0
    BY <1>7, FS_EmptySet
  <2> QED BY <1>3, <1>5, <1>6, <2>1, <2>2
<1> QED BY <1>3, <1>5, <1>8, CountType DEF a, b

\* The first place where two paths part.
LEMMA CommonFacts ==
    ASSUME NEW s \in Seq(STRING), NEW t \in Seq(STRING)
    PROVE  /\ Common(s, t) \in 0 .. Len(s) /\ Common(s, t) \in 0 .. Len(t)
           /\ SubSeq(s, 1, Common(s, t)) = SubSeq(t, 1, Common(s, t))
           /\ Len(t) <= Len(s) /\ SubSeq(t, 1, Len(t)) = SubSeq(s, 1, Len(t))
              => Common(s, t) = Len(t)
<1> DEFINE m == Min({Len(s), Len(t)})
           same == {k \in 0 .. m : SubSeq(s, 1, k) = SubSeq(t, 1, k)}
<1>1. m \in {Len(s), Len(t)} /\ m <= Len(s) /\ m <= Len(t)
  <2>1. {Len(s), Len(t)} \subseteq Nat /\ {Len(s), Len(t)} # {}
    OBVIOUS
  <2>2. Min({Len(s), Len(t)}) \in {Len(s), Len(t)}
        /\ \A y \in {Len(s), Len(t)} : Min({Len(s), Len(t)}) <= y
    BY <2>1, MinFacts
  <2> QED BY <2>2
<1> HIDE DEF m
<1>2. m \in Nat /\ 0 \in same /\ \A k \in same : k <= m
  <2>1. SubSeq(s, 1, 0) = <<>> /\ SubSeq(t, 1, 0) = <<>>
    OBVIOUS
  <2> QED BY <1>1, <2>1
<1>3. same \subseteq Nat /\ same # {}
  <2>1. same \subseteq 0 .. m
    OBVIOUS
  <2> HIDE DEF same
  <2> QED BY <1>2, <2>1
<1>4. Common(s, t) = Max(same)
  BY DEF Common, m
<1>5. Max(same) \in same /\ \A k \in same : k <= Max(same)
  <2> HIDE DEF same
  <2> QED BY <1>2, <1>3, MaxFacts
<1>6. ASSUME Len(t) <= Len(s), SubSeq(t, 1, Len(t)) = SubSeq(s, 1, Len(t))
      PROVE  Common(s, t) = Len(t)
  <2>1. m = Len(t) /\ Len(t) \in same
    BY <1>1, <1>6
  <2>2. Max(same) \in Nat /\ Max(same) <= m /\ Len(t) <= Max(same)
    BY <1>1, <1>5, <2>1
  <2> HIDE DEF same
  <2> QED BY <1>4, <2>1, <2>2
<1>7. Common(s, t) \in 0 .. m /\ SubSeq(s, 1, Common(s, t)) = SubSeq(t, 1, Common(s, t))
  BY <1>4, <1>5
<1> QED BY <1>1, <1>6, <1>7

\* The first wildcard, and the end of its segment.
LEMMA WildFacts ==
    ASSUME NEW p \in Seq(STRING), WildCount(p) > 0
    PROVE  LET w == FirstWild(p)
               e == SegmentEnd(p, w)
           IN /\ w \in 1 .. Len(p) /\ p[w] \in Wildcards
              /\ \A k \in 1 .. w - 1 : p[k] \notin Wildcards
              /\ e \in w + 1 .. Len(p) + 1
              /\ e <= Len(p) => p[e] = "/"
<1> DEFINE w == FirstWild(p)
           ends == {k \in w .. Len(p) : p[k] = "/"} \cup {Len(p) + 1}
           e == SegmentEnd(p, w)
<1>1. WildAt(p) \subseteq Nat /\ WildAt(p) # {}
  <2>1. \E k \in 1 .. Len(p) : p[k] \in Wildcards
    BY CountSome
  <2> QED BY <2>1 DEF WildAt
<1>2. w \in WildAt(p) /\ \A k \in WildAt(p) : w <= k
  BY <1>1, MinFacts DEF FirstWild, WildAt
<1> HIDE DEF w
<1>3. w \in 1 .. Len(p) /\ p[w] \in Wildcards /\ \A k \in 1 .. w - 1 : p[k] \notin Wildcards
  BY <1>2 DEF WildAt
<1>4. ends \subseteq Nat /\ ends # {} /\ e = Min(ends)
  BY <1>3 DEF SegmentEnd
<1>5. e \in ends
  <2> HIDE DEF ends, e
  <2> QED BY <1>4, MinFacts
<1>6. p[w] # "/"
  BY <1>3 DEF Wildcards
<1> QED BY <1>3, <1>5, <1>6 DEF w

-----------------------------------------------------------------------------
(* Nodes.                                                                  *)

LEMMA RootFirst ==
    ASSUME TypeInv
    PROVE  /\ Len(tree) \in Nat /\ 1 \in DOMAIN tree /\ DOMAIN tree = 1 .. Len(tree)
           /\ AtNode \in NodeSet(Len(tree))
           /\ \A n \in DOMAIN tree : tree[n] \in NodeSet(Len(tree))
  BY DEF TypeInv, AtNode

\* A larger tree has room for more children.
LEMMA NodeGrows ==
    ASSUME NEW m \in Nat, NEW k \in Nat, m <= k, NEW nd \in NodeSet(m)
    PROVE  nd \in NodeSet(k)
<1>1. Seq(2 .. m) \subseteq Seq(2 .. k)
  <2>1. 2 .. m \subseteq 2 .. k
    OBVIOUS
  <2> QED BY <2>1, LargerSeq
<1> QED BY <1>1 DEF NodeSet

LEMMA BlankNode ==
    ASSUME NEW m \in Nat
    PROVE  /\ Blank \in NodeSet(m)
           /\ ~Holds(Blank) /\ WildCount(Blank.path) = 0
<1>1. Blank \in NodeSet(m)
  BY DEF Blank, NodeSet, None
<1>2. <<>> \in Seq(STRING) /\ \A k \in 1 .. Len(<<>>) : <<>>[k] \notin Wildcards
  OBVIOUS
<1>3. WildCount(<<>>) = 0
  BY <1>2, CountSome
<1> QED BY <1>1, <1>3 DEF Blank, Holds

LEMMA OnlyChildFacts ==
    ASSUME NEW m \in Nat, NEW nd \in NodeSet(m), NEW c \in 2 .. m
    PROVE  LET x == OnlyChild(nd, c)
           IN /\ x \in NodeSet(m) /\ x.children = <<c>> /\ x.path = nd.path
              /\ x.wild = nd.wild /\ x.type = nd.type /\ x.indices = nd.indices
              /\ x.handler = nd.handler
<1> DEFINE x == OnlyChild(nd, c)
           kids == <<c>>
           room == 2
<1>1. kids \in Seq(2 .. m) /\ room \in Int
  OBVIOUS
<1>2. x = [nd EXCEPT !.children = kids, !.cap = room, !.chMem = "palloc"]
  BY DEF OnlyChild
<1> HIDE DEF x, kids, room
<1>3. /\ x \in NodeSet(m) /\ x.children = kids /\ x.path = nd.path
      /\ x.wild = nd.wild /\ x.type = nd.type /\ x.indices = nd.indices
      /\ x.handler = nd.handler
  <2>1. /\ x.children = kids /\ x.path = nd.path
        /\ x.wild = nd.wild /\ x.type = nd.type /\ x.indices = nd.indices
        /\ x.handler = nd.handler
    BY <1>2 DEF NodeSet
  <2>2. x \in NodeSet(m)
    BY <1>1, <1>2 DEF NodeSet
  <2> QED BY <2>1, <2>2
<1> QED BY <1>3 DEF x, kids

\* Where the element comes from that is now at j, when the one at pos goes to to.
From(j, pos, to) ==
    IF j < to THEN j ELSE IF j = to THEN pos ELSE IF j <= pos THEN j - 1 ELSE j

\* A child moves to its new place.
Moved(s, pos, to) == InsertAt(RemoveAt(s, pos), to, s[pos])

LEMMA MoveFacts ==
    ASSUME NEW S, NEW s \in Seq(S), NEW pos \in 1 .. Len(s), NEW to \in 1 .. pos
    PROVE  /\ Moved(s, pos, to) \in Seq(S) /\ Len(Moved(s, pos, to)) = Len(s)
           /\ Range(Moved(s, pos, to)) = Range(s)
           /\ \A j \in 1 .. Len(s) : Moved(s, pos, to)[j] = s[From(j, pos, to)]
<1> DEFINE r == RemoveAt(s, pos)
           t == InsertAt(r, to, s[pos])
<1>1. /\ r \in Seq(S) /\ Len(r) = Len(s) - 1
      /\ \A j \in 1 .. Len(s) - 1 : r[j] = IF j < pos THEN s[j] ELSE s[j + 1]
  BY RemoveIndex
<1>2. Len(s) \in Nat /\ pos \in Nat /\ to \in Nat /\ s[pos] \in S
      /\ 1 <= to /\ to <= pos /\ pos <= Len(s)
  OBVIOUS
<1> HIDE DEF r
<1>3. /\ t \in Seq(S) /\ Len(t) = Len(r) + 1
      /\ \A j \in 1 .. Len(r) + 1 :
            t[j] = IF j < to THEN r[j] ELSE IF j = to THEN s[pos] ELSE r[j - 1]
  <2>1. to \in 1 .. Len(r) + 1
    BY <1>1, <1>2
  <2>2. ASSUME NEW y \in S
        PROVE  /\ InsertAt(r, to, y) \in Seq(S) /\ Len(InsertAt(r, to, y)) = Len(r) + 1
               /\ \A j \in 1 .. Len(r) + 1 :
                     InsertAt(r, to, y)[j]
                       = IF j < to THEN r[j] ELSE IF j = to THEN y ELSE r[j - 1]
    <3>1. r \in Seq(S)
      BY <1>1
    <3> QED BY <2>1, <3>1, InsertIndex, SMTT(30)
  <2>3. s[pos] \in S
    BY <1>2
  <2> QED BY <2>2, <2>3
<1> HIDE DEF t
<1>4. Len(t) = Len(s) /\ DOMAIN t = 1 .. Len(s) /\ DOMAIN s = 1 .. Len(s)
  BY <1>1, <1>2, <1>3
<1>5. \A j \in 1 .. Len(s) : \E i \in 1 .. Len(s) : t[j] = s[i]
  <2> TAKE j \in 1 .. Len(s)
  <2>1. CASE j < to
    <3>1. j \in 1 .. Len(s) - 1 /\ j < pos /\ t[j] = r[j]
      BY <1>1, <1>2, <1>3, <2>1
    <3> QED BY <1>1, <3>1
  <2>2. CASE j = to
    BY <1>1, <1>2, <1>3, <2>2
  <2>3. CASE j > to
    <3>1. j - 1 \in 1 .. Len(s) - 1 /\ t[j] = r[j - 1]
      BY <1>1, <1>2, <1>3, <2>3
    <3>2. t[j] = IF j - 1 < pos THEN s[j - 1] ELSE s[j]
      BY <1>1, <3>1
    <3>3. j - 1 \in 1 .. Len(s)
      BY <3>1
    <3> QED BY <3>2, <3>3
  <2> QED BY <1>2, <2>1, <2>2, <2>3
<1>6. \A i \in 1 .. Len(s) : \E j \in 1 .. Len(s) : t[j] = s[i]
  <2> TAKE i \in 1 .. Len(s)
  <2>1. CASE i = pos
    <3>1. to \in 1 .. Len(s) /\ t[to] = s[pos]
      BY <1>1, <1>2, <1>3
    <3> QED BY <2>1, <3>1
  <2>2. CASE i < pos /\ i < to
    <3>1. i \in 1 .. Len(s) - 1 /\ t[i] = r[i] /\ r[i] = s[i]
      BY <1>1, <1>2, <1>3, <2>2
    <3> QED BY <3>1
  <2>3. CASE i < pos /\ i >= to
    <3>1. i \in 1 .. Len(s) - 1 /\ i + 1 \in 1 .. Len(s) /\ (i + 1) - 1 = i
      BY <1>2, <2>3
    <3>2. t[i + 1] = r[i] /\ r[i] = s[i]
      BY <1>1, <1>2, <1>3, <2>3, <3>1
    <3> QED BY <3>1, <3>2
  <2>4. CASE i > pos
    <3>1. i - 1 \in 1 .. Len(s) - 1 /\ ~(i - 1 < pos) /\ (i - 1) + 1 = i
      BY <1>2, <2>4
    <3>2. t[i] = r[i - 1] /\ r[i - 1] = s[i]
      BY <1>1, <1>2, <1>3, <2>4, <3>1
    <3> QED BY <3>2
  <2> QED BY <1>2, <2>1, <2>2, <2>3, <2>4
<1>7. Range(t) = Range(s)
  <2>1. ASSUME NEW x PROVE x \in Range(t) <=> x \in Range(s)
    <3>1. x \in Range(t) <=> \E j \in 1 .. Len(s) : t[j] = x
      BY <1>4, Zenon DEF Range
    <3>2. x \in Range(s) <=> \E i \in 1 .. Len(s) : s[i] = x
      BY <1>4, Zenon DEF Range
    <3> QED BY <1>5, <1>6, <3>1, <3>2, Zenon
  <2> QED BY <2>1
<1>8. ASSUME NEW j \in 1 .. Len(s) PROVE t[j] = s[From(j, pos, to)]
  <2>1. j \in 1 .. Len(r) + 1
    BY <1>1, <1>2
  <2>2. CASE j < to
    <3>1. j \in 1 .. Len(s) - 1 /\ j < pos /\ t[j] = r[j]
      BY <1>1, <1>2, <1>3, <2>1, <2>2
    <3>2. t[j] = s[j]
      BY <1>1, <3>1
    <3> QED BY <2>2, <3>2 DEF From
  <2>3. CASE j = to
    BY <1>1, <1>2, <1>3, <2>1, <2>3 DEF From
  <2>4. CASE j > to
    <3>1. j - 1 \in 1 .. Len(s) - 1 /\ t[j] = r[j - 1] /\ (j - 1) + 1 = j
      BY <1>1, <1>2, <1>3, <2>1, <2>4
    <3>2. t[j] = IF j - 1 < pos THEN s[j - 1] ELSE s[j]
      BY <1>1, <3>1
    <3>3. j - 1 < pos <=> j <= pos
      BY <1>2
    <3> QED BY <1>2, <2>4, <3>2, <3>3 DEF From
  <2> QED BY <1>2, <2>2, <2>3, <2>4
<1> QED BY <1>3, <1>4, <1>7, <1>8 DEF Moved, t, r

\* Two nodes that differ only in priorities, memory and the order of children.
Alike(a, b) ==
    /\ b.path = a.path /\ b.wild = a.wild /\ b.handler = a.handler
    /\ b.type = "param" <=> a.type = "param"
    /\ b.type = "catchall" <=> a.type = "catchall"
    /\ Len(b.indices) = Len(a.indices) /\ Len(b.children) = Len(a.children)
    /\ Range(b.children) = Range(a.children)

IsTree(t) == t \in Seq(NodeSet(Len(t))) /\ t # <<>>

Similar(t, u) ==
    /\ IsTree(u) /\ Len(u) = Len(t)
    /\ \A n \in DOMAIN t : Alike(t[n], u[n])

LEMMA TreeDomain ==
    ASSUME NEW t, IsTree(t)
    PROVE  /\ Len(t) \in Nat /\ DOMAIN t = 1 .. Len(t) /\ 1 \in DOMAIN t
           /\ \A n \in DOMAIN t : t[n] \in NodeSet(Len(t))
  BY DEF IsTree

LEMMA SimilarInv ==
    ASSUME NEW t, NEW u, NEW hole, IsTree(t), Similar(t, u), TreeInv(t, hole)
    PROVE  /\ TreeInv(u, hole) /\ HandlersOf(u) = HandlersOf(t)
           /\ DOMAIN u = DOMAIN t
           /\ \A n \in DOMAIN t : Holds(u[n]) <=> Holds(t[n])
<1>1. /\ Len(t) \in Nat /\ DOMAIN t = 1 .. Len(t) /\ 1 \in DOMAIN t
      /\ DOMAIN u = 1 .. Len(t) /\ Len(u) = Len(t)
      /\ \A n \in DOMAIN t : t[n] \in NodeSet(Len(t)) /\ u[n] \in NodeSet(Len(t))
  BY TreeDomain DEF Similar
<1>2. \A n \in DOMAIN t : Alike(t[n], u[n])
  BY DEF Similar
<1>3. \A n \in DOMAIN t : Holds(u[n]) <=> Holds(t[n])
  BY <1>2 DEF Alike, Holds
<1>4. u[1].type \in {"static", "root"}
  <2>1. t[1].type \in {"static", "root"}
    BY DEF TreeInv
  <2>2. u[1].type # "param" /\ u[1].type # "catchall"
    BY <1>1, <1>2, <2>1 DEF Alike
  <2>3. u[1].type \in {"static", "root", "param", "catchall"}
    BY <1>1 DEF NodeSet
  <2> QED BY <2>2, <2>3
<1>5. ASSUME NEW n \in DOMAIN u PROVE NodeInv(u[n], n = hole)
  <2>1. NodeInv(t[n], n = hole) /\ Alike(t[n], u[n]) /\ (Holds(u[n]) <=> Holds(t[n]))
    BY <1>1, <1>2, <1>3, <1>5 DEF TreeInv
  <2> QED BY <2>1 DEF NodeInv, Alike
<1>6. LinkInv(u)
  <2> SUFFICES ASSUME NEW n \in DOMAIN u, NEW c \in Range(u[n].children)
               PROVE  Holds(u[c]) <=> u[n].wild
    BY DEF LinkInv
  <2>1. n \in DOMAIN t /\ c \in Range(t[n].children) /\ u[n].wild = t[n].wild
    BY <1>1, <1>2 DEF Alike
  <2>2. Holds(t[c]) <=> t[n].wild
    BY <2>1 DEF TreeInv, LinkInv
  <2>3. c \in DOMAIN t
    <3>1. t[n].children \in Seq(2 .. Len(t))
      BY <1>1, <2>1 DEF NodeSet
    <3>2. c \in 2 .. Len(t)
      BY <2>1, <3>1 DEF Range
    <3> QED BY <1>1, <3>2
  <2> QED BY <1>3, <2>1, <2>2, <2>3
<1>7. HandlerInv(u)
  <2>1. HandlerInv(t)
    BY DEF TreeInv
  <2>2. \A n \in 1 .. Len(t) : u[n].handler = t[n].handler /\ u[n].path = t[n].path
    BY <1>1, <1>2 DEF Alike
  <2>3. \A n \in 2 .. Len(t) : n \in 1 .. Len(t)
    BY <1>1
  <2> QED BY <1>1, <2>1, <2>2, <2>3 DEF HandlerInv
<1>8. ReachInv(u)
  <2> SUFFICES ASSUME NEW S \in SUBSET DOMAIN u, 1 \in S, Closed(u, S) PROVE S = DOMAIN u
    BY DEF ReachInv
  <2>1. \A n \in S : n \in DOMAIN t /\ Range(u[n].children) = Range(t[n].children)
    BY <1>1, <1>2 DEF Alike
  <2>2. Closed(t, S)
    BY <2>1 DEF Closed
  <2> QED BY <1>1, <2>2 DEF TreeInv, ReachInv
<1>9. HandlersOf(u) = HandlersOf(t)
  <2>1. \A n \in DOMAIN t : u[n].handler = t[n].handler
    BY <1>2 DEF Alike
  <2> QED BY <1>1, <2>1 DEF HandlersOf
<1> QED BY <1>1, <1>3, <1>4, <1>5, <1>6, <1>7, <1>8, <1>9 DEF TreeInv

LEMMA SimilarTwice ==
    ASSUME NEW t, NEW u, NEW v, IsTree(t), Similar(t, u), Similar(u, v)
    PROVE  Similar(t, v)
<1>1. DOMAIN t = DOMAIN u
  BY TreeDomain DEF Similar
<1> QED BY <1>1 DEF Similar, Alike

\* A node is replaced by one that is alike.
LEMMA ReplaceFacts ==
    ASSUME NEW t, IsTree(t), NEW c \in DOMAIN t, NEW x \in NodeSet(Len(t)), Alike(t[c], x)
    PROVE  Similar(t, [t EXCEPT ![c] = x])
<1> DEFINE u == [t EXCEPT ![c] = x]
<1>1. t[c] \in NodeSet(Len(t)) /\ Len(t) \in Nat /\ t \in Seq(NodeSet(Len(t)))
  BY TreeDomain DEF IsTree
<1>2. /\ u \in Seq(NodeSet(Len(t))) /\ Len(u) = Len(t) /\ DOMAIN u = DOMAIN t
      /\ \A n \in DOMAIN t : u[n] = IF n = c THEN x ELSE t[n]
  BY <1>1
<1>3. u # <<>>
  BY <1>2 DEF IsTree
<1>4. \A n \in DOMAIN t : Alike(t[n], t[n])
  BY DEF Alike
<1> HIDE DEF u
<1>5. Similar(t, u)
  BY <1>2, <1>3, <1>4 DEF Similar, IsTree
<1> QED BY <1>5 DEF u

\* A node's priority does not matter to the others.
LEMMA BumpFacts ==
    ASSUME NEW t, IsTree(t), NEW c \in DOMAIN t
    PROVE  /\ Similar(t, [t EXCEPT ![c].priority = @ + 1])
           /\ \A n \in DOMAIN t :
                 LET b == [t EXCEPT ![c].priority = @ + 1][n]
                 IN b.children = t[n].children /\ b.indices = t[n].indices
<1> DEFINE u == [t EXCEPT ![c].priority = @ + 1]
           x == [t[c] EXCEPT !.priority = @ + 1]
<1>1. t[c] \in NodeSet(Len(t)) /\ Len(t) \in Nat /\ t \in Seq(NodeSet(Len(t)))
  BY TreeDomain DEF IsTree
<1>2. x \in NodeSet(Len(t))
  <2>1. t[c].priority + 1 \in Int
    BY <1>1 DEF NodeSet
  <2>2. x = [t[c] EXCEPT !.priority = t[c].priority + 1]
    BY <1>1 DEF NodeSet
  <2> HIDE DEF x
  <2> QED BY <1>1, <2>1, <2>2 DEF NodeSet
<1>3. /\ x.path = t[c].path /\ x.wild = t[c].wild /\ x.handler = t[c].handler
      /\ x.type = t[c].type /\ x.indices = t[c].indices /\ x.children = t[c].children
  BY <1>1 DEF NodeSet
<1>4. u = [t EXCEPT ![c] = x]
  OBVIOUS
<1> HIDE DEF x, u
<1>5. Alike(t[c], x)
  BY <1>3 DEF Alike
<1>6. Similar(t, u)
  BY <1>2, <1>4, <1>5, ReplaceFacts
<1>7. \A n \in DOMAIN t : u[n].children = t[n].children /\ u[n].indices = t[n].indices
  BY <1>1, <1>3, <1>4
<1> QED BY <1>6, <1>7 DEF u

\* pgrest_rtree_child_priority changes the order below one node, and no more.
LEMMA RaiseFacts ==
    ASSUME NEW t, IsTree(t), NEW n \in DOMAIN t, NEW pos \in DOMAIN t[n].children,
           pos <= Len(t[n].indices)
    PROVE  Similar(t, Raise(t, n, pos))
<1> DEFINE kids == t[n].children
           ix == t[n].indices
           raised == [t EXCEPT ![t[n].children[pos]].priority = @ + 1]
           rank(k) == raised[kids[k]].priority
           before == {k \in 1 .. pos - 1 : rank(k) >= rank(pos)} \cup {0}
           to == 1 + Max(before)
           moved(s) == InsertAt(RemoveAt(s, pos), to, s[pos])
           x == [raised[n] EXCEPT !.children = moved(@), !.indices = moved(@)]
<1>1. /\ t[n] \in NodeSet(Len(t)) /\ Len(t) \in Nat
      /\ kids \in Seq(2 .. Len(t)) /\ ix \in Seq(STRING)
      /\ pos \in 1 .. Len(kids) /\ pos \in 1 .. Len(ix)
      /\ kids[pos] \in DOMAIN t
  <2>1. t[n] \in NodeSet(Len(t)) /\ Len(t) \in Nat /\ DOMAIN t = 1 .. Len(t)
    BY TreeDomain
  <2>2. kids \in Seq(2 .. Len(t)) /\ ix \in Seq(STRING)
    BY <2>1 DEF NodeSet
  <2>3. pos \in 1 .. Len(kids) /\ pos \in 1 .. Len(ix)
    BY <2>2
  <2> HIDE DEF kids, ix
  <2>4. kids[pos] \in 2 .. Len(t)
    BY <2>2, <2>3
  <2> QED BY <2>1, <2>2, <2>3, <2>4
<1>2. Similar(t, raised) /\ raised[n].children = kids /\ raised[n].indices = ix
  BY <1>1, BumpFacts
<1> HIDE DEF raised
<1>3. to \in 1 .. pos
  <2>1. before \subseteq 0 .. pos - 1 /\ 0 \in before
    BY <1>1
  <2> HIDE DEF before
  <2>2. before \subseteq Nat /\ before # {} /\ pos \in Nat /\ \A k \in before : k <= pos
    BY <1>1, <2>1
  <2>3. Max(before) \in before
    BY <2>2, MaxFacts
  <2> DEFINE most == Max(before)
  <2>4. most \in 0 .. pos - 1
    BY <2>1, <2>3
  <2> HIDE DEF most
  <2>5. 1 + most \in 1 .. pos
    BY <1>1, <2>4
  <2> QED BY <2>5 DEF most
<1> HIDE DEF to
<1>4. moved(kids) \in Seq(2 .. Len(t)) /\ Len(moved(kids)) = Len(kids)
      /\ Range(moved(kids)) = Range(kids)
  <2> HIDE DEF kids
  <2>1. kids \in Seq(2 .. Len(t)) /\ pos \in 1 .. Len(kids)
    BY <1>1
  <2>2. /\ Moved(kids, pos, to) \in Seq(2 .. Len(t)) /\ Len(Moved(kids, pos, to)) = Len(kids)
        /\ Range(Moved(kids, pos, to)) = Range(kids)
    BY <1>3, <2>1, MoveFacts
  <2>3. Moved(kids, pos, to) = moved(kids)
    BY DEF Moved
  <2> QED BY <2>2, <2>3
<1>5. moved(ix) \in Seq(STRING) /\ Len(moved(ix)) = Len(ix)
  <2> HIDE DEF ix
  <2>1. ix \in Seq(STRING) /\ pos \in 1 .. Len(ix)
    BY <1>1
  <2>2. Moved(ix, pos, to) \in Seq(STRING) /\ Len(Moved(ix, pos, to)) = Len(ix)
    BY <1>3, <2>1, MoveFacts
  <2>3. Moved(ix, pos, to) = moved(ix)
    BY DEF Moved
  <2> QED BY <2>2, <2>3
<1>6. IsTree(raised) /\ n \in DOMAIN raised /\ Len(raised) = Len(t)
      /\ raised[n] \in NodeSet(Len(t))
  BY <1>2, TreeDomain DEF Similar
<1> DEFINE mk == moved(kids)
           mi == moved(ix)
<1>7. x = [raised[n] EXCEPT !.children = mk, !.indices = mi]
  BY <1>2, <1>6 DEF NodeSet
<1> HIDE DEF mk, mi, x
<1>8. /\ x \in NodeSet(Len(t)) /\ x.children = mk /\ x.indices = mi
      /\ x.path = raised[n].path /\ x.wild = raised[n].wild
      /\ x.handler = raised[n].handler /\ x.type = raised[n].type
  BY <1>4, <1>5, <1>6, <1>7 DEF NodeSet, mk, mi
<1>9. Alike(raised[n], x)
  BY <1>2, <1>4, <1>5, <1>8 DEF Alike, mk, mi
<1>10. Similar(raised, [raised EXCEPT ![n] = x])
  BY <1>6, <1>8, <1>9, ReplaceFacts
<1>11. Similar(t, [raised EXCEPT ![n] = x])
  BY <1>2, <1>10, SimilarTwice
<1>12. Raise(t, n, pos) = raised \/ Raise(t, n, pos) = [raised EXCEPT ![n] = x]
  <2> DEFINE y == [raised EXCEPT ![n].children = moved(@), ![n].indices = moved(@)]
  <2>1. y = [raised EXCEPT ![n] = x]
    BY <1>6 DEF x
  <2>2. Raise(t, n, pos) = IF to = pos THEN raised ELSE y
    BY Zenon DEF Raise, raised, to
  <2> QED BY <2>1, <2>2
<1> QED BY <1>2, <1>11, <1>12

\* u is t with another node n and more nodes behind.
Grown(t, u, n) ==
    /\ IsTree(u) /\ Len(u) >= Len(t)
    /\ \A k \in DOMAIN t \ {n} : u[k] = t[k]

LEMMA GrowOne ==
    ASSUME NEW t, IsTree(t), NEW n \in DOMAIN t,
           NEW x \in NodeSet(Len(t) + 1), NEW y \in NodeSet(Len(t) + 1)
    PROVE  LET u == Append([t EXCEPT ![n] = x], y)
           IN /\ Grown(t, u, n) /\ Len(u) = Len(t) + 1 /\ DOMAIN u = 1 .. Len(t) + 1
              /\ u[n] = x /\ u[Len(t) + 1] = y
<1> DEFINE m == Len(t)
           s == [t EXCEPT ![n] = x]
           u == Append(s, y)
<1>1. m \in Nat /\ DOMAIN t = 1 .. m /\ t \in Seq(NodeSet(m)) /\ t # <<>> /\ m > 0
  BY TreeDomain DEF IsTree
<1>2. t \in Seq(NodeSet(m + 1))
  <2>1. NodeSet(m) \subseteq NodeSet(m + 1)
    BY <1>1, NodeGrows
  <2> HIDE DEF m
  <2> QED BY <1>1, <2>1, LargerSeq
<1>3. s \in Seq(NodeSet(m + 1)) /\ Len(s) = m /\ s[n] = x
      /\ \A k \in DOMAIN t \ {n} : s[k] = t[k]
  BY <1>2
<1> HIDE DEF s, m
<1>4. u \in Seq(NodeSet(m + 1)) /\ Len(u) = m + 1 /\ u[m + 1] = y
      /\ \A k \in 1 .. m : u[k] = s[k]
  BY <1>1, <1>3 DEF m
<1> HIDE DEF u
<1>5. DOMAIN u = 1 .. m + 1 /\ u # <<>>
  BY <1>1, <1>4
<1>6. u[n] = x /\ \A k \in DOMAIN t \ {n} : u[k] = t[k]
  BY <1>1, <1>3, <1>4
<1> QED BY <1>1, <1>4, <1>5, <1>6 DEF Grown, IsTree, u, s, m

LEMMA GrowTwo ==
    ASSUME NEW t, IsTree(t), NEW n \in DOMAIN t, NEW x \in NodeSet(Len(t) + 2),
           NEW y \in NodeSet(Len(t) + 2), NEW z \in NodeSet(Len(t) + 2)
    PROVE  LET u == [t EXCEPT ![n] = x] \o <<y, z>>
           IN /\ Grown(t, u, n) /\ Len(u) = Len(t) + 2 /\ DOMAIN u = 1 .. Len(t) + 2
              /\ u[n] = x /\ u[Len(t) + 1] = y /\ u[Len(t) + 2] = z
<1> DEFINE m == Len(t)
           s == [t EXCEPT ![n] = x]
           more == <<y, z>>
           u == s \o more
<1>1. m \in Nat /\ DOMAIN t = 1 .. m /\ t \in Seq(NodeSet(m)) /\ t # <<>> /\ m > 0
  BY TreeDomain DEF IsTree
<1>2. t \in Seq(NodeSet(m + 2))
  <2>1. NodeSet(m) \subseteq NodeSet(m + 2)
    BY <1>1, NodeGrows
  <2> HIDE DEF m
  <2> QED BY <1>1, <2>1, LargerSeq
<1>3. s \in Seq(NodeSet(m + 2)) /\ Len(s) = m /\ s[n] = x
      /\ \A k \in DOMAIN t \ {n} : s[k] = t[k]
  BY <1>2
<1>4. more \in Seq(NodeSet(m + 2)) /\ Len(more) = 2 /\ more[1] = y /\ more[2] = z
  OBVIOUS
<1> HIDE DEF s, m, more
<1>5. /\ u \in Seq(NodeSet(m + 2)) /\ Len(u) = m + 2
      /\ \A k \in 1 .. m + 2 : u[k] = IF k <= m THEN s[k] ELSE more[k - m]
  <2>1. /\ u \in Seq(NodeSet(m + 2)) /\ Len(u) = Len(s) + Len(more)
        /\ \A k \in 1 .. Len(s) + Len(more) :
              u[k] = IF k <= Len(s) THEN s[k] ELSE more[k - Len(s)]
    BY <1>3, <1>4, ConcatProperties
  <2> HIDE DEF u
  <2> QED BY <1>3, <1>4, <2>1
<1> HIDE DEF u
<1>6. u[m + 1] = y /\ u[m + 2] = z /\ \A k \in 1 .. m : u[k] = s[k]
  <2>1. m + 1 \in 1 .. m + 2 /\ ~(m + 1 <= m) /\ (m + 1) - m = 1
        /\ m + 2 \in 1 .. m + 2 /\ ~(m + 2 <= m) /\ (m + 2) - m = 2
        /\ \A k \in 1 .. m : k \in 1 .. m + 2 /\ k <= m
    BY <1>1
  <2> QED BY <1>4, <1>5, <2>1
<1>7. DOMAIN u = 1 .. m + 2 /\ u # <<>>
  BY <1>1, <1>5
<1>8. u[n] = x /\ \A k \in DOMAIN t \ {n} : u[k] = t[k]
  BY <1>1, <1>3, <1>6
<1> QED BY <1>1, <1>5, <1>6, <1>7, <1>8 DEF Grown, IsTree, u, s, m, more

\* What a step that adds nodes below node n must keep.
LEMMA GrowInv ==
    ASSUME NEW t, NEW u, NEW n \in DOMAIN t, NEW hole, NEW next,
           IsTree(t), TreeInv(t, hole), Grown(t, u, n),
           \A k \in DOMAIN t \ {n} : k # hole /\ k # next,
           Holds(u[n]) <=> Holds(t[n]),
           n = 1 => u[n].type \in {"static", "root"},
           \A k \in {n} \cup (Len(t) + 1 .. Len(u)) :
               /\ NodeInv(u[k], k = next)
               /\ \A c \in Range(u[k].children) : Holds(u[c]) <=> u[k].wild,
           HandlerInv(u),
           \A S \in SUBSET DOMAIN u :
               n \in S /\ Closed(u, S)
               => Len(t) + 1 .. Len(u) \subseteq S /\ Range(t[n].children) \subseteq S
    PROVE  TreeInv(u, next)
<1> DEFINE m == Len(t)
           new == {n} \cup (m + 1 .. Len(u))
<1>1. /\ m \in Nat /\ DOMAIN t = 1 .. m /\ 1 \in DOMAIN t
      /\ Len(u) \in Nat /\ DOMAIN u = 1 .. Len(u) /\ Len(u) >= m
      /\ \A k \in DOMAIN t : t[k] \in NodeSet(m)
  BY TreeDomain DEF Grown
<1>2. \A k \in DOMAIN t \ {n} : u[k] = t[k]
  BY DEF Grown
<1>3. DOMAIN u = new \cup (DOMAIN t \ {n}) /\ DOMAIN t \subseteq DOMAIN u
  BY <1>1
<1>4. \A k \in new : NodeInv(u[k], k = next)
                     /\ \A c \in Range(u[k].children) : Holds(u[c]) <=> u[k].wild
  OBVIOUS
<1>5. \A k \in DOMAIN t : Range(t[k].children) \subseteq DOMAIN t
  <2> SUFFICES ASSUME NEW k \in DOMAIN t PROVE Range(t[k].children) \subseteq DOMAIN t
    OBVIOUS
  <2>1. t[k].children \in Seq(2 .. m)
    BY <1>1 DEF NodeSet
  <2>2. Range(t[k].children) \subseteq 2 .. m
    BY <2>1 DEF Range
  <2> QED BY <1>1, <2>2
<1> HIDE DEF new, m
<1>6. \A k \in DOMAIN u : NodeInv(u[k], k = next)
  <2> SUFFICES ASSUME NEW k \in DOMAIN t \ {n} PROVE NodeInv(u[k], k = next)
    BY <1>3, <1>4
  <2>1. NodeInv(t[k], k = hole)
    BY DEF TreeInv
  <2>2. k # hole /\ k # next /\ u[k] = t[k]
    BY <1>2
  <2> QED BY <2>1, <2>2 DEF NodeInv
<1>7. LinkInv(u)
  <2> SUFFICES ASSUME NEW k \in DOMAIN t \ {n}, NEW c \in Range(u[k].children)
               PROVE  Holds(u[c]) <=> u[k].wild
    BY <1>3, <1>4 DEF LinkInv
  <2>1. u[k] = t[k] /\ c \in DOMAIN t /\ (Holds(t[c]) <=> t[k].wild)
    BY <1>2, <1>5 DEF TreeInv, LinkInv
  <2>2. Holds(u[c]) <=> Holds(t[c])
    BY <1>2, <2>1
  <2> QED BY <2>1, <2>2
<1>8. ReachInv(u)
  <2> SUFFICES ASSUME NEW S \in SUBSET DOMAIN u, 1 \in S, Closed(u, S) PROVE S = DOMAIN u
    BY DEF ReachInv
  <2> DEFINE old == S \cap DOMAIN t
  <2>1. ASSUME NEW k \in old PROVE Range(t[k].children) \subseteq old
    <3>1. Range(t[k].children) \subseteq DOMAIN t
      BY <1>5
    <3>2. CASE k = n
      BY <3>1, <3>2
    <3>3. CASE k # n
      <4>1. u[k] = t[k] /\ Range(u[k].children) \subseteq S
        BY <1>2, <3>3 DEF Closed
      <4> QED BY <3>1, <4>1
    <3> QED BY <3>2, <3>3
  <2>2. Closed(t, old) /\ 1 \in old /\ old \in SUBSET DOMAIN t
    BY <1>1, <2>1 DEF Closed
  <2>3. old = DOMAIN t
    <3>1. ReachInv(t)
      BY DEF TreeInv
    <3> HIDE DEF old
    <3> QED BY <2>2, <3>1 DEF ReachInv
  <2>4. n \in S /\ DOMAIN t \subseteq S
    BY <2>3
  <2>5. new \subseteq S
    BY <2>4 DEF new, m
  <2> QED BY <1>3, <2>4, <2>5
<1>9. u[1].type \in {"static", "root"}
  <2>1. t[1].type \in {"static", "root"}
    BY DEF TreeInv
  <2> QED BY <1>1, <1>2, <2>1
<1> QED BY <1>6, <1>7, <1>8, <1>9 DEF TreeInv

-----------------------------------------------------------------------------
(* The steps of pgrest_rtree_add.                                          *)

LEMMA InvFacts ==
    ASSUME RadixInv
    PROVE  /\ IsTree(tree) /\ TypeInv /\ TreeInv(tree, Hole)
           /\ Len(tree) \in Nat /\ DOMAIN tree = 1 .. Len(tree)
           /\ 1 \in DOMAIN tree /\ node \in DOMAIN tree
           /\ \A n \in DOMAIN tree : tree[n] \in NodeSet(Len(tree))
           /\ AtNode \in NodeSet(Len(tree)) /\ AtNode = tree[node]
           /\ AtNode.path \in Seq(STRING) /\ AtNode.children \in Seq(2 .. Len(tree))
           /\ AtNode.indices \in Seq(STRING) /\ AtNode.wild \in BOOLEAN
           /\ NodeInv(AtNode, node = Hole)
           /\ path \in Seq(STRING) /\ Len(path) \in Nat
           /\ WildCount(path) \in Nat
           /\ \A c \in Range(AtNode.children) : c \in 2 .. Len(tree) /\ c \in DOMAIN tree
<1>1. TypeInv /\ TreeInv(tree, Hole) /\ IsTree(tree)
  BY DEF RadixInv, TypeInv, IsTree
<1>2. /\ Len(tree) \in Nat /\ DOMAIN tree = 1 .. Len(tree) /\ 1 \in DOMAIN tree
      /\ \A n \in DOMAIN tree : tree[n] \in NodeSet(Len(tree))
  BY <1>1, TreeDomain
<1>3. node \in DOMAIN tree /\ AtNode \in NodeSet(Len(tree)) /\ AtNode = tree[node]
  BY <1>1, <1>2 DEF TypeInv, AtNode
<1>4. /\ AtNode.path \in Seq(STRING) /\ AtNode.children \in Seq(2 .. Len(tree))
      /\ AtNode.indices \in Seq(STRING) /\ AtNode.wild \in BOOLEAN
  BY <1>3 DEF NodeSet
<1>5. NodeInv(AtNode, node = Hole)
  BY <1>1, <1>3 DEF TreeInv
<1>6. path \in Seq(STRING) /\ Len(path) \in Nat /\ WildCount(path) \in Nat
  BY <1>1, CountType DEF TypeInv
<1>7. \A c \in Range(AtNode.children) : c \in 2 .. Len(tree) /\ c \in DOMAIN tree
  <2>1. Range(AtNode.children) \subseteq 2 .. Len(tree)
    BY <1>4 DEF Range
  <2> QED BY <1>2, <2>1
<1> QED BY <1>1, <1>2, <1>3, <1>4, <1>5, <1>6, <1>7

\* What pgrest_rtree_add knows when it leaves a node for what comes below it.
LEMMA DescendFacts ==
    ASSUME RadixInv, Descending
    PROVE  /\ Rest \in Seq(STRING) /\ Rest # <<>> /\ Len(Rest) \in Nat
           /\ left = WildCount(Rest)
           /\ route \in Routes
           /\ Len(route) >= Len(tree[1].path) + Len(Rest)
           /\ node = 1 => Len(route) = Len(tree[1].path) + Len(Rest)
           /\ Holds(AtNode) => Rest[1] = "/"
           /\ Hole = 0 /\ pc = "add"
<1> DEFINE k == Len(AtNode.path)
<1>1. /\ IsTree(tree) /\ TypeInv /\ path \in Seq(STRING) /\ AtNode.path \in Seq(STRING)
      /\ NodeInv(AtNode, node = Hole) /\ 1 \in DOMAIN tree /\ AtNode = tree[node]
      /\ tree[1].path \in Seq(STRING) /\ WildCount(path) \in Nat
  BY InvFacts DEF NodeSet
<1>2. pc = "add" /\ Shared = k /\ Rest # <<>> /\ Hole = 0 /\ AddInv
  BY DEF Descending, Hole, RadixInv
<1>3. Shared \in 0 .. Len(path) /\ SubSeq(path, 1, Shared) = SubSeq(AtNode.path, 1, Shared)
  BY <1>1, CommonFacts DEF Shared
<1>4. k \in 0 .. Len(path) /\ SubSeq(path, 1, k) = AtNode.path
  <2>1. SubSeq(AtNode.path, 1, k) = AtNode.path
    BY <1>1
  <2> QED BY <1>2, <1>3, <2>1
<1>0. Rest = Drop(path, k)
  BY <1>2 DEF Rest
<1>5. Rest \in Seq(STRING) /\ Len(Rest) = Len(path) - k
      /\ \A i \in 1 .. Len(path) - k : Rest[i] = path[k + i]
  BY <1>0, <1>1, <1>4, DropPath
<1>6. WildCount(path) = WildCount(AtNode.path) + WildCount(Rest)
  BY <1>0, <1>1, <1>4, <1>5, CountCut
<1>7. WildCount(AtNode.path) = IF Holds(AtNode) THEN 1 ELSE 0
  <2>1. node # Hole
    BY <1>1, <1>2 DEF TypeInv, IsTree
  <2> QED BY <1>1, <2>1 DEF NodeInv
<1>8. left = WildCount(Rest)
  <2>1. WildCount(Rest) \in Nat
    BY <1>5, CountType
  <2> QED BY <1>1, <1>2, <1>6, <1>7, <2>1 DEF AddInv
<1>9. Holds(AtNode) => Rest[1] = "/"
  <2> SUFFICES ASSUME Holds(AtNode) PROVE Rest[1] = "/"
    OBVIOUS
  <2>1. k = Len(path) \/ path[k + 1] = "/"
    BY <1>2 DEF AddInv, SameWild
  <2>2. Len(Rest) > 0
    BY <1>2, <1>5
  <2> HIDE DEF k
  <2>3. k # Len(path) /\ 1 \in 1 .. Len(path) - k
    BY <1>1, <1>4, <1>5, <2>2
  <2> QED BY <1>5, <2>1, <2>3
<1>10. /\ Len(route) >= Len(tree[1].path) + Len(Rest)
       /\ node = 1 => Len(route) = Len(tree[1].path) + Len(Rest)
  <2>1. CASE node = 1
    BY <1>1, <1>2, <1>4, <1>5, <2>1 DEF AddInv
  <2>2. CASE node # 1
    <3>1. Len(route) >= Len(tree[1].path) + Len(path)
      BY <1>2, <2>2 DEF AddInv
    <3>2. Len(Rest) <= Len(path) /\ Len(route) \in Nat /\ Len(Rest) \in Nat
          /\ Len(tree[1].path) \in Nat /\ Len(path) \in Nat
      BY <1>1, <1>4, <1>5 DEF TypeInv
    <3> QED BY <2>2, <3>1, <3>2
  <2> QED BY <2>1, <2>2
<1>11. route \in Routes
  BY <1>2 DEF AddInv
<1>12. Len(Rest) \in Nat
  BY <1>5
<1> HIDE DEF k
<1> QED BY <1>2, <1>5, <1>8, <1>9, <1>10, <1>11, <1>12

\* The step to a child: the node that was left behind holds no part of Rest.
LEMMA StepDown ==
    ASSUME RadixInv, Descending, Similar(tree, tree'),
           node' \in Range(AtNode.children), path' = Rest,
           left' = left - (IF AtNode.wild THEN 1 ELSE 0),
           pc' \in {"add", "failed"},
           AtNode.wild /\ pc' = "add" => SameWild(tree[node'].path, Rest),
           UNCHANGED <<route, added, inited>>
    PROVE  RadixInv'
<1>1. /\ IsTree(tree) /\ TypeInv /\ TreeInv(tree, Hole) /\ Hole = 0
      /\ 1 \in DOMAIN tree /\ node \in DOMAIN tree /\ AtNode = tree[node]
      /\ node' \in 2 .. Len(tree) /\ node' \in DOMAIN tree
  BY InvFacts, DescendFacts
<1>2. /\ Rest \in Seq(STRING) /\ Rest # <<>> /\ left = WildCount(Rest)
      /\ route \in Routes /\ Len(route) >= Len(tree[1].path) + Len(Rest)
  BY DescendFacts
<1>3. Hole' = 0
  BY DEF Hole
<1>4. /\ TreeInv(tree', Hole') /\ HandlersOf(tree') = HandlersOf(tree)
      /\ DOMAIN tree' = DOMAIN tree
      /\ \A n \in DOMAIN tree : Holds(tree'[n]) <=> Holds(tree[n])
  BY <1>1, <1>3, SimilarInv
<1>5. /\ IsTree(tree') /\ Len(tree') = Len(tree)
      /\ \A n \in DOMAIN tree : tree'[n].path = tree[n].path
  BY DEF Similar, Alike
<1>6. left' \in Int
  BY <1>1 DEF TypeInv
<1>7. TypeInv'
  BY <1>1, <1>2, <1>4, <1>5, <1>6 DEF TypeInv, IsTree
<1>8. Holds(tree[node']) <=> AtNode.wild
  BY <1>1 DEF TreeInv, LinkInv
<1>9. AtNode' = tree'[node']
  BY DEF AtNode
<1>10. pc' = "add" => AddInv'
  <2> SUFFICES ASSUME pc' = "add" PROVE AddInv'
    OBVIOUS
  <2>1. Holds(AtNode') <=> AtNode.wild
    BY <1>1, <1>4, <1>8, <1>9
  <2>2. left' = WildCount(path') - (IF Holds(AtNode') THEN 1 ELSE 0)
    BY <1>2, <2>1
  <2>3. Holds(AtNode') => SameWild(AtNode'.path, path')
    BY <1>1, <1>5, <1>9, <2>1
  <2>4. node' # 1 /\ Len(route') >= Len(tree'[1].path) + Len(path')
    BY <1>1, <1>2, <1>5
  <2> QED BY <1>2, <2>2, <2>3, <2>4 DEF AddInv
<1>11. Range(added') = HandlersOf(tree')
  BY <1>4 DEF RadixInv
<1>12. pc' # "insert" /\ pc' # "walked"
  OBVIOUS
<1> QED BY <1>4, <1>7, <1>10, <1>11, <1>12 DEF RadixInv, WalkerVisitsAll

LEMMA DescendWildStep ==
    ASSUME RadixInv, DescendWild
    PROVE  RadixInv'
<1> DEFINE child == AtNode.children[1]
<1>1. Descending /\ AtNode.wild
  BY DEF DescendWild
<1>2. /\ IsTree(tree) /\ AtNode.children \in Seq(2 .. Len(tree))
      /\ NodeInv(AtNode, node = Hole)
      /\ \A c \in Range(AtNode.children) : c \in DOMAIN tree
  BY InvFacts
<1>3. child \in Range(AtNode.children)
  <2>1. 1 \in DOMAIN AtNode.children
    BY <1>1, <1>2 DEF NodeInv
  <2> QED BY <2>1 DEF Range
<1>4. child \in DOMAIN tree
  BY <1>2, <1>3
<1>5. tree' = [tree EXCEPT ![child].priority = @ + 1] /\ node' = child
  BY DEF DescendWild
<1> HIDE DEF child
<1>6. Similar(tree, tree')
  BY <1>2, <1>4, <1>5, BumpFacts
<1>7. /\ path' = Rest /\ left' = left - 1 /\ pc' \in {"add", "failed"}
      /\ pc' = "add" => SameWild(tree[child].path, Rest)
      /\ UNCHANGED <<route, added, inited>>
  BY DEF DescendWild, child
<1> QED BY <1>1, <1>3, <1>5, <1>6, <1>7, StepDown

LEMMA DescendParamStep ==
    ASSUME RadixInv, DescendParam
    PROVE  RadixInv'
<1> DEFINE child == AtNode.children[1]
<1>1. Descending /\ ~AtNode.wild /\ Len(AtNode.children) = 1 /\ pc = "add"
  BY DEF DescendParam, SlashBelowParam, Descending
<1>2. /\ IsTree(tree) /\ AtNode.children \in Seq(2 .. Len(tree))
      /\ \A c \in Range(AtNode.children) : c \in DOMAIN tree
  BY InvFacts
<1>3. child \in Range(AtNode.children)
  <2>1. 1 \in DOMAIN AtNode.children
    BY <1>1, <1>2
  <2> QED BY <2>1 DEF Range
<1>4. child \in DOMAIN tree
  BY <1>2, <1>3
<1>5. tree' = [tree EXCEPT ![child].priority = @ + 1] /\ node' = child
  BY DEF DescendParam
<1> HIDE DEF child
<1>6. Similar(tree, tree')
  BY <1>2, <1>4, <1>5, BumpFacts
<1>7. /\ path' = Rest /\ left' = left /\ pc' = "add" /\ UNCHANGED <<route, added, inited>>
  BY <1>1 DEF DescendParam
<1>8. left' = left - 0
  BY <1>7, InvFacts DEF TypeInv
<1> QED BY <1>1, <1>3, <1>5, <1>6, <1>7, <1>8, StepDown

LEMMA DescendIndexStep ==
    ASSUME RadixInv, DescendIndex
    PROVE  RadixInv'
<1> DEFINE pos == Min(Indexed)
<1>1. Descending /\ ~AtNode.wild /\ Indexed # {} /\ pc = "add"
  BY DEF DescendIndex, Descending
<1>2. /\ IsTree(tree) /\ AtNode.children \in Seq(2 .. Len(tree))
      /\ AtNode.indices \in Seq(STRING) /\ NodeInv(AtNode, node = Hole)
      /\ node \in DOMAIN tree /\ AtNode = tree[node]
  BY InvFacts
<1>3. pos \in 1 .. Len(AtNode.indices)
  <2>1. Indexed \subseteq 1 .. Len(AtNode.indices)
    BY <1>2 DEF Indexed
  <2>2. Indexed \subseteq Nat
    BY <2>1
  <2>3. pos \in Indexed
    BY <1>1, <2>2, MinFacts
  <2> QED BY <2>1, <2>3
<1>4. pos \in DOMAIN AtNode.children
  <2>1. Len(AtNode.indices) <= Len(AtNode.children)
    BY <1>2 DEF NodeInv
  <2>2. Len(AtNode.indices) \in Nat /\ Len(AtNode.children) \in Nat
        /\ DOMAIN AtNode.children = 1 .. Len(AtNode.children)
    BY <1>2
  <2> HIDE DEF pos
  <2> QED BY <1>3, <2>1, <2>2
<1>5. tree' = Raise(tree, node, pos) /\ node' = AtNode.children[pos]
  BY DEF DescendIndex
<1> HIDE DEF pos
<1>6. node' \in Range(AtNode.children)
  BY <1>4, <1>5 DEF Range
<1>7. Similar(tree, tree')
  <2>1. pos <= Len(tree[node].indices)
    BY <1>2, <1>3
  <2> QED BY <1>2, <1>4, <1>5, <2>1, RaiseFacts
<1>8. /\ path' = Rest /\ left' = left /\ pc' = "add" /\ UNCHANGED <<route, added, inited>>
  BY <1>1 DEF DescendIndex
<1>9. left' = left - 0
  BY <1>8, InvFacts DEF TypeInv
<1> QED BY <1>1, <1>6, <1>7, <1>8, <1>9, StepDown

\* A node that holds no wildcard has its path or has not, it counts none.
LEMMA HoleMoves ==
    ASSUME NEW t, NEW a, NEW b, TreeInv(t, a),
           \A k \in DOMAIN t : k = a \/ k = b => ~Holds(t[k])
    PROVE  TreeInv(t, b)
<1>1. ASSUME NEW k \in DOMAIN t PROVE NodeInv(t[k], k = b)
  <2>1. NodeInv(t[k], k = a)
    BY DEF TreeInv
  <2> QED BY <2>1 DEF NodeInv
<1> QED BY <1>1 DEF TreeInv

LEMMA RootHoldsNone ==
    ASSUME NEW t, NEW hole, TreeInv(t, hole)
    PROVE  ~Holds(t[1])
  BY DEF TreeInv, Holds

\* An empty tree has one node, and no handler.
LEMMA EmptyTree ==
    ASSUME NEW t, NEW hole, IsTree(t), TreeInv(t, hole)
    PROVE  /\ t[1].children = <<>> => Len(t) = 1
           /\ t[1].path = <<>> => t[1].handler = None
<1>1. Len(t) \in Nat /\ DOMAIN t = 1 .. Len(t) /\ 1 \in DOMAIN t /\ t[1] \in NodeSet(Len(t))
  BY TreeDomain
<1>2. ASSUME t[1].children = <<>> PROVE Len(t) = 1
  <2>1. Range(t[1].children) = {}
    BY <1>2 DEF Range
  <2>2. Closed(t, {1}) /\ 1 \in {1} /\ {1} \in SUBSET DOMAIN t
    BY <1>1, <2>1 DEF Closed
  <2>3. {1} = DOMAIN t
    BY <2>2 DEF TreeInv, ReachInv
  <2> QED BY <1>1, <2>3
<1>3. ASSUME t[1].path = <<>>, t[1].handler # None PROVE FALSE
  <2>1. Len(t[1].handler) = Len(t[1].path)
    BY <1>3 DEF TreeInv, HandlerInv
  <2>2. t[1].handler \in Routes
    BY <1>1, <1>3 DEF NodeSet
  <2>3. t[1].handler \in Seq(STRING) /\ t[1].handler # <<>>
    BY <2>2, RadixTreeAssumption
  <2>4. Len(t[1].path) = 0
    BY <1>3
  <2> QED BY <2>1, <2>3, <2>4
<1> QED BY <1>2, <1>3

\* num_params is the number of wildcards where pgrest_count_params counts them all.
LEMMA AllCounted ==
    ASSUME RoutesFit, NEW r \in Routes
    PROVE  pgrest_count_params(r) = WildCount(r)
<1>1. WildCount(r) \in Nat /\ WildCount(r) <= ParamLimit /\ ParamLimit \in Nat
  BY CountType, RadixTreeAssumption DEF RoutesFit
<1> QED BY <1>1 DEF pgrest_count_params

LEMMA AddStep ==
    ASSUME RadixInv, RoutesFit, NEW r \in Routes, Add(r)
    PROVE  RadixInv'
<1> DEFINE empty == tree[1].path = <<>> /\ tree[1].children = <<>>
           x == [tree[1] EXCEPT !.priority = @ + 1, !.type = IF empty THEN "root" ELSE @]
<1>1. /\ IsTree(tree) /\ TypeInv /\ TreeInv(tree, Hole) /\ 1 \in DOMAIN tree
      /\ DOMAIN tree = 1 .. Len(tree) /\ tree[1] \in NodeSet(Len(tree))
      /\ tree[1].type \in {"static", "root"} /\ NodeInv(tree[1], 1 = Hole)
  BY InvFacts DEF TreeInv
<1>2. /\ tree' = [tree EXCEPT ![1].priority = @ + 1, ![1].type = IF empty THEN "root" ELSE @]
      /\ pc' = IF empty THEN "insert" ELSE "add"
      /\ pc = "idle" /\ node' = 1 /\ path' = r /\ left' = WildCount(r) /\ route' = r
      /\ added' = added /\ inited' = inited
  BY AllCounted DEF Add
<1>3. /\ x \in NodeSet(Len(tree)) /\ x.type \in {"static", "root"}
      /\ x.path = tree[1].path /\ x.wild = tree[1].wild /\ x.handler = tree[1].handler
      /\ x.indices = tree[1].indices /\ x.children = tree[1].children
  <2>1. tree[1].priority + 1 \in Int
    BY <1>1 DEF NodeSet
  <2>2. x = [tree[1] EXCEPT !.priority = tree[1].priority + 1,
                            !.type = IF empty THEN "root" ELSE tree[1].type]
    BY <1>1 DEF NodeSet
  <2> HIDE DEF x, empty
  <2> QED BY <1>1, <2>1, <2>2 DEF NodeSet
<1>4. tree' = [tree EXCEPT ![1] = x]
  BY <1>1, <1>2
<1> HIDE DEF x
<1>5. Alike(tree[1], x)
  BY <1>1, <1>3 DEF Alike
<1>6. Similar(tree, tree')
  BY <1>1, <1>3, <1>4, <1>5, ReplaceFacts
<1>7. /\ TreeInv(tree', Hole) /\ HandlersOf(tree') = HandlersOf(tree)
      /\ DOMAIN tree' = DOMAIN tree
  BY <1>1, <1>6, SimilarInv
<1>8. IsTree(tree') /\ Len(tree') = Len(tree) /\ tree'[1] = x
  BY <1>1, <1>4, <1>6 DEF Similar
<1>9. TreeInv(tree', Hole')
  <2>1. Hole = 0 /\ Hole' \in {0, 1}
    BY <1>2 DEF Hole
  <2>2. ~Holds(tree'[1])
    BY <1>7, RootHoldsNone
  <2>3. 0 \notin DOMAIN tree'
    BY <1>1, <1>7
  <2> QED BY <1>7, <2>1, <2>2, <2>3, HoleMoves
<1>10. r \in Seq(STRING) /\ r # <<>> /\ WildCount(r) \in Nat
  BY RadixTreeAssumption, CountType
<1>11. TypeInv'
  BY <1>1, <1>2, <1>7, <1>8, <1>10 DEF TypeInv, IsTree
<1>12. Range(added') = HandlersOf(tree')
  BY <1>2, <1>7 DEF RadixInv
<1>13. AtNode' = x
  BY <1>2, <1>8 DEF AtNode
<1>14. ~Holds(x)
  BY <1>3 DEF Holds
<1>15. ASSUME pc' = "add" PROVE AddInv'
  BY <1>2, <1>10, <1>13, <1>14 DEF AddInv
<1>16. ASSUME pc' = "insert" PROVE InsertInv'
  <2>1. empty
    BY <1>2, <1>16
  <2>2. tree[1].handler = None
    BY <1>1, <2>1, EmptyTree
  <2>3. x.path = <<>> /\ x.children = <<>> /\ x.handler = None
    BY <1>3, <2>1, <2>2
  <2>4. Len(route') = Len(tree'[1].path) + Len(path')
    <3>1. Len(tree'[1].path) = 0
      BY <1>8, <2>3
    <3>2. Len(r) \in Nat
      BY <1>10
    <3> QED BY <1>2, <3>1, <3>2
  <2> QED BY <1>2, <1>3, <1>10, <1>13, <2>3, <2>4 DEF InsertInv
<1>17. pc' # "walked"
  BY <1>2
<1> QED BY <1>9, <1>11, <1>12, <1>15, <1>16, <1>17 DEF RadixInv, WalkerVisitsAll

\* The steps that leave the tree and the lists as they are.
LEMMA SamePlace ==
    ASSUME RadixInv, UNCHANGED <<tree, node, added, inited, route, left>>,
           pc' \in {"failed", "aborted", "insert"}, pc' # "insert" => path' = path,
           pc' = "insert" => path' \in Seq(STRING) /\ InsertInv',
           Hole # 0 \/ Hole' # 0 => ~Holds(AtNode)
    PROVE  RadixInv'
<1>1. TypeInv /\ TreeInv(tree, Hole) /\ DOMAIN tree = 1 .. Len(tree) /\ AtNode = tree[node]
  BY InvFacts
<1>2. TypeInv'
  BY <1>1 DEF TypeInv
<1>3. Hole \in {0, node} /\ Hole' \in {0, node}
  BY DEF Hole
<1>4. 0 \notin DOMAIN tree
  BY <1>1
<1>5. TreeInv(tree, Hole')
  BY <1>1, <1>3, <1>4, HoleMoves
<1>6. TreeInv(tree', Hole') /\ HandlersOf(tree') = HandlersOf(tree)
  BY <1>5
<1>7. Range(added') = HandlersOf(tree')
  BY <1>6 DEF RadixInv
<1> QED BY <1>2, <1>6, <1>7 DEF RadixInv, WalkerVisitsAll

LEMMA AbortStep ==
    ASSUME RadixInv, SplitAborts \/ AppendAborts
    PROVE  RadixInv'
<1>1. pc = "add" /\ pc' = "aborted" /\ UNCHANGED <<tree, node, path, left, route, added, inited>>
  BY DEF SplitAborts, AppendAborts, Splitting, NoWayDown, Descending
<1>2. Hole = 0 /\ Hole' = 0
  BY <1>1 DEF Hole
<1> QED BY <1>1, <1>2, SamePlace

LEMMA WildHereStep ==
    ASSUME RadixInv, WildHere
    PROVE  RadixInv'
<1>1. /\ NoWayDown /\ Descending /\ ~AtNode.wild /\ Rest[1] \in Wildcards
      /\ pc' = "insert" /\ path' = Rest /\ UNCHANGED <<tree, node, left, route, added, inited>>
  BY DEF WildHere, NoWayDown
<1>2. /\ Rest \in Seq(STRING) /\ Rest # <<>> /\ left = WildCount(Rest)
      /\ route \in Routes /\ Len(route) >= Len(tree[1].path) + Len(Rest)
      /\ node = 1 => Len(route) = Len(tree[1].path) + Len(Rest)
      /\ Holds(AtNode) => Rest[1] = "/"
      /\ Hole = 0
  BY <1>1, DescendFacts
<1>3. ~Holds(AtNode)
  BY <1>1, <1>2 DEF Wildcards
<1>4. AtNode.type \in {"static", "root"}
  BY <1>1, <1>3, InvFacts DEF NodeSet, Holds
<1>5. left > 0
  <2>1. Len(Rest) >= 1
    BY <1>2
  <2>2. 1 \in 1 .. Len(Rest)
    BY <1>2, <2>1
  <2>3. WildCount(Rest) # 0
    BY <1>1, <1>2, <2>2, CountSome
  <2>4. WildCount(Rest) \in Nat
    BY <1>2, CountType
  <2> QED BY <1>2, <2>3, <2>4
<1>6. AtNode' = AtNode
  BY <1>1 DEF AtNode
<1>7. InsertInv'
  BY <1>1, <1>2, <1>4, <1>5, <1>6 DEF InsertInv
<1> QED BY <1>1, <1>2, <1>3, <1>7, SamePlace

LEMMA InsertRefusedStep ==
    ASSUME RadixInv, InsertRefused
    PROVE  RadixInv'
<1>1. /\ pc = "insert" /\ left > 0 /\ pc' = "failed"
      /\ UNCHANGED <<tree, node, path, left, route, added, inited>>
  BY DEF InsertRefused, Inserting
<1>2. ~Holds(AtNode)
  BY <1>1 DEF RadixInv, InsertInv, Holds
<1> QED BY <1>1, <1>2, SamePlace

LEMMA AppendRange ==
    ASSUME NEW S, NEW s \in Seq(S), NEW x \in S
    PROVE  Append(s, x) \in Seq(S) /\ Range(Append(s, x)) = Range(s) \cup {x}
<1> DEFINE t == Append(s, x)
<1>1. /\ t \in Seq(S) /\ Len(s) \in Nat /\ DOMAIN s = 1 .. Len(s)
      /\ DOMAIN t = 1 .. Len(s) + 1 /\ t[Len(s) + 1] = x
      /\ \A k \in 1 .. Len(s) : t[k] = s[k]
  OBVIOUS
<1> HIDE DEF t
<1>2. DOMAIN t = DOMAIN s \cup {Len(s) + 1}
  BY <1>1
<1>3. Range(t) = Range(s) \cup {x}
  BY <1>1, <1>2 DEF Range
<1> QED BY <1>1, <1>3 DEF t

\* What H adds to the handlers of a tree that has grown at node n.
Adds(t, u, n, H) ==
    {u[k].handler : k \in {n} \cup (Len(t) + 1 .. Len(u))} \ {None}
        = ({t[n].handler} \cup H) \ {None}

LEMMA HandlersGrow ==
    ASSUME NEW t, NEW u, NEW n \in DOMAIN t, NEW H, IsTree(t), Grown(t, u, n),
           Adds(t, u, n, H)
    PROVE  HandlersOf(u) = HandlersOf(t) \cup (H \ {None})
<1> DEFINE new == {n} \cup (Len(t) + 1 .. Len(u))
           old == DOMAIN t \ {n}
<1>1. DOMAIN u = new \cup old
  <2>1. Len(t) \in Nat /\ DOMAIN t = 1 .. Len(t) /\ Len(u) \in Nat /\ DOMAIN u = 1 .. Len(u)
        /\ Len(u) >= Len(t)
    BY TreeDomain DEF Grown
  <2> QED BY <2>1
<1>2. \A k \in old : u[k] = t[k]
  BY DEF Grown
<1>3. {u[k].handler : k \in new} \ {None} = ({t[n].handler} \cup H) \ {None}
  BY DEF Adds
<1>4. DOMAIN t = old \cup {n}
  OBVIOUS
<1> HIDE DEF new, old
<1>5. HandlersOf(u)
        = ({u[k].handler : k \in new} \ {None}) \cup ({u[k].handler : k \in old} \ {None})
  BY <1>1 DEF HandlersOf
<1>6. HandlersOf(t) = ({t[n].handler} \ {None}) \cup ({t[k].handler : k \in old} \ {None})
  BY <1>4 DEF HandlersOf
<1>7. {u[k].handler : k \in old} = {t[k].handler : k \in old}
  BY <1>2
<1> QED BY <1>3, <1>5, <1>6, <1>7

LEMMA HandlersSame ==
    ASSUME NEW t, NEW u, NEW n \in DOMAIN t, IsTree(t), Grown(t, u, n), Adds(t, u, n, {})
    PROVE  HandlersOf(u) = HandlersOf(t)
<1>1. HandlersOf(u) = HandlersOf(t) \cup ({} \ {None})
  BY HandlersGrow
<1> QED BY <1>1

LEMMA HandlersLong ==
    ASSUME NEW t, NEW u, NEW n \in DOMAIN t, IsTree(t), Grown(t, u, n), HandlerInv(t),
           n = 1 => /\ u[1].handler # None => Len(u[1].handler) = Len(u[1].path)
                    /\ Len(u[1].path) <= Len(t[1].path) \/ Len(t) = 1,
           n # 1 /\ u[n].handler # None => Len(u[n].handler) > Len(t[1].path),
           \A k \in Len(t) + 1 .. Len(u) :
               u[k].handler # None => Len(u[k].handler) > Len(u[1].path)
    PROVE  HandlerInv(u)
<1>1. /\ Len(t) \in Nat /\ DOMAIN t = 1 .. Len(t) /\ Len(u) \in Nat /\ DOMAIN u = 1 .. Len(u)
      /\ Len(u) >= Len(t) /\ 1 \in DOMAIN t /\ 1 \in DOMAIN u
      /\ \A k \in DOMAIN t : t[k] \in NodeSet(Len(t))
      /\ \A k \in DOMAIN u : u[k] \in NodeSet(Len(u))
  BY TreeDomain DEF Grown
<1>2. \A k \in DOMAIN t \ {n} : u[k] = t[k]
  BY DEF Grown
<1>3. Len(t[1].path) \in Nat /\ Len(u[1].path) \in Nat
  <2>1. t[1].path \in Seq(STRING) /\ u[1].path \in Seq(STRING)
    BY <1>1 DEF NodeSet
  <2> QED BY <2>1
<1>4. u[1].handler # None => Len(u[1].handler) = Len(u[1].path)
  <2>1. CASE n = 1
    BY <2>1
  <2>2. CASE n # 1
    BY <1>1, <1>2, <2>2 DEF HandlerInv
  <2> QED BY <2>1, <2>2
<1>5. ASSUME NEW k \in 2 .. Len(u), u[k].handler # None
      PROVE  Len(u[k].handler) > Len(u[1].path)
  <2>1. CASE k > Len(t)
    <3>1. k \in Len(t) + 1 .. Len(u)
      BY <1>1, <2>1
    <3> QED BY <1>5, <3>1
  <2>2. CASE k <= Len(t) /\ k = n
    <3>1. n # 1 /\ u[1] = t[1]
      BY <1>1, <1>2, <2>2
    <3> QED BY <1>5, <2>2, <3>1
  <2>3. CASE k <= Len(t) /\ k # n
    <3>1. k \in 2 .. Len(t) /\ k \in DOMAIN t \ {n} /\ Len(t) # 1
      BY <1>1, <2>3
    <3>2. u[k] = t[k] /\ Len(t[k].handler) > Len(t[1].path)
      BY <1>2, <1>5, <3>1 DEF HandlerInv
    <3>3. t[k].handler \in Seq(STRING)
      <4>1. t[k].handler \in Routes
        BY <1>1, <1>5, <3>1, <3>2 DEF NodeSet
      <4> QED BY <4>1, RadixTreeAssumption
    <3>4. Len(t[k].handler) \in Nat
      BY <3>3
    <3>5. Len(u[1].path) <= Len(t[1].path)
      <4>1. CASE n = 1
        BY <3>1, <4>1
      <4>2. CASE n # 1
        <5>1. u[1] = t[1]
          BY <1>1, <1>2, <4>2
        <5> QED BY <1>3, <5>1
      <4> QED BY <4>1, <4>2
    <3> QED BY <1>3, <3>2, <3>4, <3>5
  <2> QED BY <1>1, <2>1, <2>2, <2>3
<1> QED BY <1>4, <1>5 DEF HandlerInv

LEMMA Accepted ==
    ASSUME RadixInv, route \in Routes, added' = Append(added, route),
           HandlersOf(tree') = HandlersOf(tree) \cup ({route} \ {None})
    PROVE  added' \in Seq(Routes) /\ Range(added') = HandlersOf(tree')
<1>1. route # None
  BY RadixTreeAssumption DEF None
<1>2. added \in Seq(Routes) /\ Range(added) = HandlersOf(tree)
  BY DEF TypeInv, RadixInv
<1>3. added' \in Seq(Routes) /\ Range(added') = Range(added) \cup {route}
  BY <1>2, AppendRange
<1>4. {route} \ {None} = {route}
  BY <1>1
<1> QED BY <1>2, <1>3, <1>4

\* The handler goes to a node that has its whole path.
LEMMA SetLeafStep ==
    ASSUME RadixInv, SetLeaf
    PROVE  RadixInv'
<1>0. /\ IsTree(tree) /\ TypeInv /\ TreeInv(tree, Hole) /\ 1 \in DOMAIN tree
      /\ DOMAIN tree = 1 .. Len(tree) /\ node \in DOMAIN tree /\ AtNode = tree[node]
      /\ Len(tree) \in Nat
      /\ AtNode \in NodeSet(Len(tree)) /\ NodeInv(AtNode, node = Hole)
      /\ path \in Seq(STRING) /\ AtNode.path \in Seq(STRING) /\ Len(path) \in Nat
      /\ tree[1] \in NodeSet(Len(tree))
  BY InvFacts
<1>1. /\ pc = "add" /\ Shared = Len(AtNode.path) /\ Rest = <<>> /\ AddInv /\ Hole = 0
      /\ UNCHANGED <<node, path, left, route, inited>>
  BY DEF SetLeaf, RadixInv, Hole
<1>2. CASE AtNode.handler # None
  <2>1. pc' = "failed" /\ UNCHANGED <<tree, added>>
    BY <1>2 DEF SetLeaf
  <2>2. Hole' = 0
    BY <2>1 DEF Hole
  <2> QED BY <1>1, <2>1, <2>2, SamePlace
<1>3. CASE AtNode.handler = None
  <2> DEFINE x == [AtNode EXCEPT !.handler = route]
  <2>1. /\ tree' = [tree EXCEPT ![node].handler = route] /\ added' = Append(added, route)
        /\ pc' = "idle"
    BY <1>3 DEF SetLeaf
  <2>2. /\ x \in NodeSet(Len(tree)) /\ x.handler = route /\ x.path = AtNode.path
        /\ x.wild = AtNode.wild /\ x.type = AtNode.type /\ x.indices = AtNode.indices
        /\ x.children = AtNode.children /\ route \in Routes
    BY <1>0, <1>1 DEF NodeSet, AddInv
  <2>3. tree' = [tree EXCEPT ![node] = x]
    BY <1>0, <2>1
  <2> HIDE DEF x
  <2>4. /\ IsTree(tree') /\ Len(tree') = Len(tree) /\ DOMAIN tree' = DOMAIN tree
        /\ tree'[node] = x /\ \A k \in DOMAIN tree \ {node} : tree'[k] = tree[k]
    BY <1>0, <2>2, <2>3 DEF IsTree
  <2>5. Grown(tree, tree', node)
    BY <1>0, <2>4 DEF Grown
  <2>6. Hole' = 0
    BY <2>1 DEF Hole
  <2>7. Len(tree) + 1 .. Len(tree') = {} /\ 0 \notin DOMAIN tree
    BY <1>0, <2>4
  <2>8. Len(path) = Len(AtNode.path)
    <3>1. Shared \in 0 .. Len(path)
      BY <1>0, CommonFacts DEF Shared
    <3>2. Len(Rest) = Len(path) - Shared
      BY <1>0, <3>1, DropPath DEF Rest
    <3>3. Len(Rest) = 0
      BY <1>1
    <3> QED BY <1>0, <1>1, <3>1, <3>2, <3>3
  <2>9. HandlerInv(tree')
    <3>1. node = 1 => Len(x.handler) = Len(x.path)
      BY <1>1, <2>2, <2>8 DEF AddInv
    <3>2. node # 1 => Len(x.handler) > Len(tree[1].path)
      <4> SUFFICES ASSUME node # 1 PROVE Len(x.handler) > Len(tree[1].path)
        OBVIOUS
      <4>1. Len(route) >= Len(tree[1].path) + Len(path) /\ path # <<>>
        BY <1>1 DEF AddInv
      <4>2. Len(path) > 0
        BY <1>0, <4>1
      <4>3. tree[1].path \in Seq(STRING) /\ route \in Seq(STRING)
        BY <1>0, <2>2, RadixTreeAssumption DEF NodeSet
      <4>4. Len(tree[1].path) \in Nat /\ Len(route) \in Nat
        BY <4>3
      <4> QED BY <1>0, <2>2, <4>1, <4>2, <4>4
    <3>3. HandlerInv(tree)
      BY <1>0 DEF TreeInv
    <3>4. Len(tree[1].path) \in Nat
      <4>1. tree[1].path \in Seq(STRING)
        BY <1>0 DEF NodeSet
      <4> QED BY <4>1
    <3>5. node = 1 => tree'[1] = x /\ AtNode = tree[1]
      BY <1>0, <2>4
    <3> QED BY <1>0, <2>2, <2>4, <2>5, <2>7, <3>1, <3>2, <3>3, <3>4, <3>5, HandlersLong
  <2>10. NodeInv(x, node = Hole')
    <3>1. Holds(x) <=> Holds(AtNode)
      BY <2>2 DEF Holds
    <3>2. node # Hole /\ node # Hole'
      BY <1>0, <1>1, <2>6, <2>7
    <3> QED BY <1>0, <2>2, <3>1, <3>2 DEF NodeInv
  <2>11. Holds(x) <=> Holds(AtNode)
    BY <2>2 DEF Holds
  <2>12. \A c \in Range(x.children) : Holds(tree'[c]) <=> x.wild
    <3> SUFFICES ASSUME NEW c \in Range(x.children) PROVE Holds(tree'[c]) <=> x.wild
      OBVIOUS
    <3>1. c \in DOMAIN tree /\ (Holds(tree[c]) <=> AtNode.wild)
      BY <1>0, <2>2, InvFacts DEF TreeInv, LinkInv
    <3>2. Holds(tree'[c]) <=> Holds(tree[c])
      BY <1>0, <2>4, <2>11, <3>1
    <3> QED BY <2>2, <3>1, <3>2
  <2>13. \A S \in SUBSET DOMAIN tree' : node \in S /\ Closed(tree', S)
             => Range(tree[node].children) \subseteq S
    BY <1>0, <2>2, <2>4 DEF Closed
  <2>14. node = 1 => x.type \in {"static", "root"}
    BY <1>0, <2>2 DEF TreeInv
  <2>15. \A k \in DOMAIN tree \ {node} : k # Hole /\ k # Hole'
    BY <1>1, <2>6, <2>7
  <2>16. TreeInv(tree', Hole')
    BY <1>0, <2>4, <2>5, <2>7, <2>9, <2>10, <2>11, <2>12, <2>13, <2>14, <2>15, GrowInv
  <2>17. HandlersOf(tree') = HandlersOf(tree) \cup ({route} \ {None})
    <3>1. {tree'[k].handler : k \in {node} \cup (Len(tree) + 1 .. Len(tree'))} = {route}
      BY <2>2, <2>4, <2>7
    <3>2. {route} \ {None} = ({tree[node].handler} \cup {route}) \ {None}
      BY <1>0, <1>3
    <3>3. Adds(tree, tree', node, {route})
      BY <3>1, <3>2 DEF Adds
    <3> QED BY <1>0, <2>5, <3>3, HandlersGrow
  <2>18. added' \in Seq(Routes) /\ Range(added') = HandlersOf(tree')
    BY <1>0, <2>1, <2>2, <2>17, Accepted
  <2>19. TypeInv'
    BY <1>0, <1>1, <2>1, <2>4, <2>18 DEF TypeInv, IsTree
  <2> QED BY <2>1, <2>16, <2>18, <2>19 DEF RadixInv, WalkerVisitsAll
<1> QED BY <1>2, <1>3

\* What pgrest_rtree_child_insert knows of its node.
LEMMA InsertFacts ==
    ASSUME RadixInv, pc = "insert"
    PROVE  /\ InsertInv /\ Hole = node /\ route \in Routes /\ Len(route) \in Nat
           /\ Len(path) \in Nat /\ Len(path) > 0 /\ Len(tree[1].path) \in Nat
           /\ left > 0 => ~Holds(AtNode) /\ AtNode.type \in {"static", "root"}
                          /\ left = WildCount(path)
           /\ AtNode.children = <<>> =>
                 ~AtNode.wild /\ (node = 1 => Len(tree) = 1) /\ Range(AtNode.children) = {}
<1>1. /\ IsTree(tree) /\ TreeInv(tree, Hole) /\ AtNode = tree[node] /\ AtNode.wild \in BOOLEAN
      /\ NodeInv(AtNode, node = Hole) /\ path \in Seq(STRING)
      /\ 1 \in DOMAIN tree /\ tree[1] \in NodeSet(Len(tree))
  BY InvFacts
<1>2. InsertInv /\ Hole = node
  BY DEF RadixInv, Hole
<1>3. route \in Routes /\ path # <<>>
  BY <1>2 DEF InsertInv
<1>4. Len(route) \in Nat /\ Len(path) \in Nat /\ Len(path) > 0
  <2>1. route \in Seq(STRING)
    BY <1>3, RadixTreeAssumption
  <2> QED BY <1>1, <1>3, <2>1
<1>5. Len(tree[1].path) \in Nat
  <2>1. tree[1].path \in Seq(STRING)
    BY <1>1 DEF NodeSet
  <2> QED BY <2>1
<1>6. left > 0 => ~Holds(AtNode) /\ AtNode.type \in {"static", "root"}
                  /\ left = WildCount(path)
  BY <1>2 DEF InsertInv, Holds
<1>7. ASSUME AtNode.children = <<>>
      PROVE  ~AtNode.wild /\ (node = 1 => Len(tree) = 1) /\ Range(AtNode.children) = {}
  <2>1. Len(AtNode.children) = 0 /\ Range(AtNode.children) = {}
    BY <1>7 DEF Range
  <2>2. ~AtNode.wild
    BY <1>1, <2>1 DEF NodeInv
  <2>3. node = 1 => Len(tree) = 1
    BY <1>1, <1>7, EmptyTree
  <2> QED BY <2>1, <2>2, <2>3
<1> QED BY <1>2, <1>3, <1>4, <1>5, <1>6, <1>7

LEMMA NoneLeft ==
    ASSUME RadixInv, pc = "insert", left <= 0
    PROVE  left = 0
<1>1. path \in Seq(STRING) /\ InsertInv
  BY InvFacts DEF RadixInv
<1>2. WildCount(path) \in Nat
  BY <1>1, CountType
<1>3. left = 0 \/ left = WildCount(path)
  BY <1>1 DEF InsertInv
<1> QED BY <1>2, <1>3

LEMMA InsertRestStep ==
    ASSUME RadixInv, InsertRest
    PROVE  RadixInv'
<1>0. /\ IsTree(tree) /\ TypeInv /\ TreeInv(tree, Hole) /\ 1 \in DOMAIN tree
      /\ DOMAIN tree = 1 .. Len(tree) /\ node \in DOMAIN tree /\ AtNode = tree[node]
      /\ Len(tree) \in Nat
      /\ AtNode \in NodeSet(Len(tree)) /\ NodeInv(AtNode, node = Hole)
      /\ path \in Seq(STRING)
  BY InvFacts
<1>1. /\ pc = "insert" /\ left = 0 /\ pc' = "idle" /\ added' = Append(added, route)
      /\ tree' = [tree EXCEPT ![node].path = path, ![node].handler = route]
      /\ UNCHANGED <<node, path, left, route, inited>>
  BY NoneLeft DEF InsertRest
<1>2. /\ InsertInv /\ Hole = node /\ route \in Routes /\ Len(route) \in Nat
      /\ Len(path) \in Nat /\ Len(path) > 0 /\ Len(tree[1].path) \in Nat
  BY <1>1, InsertFacts
<1>3. AtNode.path = <<>> /\ AtNode.children = <<>> /\ AtNode.handler = None
  BY <1>1, <1>2 DEF InsertInv
<1>4. ~AtNode.wild /\ (node = 1 => Len(tree) = 1) /\ Range(AtNode.children) = {}
  BY <1>1, <1>3, InsertFacts
<1> DEFINE x == [AtNode EXCEPT !.path = path, !.handler = route]
<1>5. /\ x \in NodeSet(Len(tree)) /\ x.handler = route /\ x.path = path
      /\ x.wild = AtNode.wild /\ x.type = AtNode.type /\ x.indices = AtNode.indices
      /\ x.children = AtNode.children
  BY <1>0, <1>2 DEF NodeSet
<1>6. tree' = [tree EXCEPT ![node] = x]
  BY <1>0, <1>1
<1> HIDE DEF x
<1>7. /\ IsTree(tree') /\ Len(tree') = Len(tree) /\ DOMAIN tree' = DOMAIN tree
      /\ tree'[node] = x /\ \A k \in DOMAIN tree \ {node} : tree'[k] = tree[k]
  BY <1>0, <1>5, <1>6 DEF IsTree
<1>8. Grown(tree, tree', node)
  BY <1>0, <1>7 DEF Grown
<1>9. Hole' = 0
  BY <1>1 DEF Hole
<1>10. Len(tree) + 1 .. Len(tree') = {} /\ 0 \notin DOMAIN tree
  BY <1>0, <1>7
<1>11. HandlerInv(tree')
  <2>1. node = 1 => Len(x.handler) = Len(x.path)
    <3> SUFFICES ASSUME node = 1 PROVE Len(x.handler) = Len(x.path)
      OBVIOUS
    <3>1. Len(route) = Len(tree[1].path) + Len(path)
      BY <1>2 DEF InsertInv
    <3>2. Len(tree[1].path) = 0
      BY <1>0, <1>3
    <3> QED BY <1>2, <1>5, <3>1, <3>2
  <2>2. node # 1 => Len(x.handler) > Len(tree[1].path)
    BY <1>2, <1>5 DEF InsertInv
  <2>3. HandlerInv(tree)
    BY <1>0 DEF TreeInv
  <2>4. node = 1 => tree'[1] = x
    BY <1>7
  <2> QED BY <1>0, <1>4, <1>7, <1>8, <1>10, <2>1, <2>2, <2>3, <2>4, HandlersLong
<1>12. Holds(x) <=> Holds(AtNode)
  BY <1>5 DEF Holds
<1>13. NodeInv(x, node = Hole')
  <2>1. node # Hole'
    BY <1>0, <1>9, <1>10
  <2>2. WildCount(path) = IF Holds(x) THEN 1 ELSE 0
    BY <1>1, <1>2, <1>12 DEF InsertInv, Holds
  <2> QED BY <1>0, <1>4, <1>5, <2>1, <2>2 DEF NodeInv
<1>14. Range(x.children) = {}
  BY <1>4, <1>5
<1>15. node = 1 => x.type \in {"static", "root"}
  BY <1>0, <1>5 DEF TreeInv
<1>16. \A k \in DOMAIN tree \ {node} : k # Hole /\ k # Hole'
  BY <1>2, <1>9, <1>10
<1>17. TreeInv(tree', Hole')
  BY <1>0, <1>4, <1>7, <1>8, <1>10, <1>11, <1>12, <1>13, <1>14, <1>15, <1>16, GrowInv
<1>18. HandlersOf(tree') = HandlersOf(tree) \cup ({route} \ {None})
  <2>1. {tree'[k].handler : k \in {node} \cup (Len(tree) + 1 .. Len(tree'))} = {route}
    BY <1>5, <1>7, <1>10
  <2>2. {route} \ {None} = ({tree[node].handler} \cup {route}) \ {None}
    BY <1>0, <1>3
  <2>3. Adds(tree, tree', node, {route})
    BY <2>1, <2>2 DEF Adds
  <2> QED BY <1>0, <1>8, <2>3, HandlersGrow
<1>19. added' \in Seq(Routes) /\ Range(added') = HandlersOf(tree')
  BY <1>1, <1>2, <1>18, Accepted
<1>20. TypeInv'
  BY <1>0, <1>1, <1>7, <1>19 DEF TypeInv, IsTree
<1> QED BY <1>1, <1>17, <1>19, <1>20 DEF RadixInv, WalkerVisitsAll

\* A node that is cut holds no wildcard.
LEMMA SplitFacts ==
    ASSUME RadixInv, Splitting
    PROVE  /\ pc = "add" /\ Hole = 0 /\ AddInv
           /\ Shared \in 0 .. Len(AtNode.path) /\ Shared < Len(AtNode.path)
           /\ ~Holds(AtNode) /\ AtNode.type \in {"static", "root"}
           /\ SubSeq(path, 1, Shared) \in Seq(STRING) /\ Len(SubSeq(path, 1, Shared)) = Shared
           /\ WildCount(SubSeq(path, 1, Shared)) = 0
           /\ Drop(AtNode.path, Shared) \in Seq(STRING)
           /\ WildCount(Drop(AtNode.path, Shared)) = 0
<1>1. /\ AtNode \in NodeSet(Len(tree)) /\ NodeInv(AtNode, node = Hole) /\ node \in DOMAIN tree
      /\ path \in Seq(STRING) /\ AtNode.path \in Seq(STRING) /\ DOMAIN tree = 1 .. Len(tree)
  BY InvFacts
<1>2. pc = "add" /\ Hole = 0 /\ AddInv /\ Shared < Len(AtNode.path)
  BY DEF Splitting, Hole, RadixInv
<1>3. /\ Shared \in 0 .. Len(path) /\ Shared \in 0 .. Len(AtNode.path)
      /\ SubSeq(path, 1, Shared) = SubSeq(AtNode.path, 1, Shared)
      /\ Len(AtNode.path) <= Len(path)
         /\ SubSeq(AtNode.path, 1, Len(AtNode.path)) = SubSeq(path, 1, Len(AtNode.path))
         => Shared = Len(AtNode.path)
  BY <1>1, CommonFacts DEF Shared
<1>4. ~Holds(AtNode)
  <2> SUFFICES ASSUME Holds(AtNode) PROVE FALSE
    OBVIOUS
  <2>1. IsPrefix(AtNode.path, path)
    BY <1>2 DEF AddInv, SameWild
  <2>2. Shared = Len(AtNode.path)
    BY <1>3, <2>1, Zenon DEF IsPrefix
  <2> QED BY <1>1, <1>2, <2>2
<1>5. AtNode.type \in {"static", "root"}
  <2>1. AtNode.type \in {"static", "root", "param", "catchall"}
    BY <1>1 DEF NodeSet
  <2>2. AtNode.type # "param" /\ (AtNode.type = "catchall" => AtNode.wild)
    BY <1>4 DEF Holds
  <2>3. AtNode.path # <<>>
    <3>1. Len(AtNode.path) # 0
      BY <1>1, <1>2, <1>3
    <3> QED BY <3>1
  <2> QED BY <1>1, <2>1, <2>2, <2>3 DEF NodeInv
<1>6. SubSeq(path, 1, Shared) \in Seq(STRING) /\ Len(SubSeq(path, 1, Shared)) = Shared
  BY <1>1, <1>3, TakePath
<1>7. Drop(AtNode.path, Shared) \in Seq(STRING)
  BY <1>1, <1>3, DropPath
<1>8. WildCount(AtNode.path) = 0
  <2>1. node # Hole
    BY <1>1, <1>2
  <2> QED BY <1>1, <1>4, <2>1 DEF NodeInv
<1>9. WildCount(AtNode.path)
        = WildCount(SubSeq(path, 1, Shared)) + WildCount(Drop(AtNode.path, Shared))
  BY <1>1, <1>3, CountCut
<1>10. WildCount(SubSeq(path, 1, Shared)) \in Nat
       /\ WildCount(Drop(AtNode.path, Shared)) \in Nat
  BY <1>6, <1>7, CountType
<1>11. WildCount(SubSeq(path, 1, Shared)) = 0
       /\ WildCount(Drop(AtNode.path, Shared)) = 0
  BY <1>8, <1>9, <1>10
<1> QED BY <1>2, <1>3, <1>4, <1>5, <1>6, <1>7, <1>11

\* The node is cut: the halves of a split, and the tree with both.
SplitUpper ==
    [OnlyChild(AtNode, Len(tree) + 1) EXCEPT
        !.path = SubSeq(path, 1, Shared), !.wild = FALSE,
        !.handler = None, !.ixMem = "palloc",
        !.indices = <<AtNode.path[Shared + 1]>>]
SplitLower ==
    [AtNode EXCEPT !.path = Drop(@, Shared), !.type = "static", !.priority = @ - 1,
                   !.cap = Len(AtNode.children), !.ixMem = "palloc", !.chMem = "palloc"]

LEMMA UpperFacts ==
    ASSUME RadixInv, Split
    PROVE  /\ SplitUpper \in NodeSet(Len(tree) + 1)
           /\ SplitUpper.path = SubSeq(path, 1, Shared) /\ SplitUpper.wild = FALSE
           /\ SplitUpper.handler = None /\ SplitUpper.children = <<Len(tree) + 1>>
           /\ SplitUpper.indices = <<AtNode.path[Shared + 1]>>
           /\ SplitUpper.type = AtNode.type /\ SplitUpper.priority = AtNode.priority
<1> DEFINE k == Len(tree) + 1
           ix == <<AtNode.path[Shared + 1]>>
           held == OnlyChild(AtNode, k)
           p == SubSeq(path, 1, Shared)
<1>1. /\ Len(tree) \in Nat /\ Len(tree) >= 1 /\ AtNode \in NodeSet(Len(tree))
      /\ AtNode.path \in Seq(STRING)
  BY InvFacts
<1>2. Shared \in 0 .. Len(AtNode.path) /\ Shared < Len(AtNode.path) /\ p \in Seq(STRING)
  BY SplitFacts DEF Split
<1>3. ix \in Seq(STRING)
  <2>1. Shared + 1 \in 1 .. Len(AtNode.path)
    BY <1>1, <1>2
  <2> QED BY <1>1, <2>1
<1>4. k \in Nat /\ k \in 2 .. k /\ AtNode \in NodeSet(k)
  BY <1>1, NodeGrows
<1>5. SplitUpper = [held EXCEPT !.path = p, !.wild = FALSE, !.handler = None,
                                !.ixMem = "palloc", !.indices = ix]
  BY DEF SplitUpper
<1> HIDE DEF k, ix, p
<1>6. /\ held \in NodeSet(k) /\ held.children = <<k>> /\ held.type = AtNode.type
  BY <1>4, OnlyChildFacts
<1>7. held.priority = AtNode.priority
  BY <1>4 DEF OnlyChild, NodeSet
<1> HIDE DEF held
<1>8. /\ SplitUpper \in NodeSet(k) /\ SplitUpper.path = p /\ SplitUpper.wild = FALSE
      /\ SplitUpper.handler = None /\ SplitUpper.children = <<k>> /\ SplitUpper.indices = ix
      /\ SplitUpper.type = AtNode.type /\ SplitUpper.priority = AtNode.priority
  BY <1>2, <1>3, <1>5, <1>6, <1>7 DEF NodeSet
<1> QED BY <1>8 DEF k, ix, p

LEMMA LowerFacts ==
    ASSUME RadixInv, Split
    PROVE  /\ SplitLower \in NodeSet(Len(tree) + 1)
           /\ SplitLower.path = Drop(AtNode.path, Shared) /\ SplitLower.wild = AtNode.wild
           /\ SplitLower.handler = AtNode.handler /\ SplitLower.children = AtNode.children
           /\ SplitLower.indices = AtNode.indices /\ SplitLower.type = "static"
           /\ SplitLower.priority = AtNode.priority - 1
<1>1. Len(tree) \in Nat /\ Len(tree) + 1 \in Nat /\ AtNode \in NodeSet(Len(tree) + 1)
  BY InvFacts, NodeGrows
<1>2. Drop(AtNode.path, Shared) \in Seq(STRING)
  BY SplitFacts DEF Split
<1>3. AtNode.priority - 1 \in Int /\ Len(AtNode.children) \in Int
  BY <1>1 DEF NodeSet
<1> QED BY <1>1, <1>2, <1>3 DEF NodeSet, SplitLower

LEMMA SplitTree ==
    ASSUME RadixInv, Split
    PROVE  /\ Grown(tree, tree', node) /\ DOMAIN tree' = 1 .. Len(tree) + 1 /\ IsTree(tree')
           /\ Len(tree') = Len(tree) + 1
           /\ tree'[node] = SplitUpper /\ tree'[Len(tree) + 1] = SplitLower
           /\ \A k \in DOMAIN tree \ {node} : tree'[k] = tree[k]
<1>1. tree' = Append([tree EXCEPT ![node] = SplitUpper], SplitLower)
  BY DEF Split, SplitUpper, SplitLower
<1>2. IsTree(tree) /\ node \in DOMAIN tree
  BY InvFacts
<1>3. SplitUpper \in NodeSet(Len(tree) + 1) /\ SplitLower \in NodeSet(Len(tree) + 1)
  BY UpperFacts, LowerFacts
<1>4. /\ Grown(tree, tree', node) /\ DOMAIN tree' = 1 .. Len(tree) + 1
      /\ Len(tree') = Len(tree) + 1
      /\ tree'[node] = SplitUpper /\ tree'[Len(tree) + 1] = SplitLower
  BY <1>1, <1>2, <1>3, GrowOne
<1> QED BY <1>4 DEF Grown

LEMMA SplitStep ==
    ASSUME RadixInv, Split
    PROVE  RadixInv'
<1> DEFINE m == Len(tree)
           upper == SplitUpper
           lower == SplitLower
<1>0. /\ IsTree(tree) /\ TypeInv /\ TreeInv(tree, Hole) /\ 1 \in DOMAIN tree
      /\ DOMAIN tree = 1 .. m /\ node \in DOMAIN tree /\ AtNode = tree[node]
      /\ m \in Nat /\ m >= 1
      /\ AtNode \in NodeSet(m) /\ NodeInv(AtNode, node = Hole)
      /\ AtNode.path \in Seq(STRING) /\ AtNode.children \in Seq(2 .. m)
      /\ path \in Seq(STRING)
  BY InvFacts
<1>1. /\ pc = "add" /\ Hole = 0 /\ AddInv
      /\ Shared \in 0 .. Len(AtNode.path) /\ Shared < Len(AtNode.path)
      /\ ~Holds(AtNode) /\ AtNode.type \in {"static", "root"}
      /\ SubSeq(path, 1, Shared) \in Seq(STRING) /\ Len(SubSeq(path, 1, Shared)) = Shared
      /\ WildCount(SubSeq(path, 1, Shared)) = 0
      /\ Drop(AtNode.path, Shared) \in Seq(STRING)
      /\ WildCount(Drop(AtNode.path, Shared)) = 0
  BY SplitFacts DEF Split
<1>2. UNCHANGED <<pc, node, path, left, route, added, inited>>
  BY DEF Split
<1>3. Hole' = 0
  BY <1>1, <1>2 DEF Hole
<1>5. /\ upper \in NodeSet(m + 1) /\ upper.path = SubSeq(path, 1, Shared)
      /\ upper.wild = FALSE /\ upper.handler = None /\ upper.children = <<m + 1>>
      /\ Len(upper.indices) = 1 /\ upper.type = AtNode.type
  BY UpperFacts
<1>6. /\ lower \in NodeSet(m + 1) /\ lower.path = Drop(AtNode.path, Shared)
      /\ lower.wild = AtNode.wild /\ lower.handler = AtNode.handler
      /\ lower.children = AtNode.children /\ lower.indices = AtNode.indices
      /\ lower.type = "static"
  BY LowerFacts
<1>7. /\ Grown(tree, tree', node) /\ Len(tree') = m + 1 /\ DOMAIN tree' = 1 .. m + 1
      /\ tree'[node] = upper /\ tree'[m + 1] = lower /\ IsTree(tree')
      /\ \A k \in DOMAIN tree \ {node} : tree'[k] = tree[k]
  BY SplitTree
<1> HIDE DEF m, upper, lower
<1>8. ~Holds(upper) /\ ~Holds(lower)
  BY <1>1, <1>5, <1>6 DEF Holds
<1>9. NodeInv(upper, node = Hole') /\ NodeInv(lower, m + 1 = Hole')
  <2>1. NodeInv(upper, node = Hole')
    BY <1>1, <1>5, <1>8 DEF NodeInv
  <2> QED BY <1>0, <1>1, <1>6, <1>8, <2>1 DEF NodeInv
<1>10. Range(upper.children) = {m + 1}
  BY <1>5 DEF Range
<1>11. /\ \A c \in Range(upper.children) : Holds(tree'[c]) <=> upper.wild
       /\ \A c \in Range(lower.children) : Holds(tree'[c]) <=> lower.wild
  <2>1. ASSUME NEW c \in Range(lower.children) PROVE Holds(tree'[c]) <=> lower.wild
    <3>1. c \in DOMAIN tree /\ (Holds(tree[c]) <=> AtNode.wild)
      BY <1>0, <1>6, InvFacts DEF TreeInv, LinkInv
    <3>2. Holds(tree'[c]) <=> Holds(tree[c])
      BY <1>0, <1>1, <1>7, <1>8, <3>1
    <3> QED BY <1>6, <3>1, <3>2
  <2> QED BY <1>5, <1>7, <1>8, <1>10, <2>1
<1>12. m + 1 .. m + 1 = {m + 1}
  BY <1>0
<1>13. HandlerInv(tree')
  <2>1. HandlerInv(tree)
    BY <1>0 DEF TreeInv
  <2>2. AtNode.handler # None => Len(AtNode.handler) > Len(tree'[1].path)
    <3> SUFFICES ASSUME AtNode.handler # None PROVE Len(AtNode.handler) > Len(tree'[1].path)
      OBVIOUS
    <3>1. CASE node = 1
      <4>1. Len(AtNode.handler) = Len(AtNode.path) /\ Len(tree'[1].path) = Shared
        BY <1>0, <1>1, <1>5, <1>7, <2>1, <3>1 DEF HandlerInv
      <4> QED BY <1>0, <1>1, <4>1
    <3>2. CASE node # 1
      <4>1. node \in 2 .. Len(tree) /\ tree'[1] = tree[1]
        BY <1>0, <1>7, <3>2 DEF m
      <4> QED BY <1>0, <2>1, <4>1 DEF HandlerInv
    <3> QED BY <3>1, <3>2
  <2>3. node = 1 => Len(tree'[1].path) <= Len(tree[1].path)
    BY <1>0, <1>1, <1>5, <1>7
  <2>4. \A k \in Len(tree) + 1 .. Len(tree') :
            tree'[k].handler # None => Len(tree'[k].handler) > Len(tree'[1].path)
    BY <1>6, <1>7, <1>12, <2>2 DEF m
  <2>5. tree'[node].handler = None
    BY <1>5, <1>7
  <2> QED BY <1>0, <1>7, <2>1, <2>3, <2>4, <2>5, HandlersLong
<1>14. ASSUME NEW S \in SUBSET DOMAIN tree', node \in S, Closed(tree', S)
       PROVE  m + 1 .. m + 1 \subseteq S /\ Range(tree[node].children) \subseteq S
  <2>1. m + 1 \in S
    BY <1>7, <1>10, <1>14 DEF Closed
  <2>2. Range(AtNode.children) \subseteq S
    BY <1>6, <1>7, <1>14, <2>1 DEF Closed
  <2> QED BY <1>0, <1>12, <2>1, <2>2
<1>15. node = 1 => upper.type \in {"static", "root"}
  BY <1>1, <1>5
<1>16. \A k \in DOMAIN tree \ {node} : k # Hole /\ k # Hole'
  BY <1>0, <1>1, <1>3
<1>17. TreeInv(tree', Hole')
  <2>1. \A k \in {node} \cup (Len(tree) + 1 .. Len(tree')) :
            /\ NodeInv(tree'[k], k = Hole')
            /\ \A c \in Range(tree'[k].children) : Holds(tree'[c]) <=> tree'[k].wild
    BY <1>7, <1>9, <1>11, <1>12 DEF m
  <2>2. Holds(tree'[node]) <=> Holds(tree[node])
    BY <1>0, <1>1, <1>7, <1>8
  <2>3. \A S \in SUBSET DOMAIN tree' : node \in S /\ Closed(tree', S)
            => Len(tree) + 1 .. Len(tree') \subseteq S /\ Range(tree[node].children) \subseteq S
    BY <1>7, <1>14 DEF m
  <2> QED BY <1>0, <1>7, <1>13, <1>15, <1>16, <2>1, <2>2, <2>3, GrowInv
<1>18. HandlersOf(tree') = HandlersOf(tree)
  <2>1. {tree'[k].handler : k \in {node} \cup (Len(tree) + 1 .. Len(tree'))}
          = {None, AtNode.handler}
    BY <1>5, <1>6, <1>7, <1>12 DEF m
  <2>2. {tree'[k].handler : k \in {node} \cup (Len(tree) + 1 .. Len(tree'))} \ {None}
          = ({tree[node].handler} \cup {}) \ {None}
    BY <1>0, <2>1
  <2>3. IsTree(tree) /\ node \in DOMAIN tree /\ Grown(tree, tree', node)
    BY <1>0, <1>7
  <2>4. Adds(tree, tree', node, {})
    BY <2>2 DEF Adds
  <2> QED BY <2>3, <2>4, HandlersSame
<1>19. Range(added') = HandlersOf(tree')
  BY <1>2, <1>18 DEF RadixInv
<1>20. AtNode' = upper
  BY <1>2, <1>7 DEF AtNode
<1>21. AddInv'
  <2>1. left' = WildCount(path') - (IF Holds(AtNode') THEN 1 ELSE 0)
    BY <1>1, <1>2, <1>8, <1>20 DEF AddInv
  <2>2. node # 1 => tree'[1] = tree[1]
    BY <1>0, <1>7
  <2> QED BY <1>1, <1>2, <1>8, <1>20, <2>1, <2>2 DEF AddInv
<1>22. TypeInv'
  BY <1>0, <1>2, <1>7 DEF TypeInv, IsTree
<1> QED BY <1>1, <1>2, <1>17, <1>19, <1>21, <1>22 DEF RadixInv, WalkerVisitsAll

\* The node with one more child, and its index.
ChildAdded(nd, c, i, room, mem) ==
    LET held == IF nd.children = <<>> THEN OnlyChild(nd, c)
                ELSE [nd EXCEPT !.children = Append(@, c), !.cap = room, !.chMem = mem]
    IN [held EXCEPT !.indices = Append(@, i), !.ixMem = "malloc"]

LEMMA WithChild ==
    ASSUME NEW m \in Nat, NEW nd \in NodeSet(m), NEW c \in 2 .. m, NEW i \in STRING,
           NEW room \in Int, NEW mem \in Heaps
    PROVE  LET x == ChildAdded(nd, c, i, room, mem)
           IN /\ x \in NodeSet(m) /\ x.path = nd.path /\ x.wild = nd.wild
              /\ x.type = nd.type /\ x.handler = nd.handler
              /\ Len(x.children) = Len(nd.children) + 1
              /\ Range(x.children) = Range(nd.children) \cup {c}
              /\ Len(x.indices) = Len(nd.indices) + 1
<1> DEFINE held == IF nd.children = <<>> THEN OnlyChild(nd, c)
                   ELSE [nd EXCEPT !.children = Append(@, c), !.cap = room, !.chMem = mem]
           x == ChildAdded(nd, c, i, room, mem)
<1>1. nd.children \in Seq(2 .. m) /\ nd.indices \in Seq(STRING)
  BY DEF NodeSet
<1>2. /\ held \in NodeSet(m) /\ held.path = nd.path /\ held.wild = nd.wild
      /\ held.type = nd.type /\ held.handler = nd.handler /\ held.indices = nd.indices
      /\ Len(held.children) = Len(nd.children) + 1
      /\ Range(held.children) = Range(nd.children) \cup {c}
  <2>1. CASE nd.children = <<>>
    <3>1. held = OnlyChild(nd, c)
      BY <2>1
    <3>2. Len(nd.children) = 0 /\ Range(nd.children) = {} /\ Len(<<c>>) = 1 /\ Range(<<c>>) = {c}
      BY <2>1 DEF Range
    <3> DEFINE one == OnlyChild(nd, c)
    <3>3. /\ one \in NodeSet(m) /\ one.children = <<c>> /\ one.path = nd.path
          /\ one.wild = nd.wild /\ one.type = nd.type /\ one.indices = nd.indices
          /\ one.handler = nd.handler
      BY OnlyChildFacts
    <3> HIDE DEF held, one
    <3>4. held = one
      BY <3>1 DEF one
    <3> QED BY <3>2, <3>3, <3>4
  <2>2. CASE nd.children # <<>>
    <3> DEFINE kids == Append(nd.children, c)
    <3>1. kids \in Seq(2 .. m) /\ Range(kids) = Range(nd.children) \cup {c}
          /\ Len(kids) = Len(nd.children) + 1
      BY <1>1, AppendRange
    <3>2. held = [nd EXCEPT !.children = kids, !.cap = room, !.chMem = mem]
      BY <2>2 DEF NodeSet
    <3> HIDE DEF held, kids
    <3> QED BY <3>1, <3>2 DEF NodeSet, Heaps
  <2> QED BY <2>1, <2>2
<1> DEFINE ix == Append(nd.indices, i)
<1>3. ix \in Seq(STRING) /\ Len(ix) = Len(nd.indices) + 1
  BY <1>1
<1>4. x = [held EXCEPT !.indices = Append(@, i), !.ixMem = "malloc"]
  BY Zenon DEF ChildAdded
<1> HIDE DEF held, x
<1>5. x = [held EXCEPT !.indices = ix, !.ixMem = "malloc"]
  BY <1>2, <1>4 DEF NodeSet
<1> HIDE DEF ix
<1>6. /\ x \in NodeSet(m) /\ x.path = nd.path /\ x.wild = nd.wild
      /\ x.type = nd.type /\ x.handler = nd.handler
      /\ Len(x.children) = Len(nd.children) + 1
      /\ Range(x.children) = Range(nd.children) \cup {c}
      /\ Len(x.indices) = Len(nd.indices) + 1
  BY <1>2, <1>3, <1>5 DEF NodeSet
<1> QED BY <1>6 DEF x

\* The node with one more child, and the tree before the child has its place.
AppendGrown ==
    LET held == IF AtNode.children = <<>> THEN OnlyChild(AtNode, Len(tree) + 1)
                ELSE [AtNode EXCEPT !.children = Append(@, Len(tree) + 1),
                                    !.cap = IF Full THEN 2 * @ ELSE @,
                                    !.chMem = IF Full THEN "malloc" ELSE @]
    IN [held EXCEPT !.indices = Append(@, Rest[1]), !.ixMem = "malloc"]
AppendMid == Append([tree EXCEPT ![node] = AppendGrown], Blank)

LEMMA ChildLists ==
    ASSUME NEW m \in Nat, NEW nd \in NodeSet(m), NEW c \in 2 .. m, NEW i \in STRING,
           NEW room \in Int, NEW mem \in Heaps
    PROVE  LET x == ChildAdded(nd, c, i, room, mem)
           IN /\ x.children = Append(nd.children, c) /\ x.indices = Append(nd.indices, i)
              /\ x.priority = nd.priority
<1> DEFINE held == IF nd.children = <<>> THEN OnlyChild(nd, c)
                   ELSE [nd EXCEPT !.children = Append(@, c), !.cap = room, !.chMem = mem]
           x == ChildAdded(nd, c, i, room, mem)
           kids == Append(nd.children, c)
           ix == Append(nd.indices, i)
<1>1. nd.children \in Seq(2 .. m) /\ nd.indices \in Seq(STRING)
  BY DEF NodeSet
<1>2. kids \in Seq(2 .. m) /\ ix \in Seq(STRING)
  BY <1>1
<1>3. /\ held \in NodeSet(m) /\ held.children = kids /\ held.indices = nd.indices
      /\ held.priority = nd.priority
  <2>1. CASE nd.children = <<>>
    <3> DEFINE one == <<c>>
               two == 2
    <3>1. one \in Seq(2 .. m) /\ kids = one /\ two \in Int
      BY <2>1
    <3>2. held = [nd EXCEPT !.children = one, !.cap = two, !.chMem = "palloc"]
      BY <2>1 DEF OnlyChild
    <3> HIDE DEF one, two, held, kids
    <3> QED BY <3>1, <3>2 DEF NodeSet
  <2>2. CASE nd.children # <<>>
    <3>1. held = [nd EXCEPT !.children = kids, !.cap = room, !.chMem = mem]
      BY <2>2 DEF NodeSet
    <3> HIDE DEF held, kids
    <3> QED BY <1>2, <3>1 DEF NodeSet, Heaps
  <2> QED BY <2>1, <2>2
<1>4. x = [held EXCEPT !.indices = Append(@, i), !.ixMem = "malloc"]
  BY Zenon DEF ChildAdded
<1> HIDE DEF held, x, kids
<1>5. x = [held EXCEPT !.indices = ix, !.ixMem = "malloc"]
  BY <1>3, <1>4 DEF NodeSet
<1> HIDE DEF ix
<1>6. x.children = kids /\ x.indices = ix /\ x.priority = nd.priority
  BY <1>2, <1>3, <1>5 DEF NodeSet
<1> QED BY <1>6 DEF x, kids, ix

LEMMA AppendFacts ==
    ASSUME RadixInv, AppendChild
    PROVE  /\ AppendGrown.children = Append(AtNode.children, Len(tree) + 1)
           /\ AppendGrown.indices = Append(AtNode.indices, Rest[1])
           /\ AppendGrown.wild = AtNode.wild /\ AppendGrown.type = AtNode.type
           /\ AppendGrown.path = AtNode.path /\ AppendGrown.handler = AtNode.handler
           /\ AppendGrown.priority = AtNode.priority
           /\ AppendGrown \in NodeSet(Len(tree) + 1)
           /\ Len(AppendGrown.children) = Len(AtNode.children) + 1
           /\ Range(AppendGrown.children) = Range(AtNode.children) \cup {Len(tree) + 1}
           /\ Len(AppendGrown.indices) = Len(AtNode.indices) + 1
           /\ Grown(tree, AppendMid, node) /\ Len(AppendMid) = Len(tree) + 1
           /\ IsTree(AppendMid) /\ DOMAIN AppendMid = 1 .. Len(tree) + 1
           /\ AppendMid[node] = AppendGrown /\ AppendMid[Len(tree) + 1] = Blank
           /\ \A k \in DOMAIN tree \ {node} : AppendMid[k] = tree[k]
           /\ tree' = Raise(AppendMid, node, Len(AppendGrown.indices))
<1> DEFINE m == Len(tree)
           k == m + 1
           first == Rest[1]
           room == IF Full THEN 2 * AtNode.cap ELSE AtNode.cap
           mem == IF Full THEN "malloc" ELSE AtNode.chMem
           x == ChildAdded(AtNode, k, first, room, mem)
<1>1. /\ IsTree(tree) /\ node \in DOMAIN tree /\ m \in Nat /\ m >= 1
      /\ AtNode \in NodeSet(m)
  BY InvFacts
<1>2. first \in STRING
  <2>1. Descending
    BY DEF AppendChild, NoWayDown
  <2>2. Rest \in Seq(STRING) /\ Rest # <<>>
    BY <2>1, DescendFacts
  <2> QED BY <2>2
<1>3. k \in Nat /\ k \in 2 .. k /\ m <= k
  BY <1>1
<1>4. AtNode \in NodeSet(k)
  BY <1>1, <1>3, NodeGrows
<1>5. room \in Int /\ mem \in Heaps
  BY <1>4 DEF NodeSet, Heaps
<1>6. AppendGrown = x
  <2> DEFINE a == [AtNode EXCEPT !.children = Append(@, k),
                                 !.cap = IF Full THEN 2 * @ ELSE @,
                                 !.chMem = IF Full THEN "malloc" ELSE @]
             b == [AtNode EXCEPT !.children = Append(@, k), !.cap = room, !.chMem = mem]
  <2>1. a = b
    BY <1>4 DEF NodeSet
  <2> HIDE DEF a
  <2>2. AppendGrown = [IF AtNode.children = <<>> THEN OnlyChild(AtNode, k) ELSE a
                         EXCEPT !.indices = Append(@, Rest[1]), !.ixMem = "malloc"]
    BY Zenon DEF AppendGrown, a
  <2> QED BY <2>1, <2>2, Zenon DEF ChildAdded
<1> HIDE DEF k, first, room, mem
<1>7. /\ x.children = Append(AtNode.children, k) /\ x.indices = Append(AtNode.indices, first)
      /\ x.priority = AtNode.priority
  BY <1>2, <1>3, <1>4, <1>5, ChildLists
<1>8. /\ x \in NodeSet(k) /\ x.path = AtNode.path /\ x.wild = AtNode.wild
      /\ x.type = AtNode.type /\ x.handler = AtNode.handler
      /\ Len(x.children) = Len(AtNode.children) + 1
      /\ Range(x.children) = Range(AtNode.children) \cup {k}
      /\ Len(x.indices) = Len(AtNode.indices) + 1
  BY <1>2, <1>3, <1>4, <1>5, WithChild
<1> HIDE DEF x
<1>9. AppendGrown \in NodeSet(Len(tree) + 1) /\ Blank \in NodeSet(Len(tree) + 1)
  BY <1>3, <1>6, <1>8, BlankNode DEF k
<1>10. /\ Grown(tree, AppendMid, node) /\ Len(AppendMid) = Len(tree) + 1
       /\ IsTree(AppendMid) /\ DOMAIN AppendMid = 1 .. Len(tree) + 1
       /\ AppendMid[node] = AppendGrown /\ AppendMid[Len(tree) + 1] = Blank
       /\ \A n \in DOMAIN tree \ {node} : AppendMid[n] = tree[n]
  <2>1. /\ Grown(tree, AppendMid, node) /\ Len(AppendMid) = Len(tree) + 1
        /\ DOMAIN AppendMid = 1 .. Len(tree) + 1
        /\ AppendMid[node] = AppendGrown /\ AppendMid[Len(tree) + 1] = Blank
    BY <1>1, <1>9, GrowOne DEF AppendMid
  <2> QED BY <2>1 DEF Grown
<1>11. tree' = Raise(AppendMid, node, Len(AppendGrown.indices))
  BY DEF AppendChild, AppendMid, AppendGrown
<1> QED BY <1>6, <1>7, <1>8, <1>9, <1>10, <1>11 DEF k, first

LEMMA AppendChildStep ==
    ASSUME RadixInv, AppendChild
    PROVE  RadixInv'
<1> DEFINE m == Len(tree)
           grown == AppendGrown
           mid == AppendMid
           pos == Len(grown.indices)
<1>0. /\ IsTree(tree) /\ TypeInv /\ TreeInv(tree, Hole) /\ 1 \in DOMAIN tree
      /\ DOMAIN tree = 1 .. m /\ node \in DOMAIN tree /\ AtNode = tree[node]
      /\ m \in Nat /\ m >= 1
      /\ AtNode \in NodeSet(m) /\ NodeInv(AtNode, node = Hole)
      /\ AtNode.children \in Seq(2 .. m) /\ AtNode.indices \in Seq(STRING)
      /\ \A c \in Range(AtNode.children) : c \in DOMAIN tree
  BY InvFacts
<1>1. Descending /\ ~AtNode.wild
  BY DEF AppendChild, NoWayDown
<1>2. /\ Rest \in Seq(STRING) /\ Rest # <<>> /\ left = WildCount(Rest)
      /\ route \in Routes /\ Len(route) >= Len(tree[1].path) + Len(Rest)
      /\ Hole = 0
  BY <1>1, DescendFacts
<1> HIDE DEF grown, mid
<1>3. /\ tree' = Raise(mid, node, pos) /\ node' = m + 1 /\ pc' = "insert" /\ path' = Rest
      /\ UNCHANGED <<left, route, added, inited>>
  <2>1. tree' = Raise(mid, node, pos)
    BY AppendFacts DEF grown, mid
  <2> QED BY <2>1 DEF AppendChild
<1>4. Hole' = m + 1
  BY <1>3 DEF Hole
<1> HIDE DEF m
<1>6. /\ grown \in NodeSet(m + 1) /\ grown.path = AtNode.path /\ grown.wild = AtNode.wild
      /\ grown.type = AtNode.type /\ grown.handler = AtNode.handler
      /\ Len(grown.children) = Len(AtNode.children) + 1
      /\ Range(grown.children) = Range(AtNode.children) \cup {m + 1}
      /\ Len(grown.indices) = Len(AtNode.indices) + 1
  BY AppendFacts DEF grown, m
<1>7. Blank \in NodeSet(m + 1) /\ ~Holds(Blank) /\ WildCount(Blank.path) = 0
  BY <1>0, BlankNode
<1>8. /\ Grown(tree, mid, node) /\ Len(mid) = m + 1 /\ DOMAIN mid = 1 .. m + 1
      /\ mid[node] = grown /\ mid[m + 1] = Blank /\ IsTree(mid)
      /\ \A k \in DOMAIN tree \ {node} : mid[k] = tree[k]
  BY AppendFacts DEF grown, mid, m
<1>9. Blank.children = <<>> /\ Blank.indices = <<>> /\ Blank.handler = None
      /\ Blank.path = <<>> /\ Blank.wild = FALSE /\ Blank.type = "static"
      /\ Range(Blank.children) = {}
  BY DEF Blank, Range
<1>10. Holds(grown) <=> Holds(AtNode)
  BY <1>6 DEF Holds
<1>11. NodeInv(grown, node = Hole') /\ NodeInv(Blank, m + 1 = Hole')
  <2>1. node # Hole /\ node # Hole'
    BY <1>0, <1>2, <1>4
  <2>2. Len(grown.indices) <= Len(grown.children)
    <3>1. Len(AtNode.indices) <= Len(AtNode.children)
      BY <1>0 DEF NodeInv
    <3>2. Len(AtNode.indices) \in Nat /\ Len(AtNode.children) \in Nat
      BY <1>0
    <3> QED BY <1>6, <3>1, <3>2
  <2>3. NodeInv(grown, node = Hole')
    BY <1>0, <1>1, <1>6, <1>10, <2>1, <2>2 DEF NodeInv
  <2>4. NodeInv(Blank, m + 1 = Hole')
    BY <1>4, <1>7, <1>9 DEF NodeInv
  <2> QED BY <2>3, <2>4
<1>12. m + 1 .. m + 1 = {m + 1}
  BY <1>0
<1>13. \A c \in Range(grown.children) : Holds(mid[c]) <=> grown.wild
  <2> SUFFICES ASSUME NEW c \in Range(grown.children) PROVE ~Holds(mid[c])
    BY <1>1, <1>6
  <2>1. CASE c = m + 1
    BY <1>7, <1>8, <2>1
  <2>2. CASE c # m + 1
    <3>1. c \in Range(AtNode.children)
      BY <1>6, <2>2
    <3>2. c \in DOMAIN tree /\ ~Holds(tree[c])
      BY <1>0, <1>1, <3>1 DEF TreeInv, LinkInv
    <3> QED BY <1>0, <1>8, <1>10, <3>2
  <2> QED BY <2>1, <2>2
<1>14. HandlerInv(mid)
  <2>1. HandlerInv(tree)
    BY <1>0 DEF TreeInv
  <2>2. \A k \in Len(tree) + 1 .. Len(mid) :
            mid[k].handler # None => Len(mid[k].handler) > Len(mid[1].path)
    BY <1>8, <1>9, <1>12 DEF m
  <2>3. mid[node].handler = AtNode.handler /\ mid[node].path = AtNode.path
    BY <1>6, <1>8
  <2>4. node = 1 => /\ mid[1].handler # None => Len(mid[1].handler) = Len(mid[1].path)
                    /\ Len(mid[1].path) <= Len(tree[1].path)
    <3>1. Len(tree[1].path) \in Nat
      <4>1. tree[1].path \in Seq(STRING)
        BY <1>0, InvFacts DEF NodeSet
      <4> QED BY <4>1
    <3> QED BY <1>0, <2>1, <2>3, <3>1 DEF HandlerInv
  <2>5. node # 1 /\ mid[node].handler # None => Len(mid[node].handler) > Len(tree[1].path)
    <3> SUFFICES ASSUME node # 1, mid[node].handler # None
                 PROVE  Len(mid[node].handler) > Len(tree[1].path)
      OBVIOUS
    <3>1. node \in 2 .. Len(tree)
      BY <1>0 DEF m
    <3> QED BY <1>0, <2>1, <2>3, <3>1 DEF HandlerInv
  <2> QED BY <1>0, <1>8, <2>1, <2>2, <2>4, <2>5, HandlersLong
<1>15. ASSUME NEW S \in SUBSET DOMAIN mid, node \in S, Closed(mid, S)
       PROVE  m + 1 .. m + 1 \subseteq S /\ Range(tree[node].children) \subseteq S
  <2>1. Range(grown.children) \subseteq S
    BY <1>8, <1>15 DEF Closed
  <2> QED BY <1>0, <1>6, <1>12, <2>1
<1>16. TreeInv(mid, Hole')
  <2>1. \A k \in {node} \cup (Len(tree) + 1 .. Len(mid)) :
            /\ NodeInv(mid[k], k = Hole')
            /\ \A c \in Range(mid[k].children) : Holds(mid[c]) <=> mid[k].wild
    BY <1>8, <1>9, <1>11, <1>12, <1>13 DEF m
  <2>2. Holds(mid[node]) <=> Holds(tree[node])
    BY <1>0, <1>8, <1>10
  <2>3. \A S \in SUBSET DOMAIN mid : node \in S /\ Closed(mid, S)
            => Len(tree) + 1 .. Len(mid) \subseteq S /\ Range(tree[node].children) \subseteq S
    BY <1>8, <1>15 DEF m
  <2>4. node = 1 => mid[node].type \in {"static", "root"}
    BY <1>0, <1>6, <1>8 DEF TreeInv
  <2>5. \A k \in DOMAIN tree \ {node} : k # Hole /\ k # Hole'
    BY <1>0, <1>2, <1>4
  <2> QED BY <1>0, <1>8, <1>14, <2>1, <2>2, <2>3, <2>4, <2>5, GrowInv
<1>17. HandlersOf(mid) = HandlersOf(tree)
  <2>1. {mid[k].handler : k \in {node} \cup (Len(tree) + 1 .. Len(mid))} = {None, AtNode.handler}
    BY <1>6, <1>8, <1>9, <1>12 DEF m
  <2>2. {mid[k].handler : k \in {node} \cup (Len(tree) + 1 .. Len(mid))} \ {None}
          = ({tree[node].handler} \cup {}) \ {None}
    BY <1>0, <2>1
  <2>3. IsTree(tree) /\ node \in DOMAIN tree /\ Grown(tree, mid, node)
    BY <1>0, <1>8
  <2>4. Adds(tree, mid, node, {})
    BY <2>2 DEF Adds
  <2> QED BY <2>3, <2>4, HandlersSame
<1>18. Similar(mid, tree')
  <2>1. pos \in DOMAIN mid[node].children /\ pos <= Len(mid[node].indices)
    <3>1. grown.children \in Seq(2 .. m + 1) /\ grown.indices \in Seq(STRING)
      BY <1>6 DEF NodeSet
    <3>2. pos \in Nat /\ pos >= 1 /\ pos <= Len(grown.children)
      <4>1. Len(AtNode.indices) \in Nat /\ Len(grown.indices) = Len(AtNode.indices) + 1
        BY <1>0, <1>6
      <4>2. Len(grown.indices) <= Len(grown.children)
        BY <1>11 DEF NodeInv
      <4> QED BY <4>1, <4>2
    <3>3. pos \in 1 .. Len(grown.children) /\ pos <= pos
      BY <3>1, <3>2
    <3> QED BY <1>8, <3>1, <3>3
  <2>2. node \in DOMAIN mid
    BY <1>0, <1>8
  <2> HIDE DEF pos
  <2> QED BY <1>3, <1>8, <2>1, <2>2, RaiseFacts
<1>19. /\ TreeInv(tree', Hole') /\ HandlersOf(tree') = HandlersOf(mid)
       /\ DOMAIN tree' = DOMAIN mid
  BY <1>8, <1>16, <1>18, SimilarInv
<1>20. /\ IsTree(tree') /\ Len(tree') = m + 1 /\ Alike(Blank, tree'[m + 1])
       /\ tree'[1].path = tree[1].path /\ tree'[m + 1] \in NodeSet(m + 1)
  <2>1. IsTree(tree') /\ Len(tree') = m + 1 /\ \A k \in DOMAIN mid : Alike(mid[k], tree'[k])
    BY <1>8, <1>18 DEF Similar
  <2>2. m + 1 \in DOMAIN mid /\ 1 \in DOMAIN mid /\ m + 1 \in DOMAIN tree'
    BY <1>0, <1>8, <1>19
  <2>3. mid[1].path = tree[1].path
    BY <1>0, <1>6, <1>8
  <2>4. tree'[m + 1] \in NodeSet(m + 1)
    BY <2>1, <2>2, TreeDomain
  <2> QED BY <1>8, <2>1, <2>2, <2>3, <2>4 DEF Alike
<1>21. AtNode' = tree'[m + 1]
  BY <1>3 DEF AtNode
<1>22. InsertInv'
  <2>1. /\ AtNode'.path = <<>> /\ AtNode'.handler = None /\ AtNode'.type # "param"
        /\ AtNode'.type # "catchall" /\ Len(AtNode'.children) = 0
    <3>1. Len(<<>>) = 0
      OBVIOUS
    <3> QED BY <1>9, <1>20, <1>21, <3>1 DEF Alike
  <2>2. AtNode'.children \in Seq(2 .. m + 1)
        /\ AtNode'.type \in {"static", "root", "param", "catchall"}
    BY <1>20, <1>21 DEF NodeSet
  <2>3. AtNode'.children = <<>>
    BY <2>1, <2>2
  <2>4. node' # 1 /\ Len(route') >= Len(tree'[1].path) + Len(path')
    BY <1>0, <1>2, <1>3, <1>20
  <2> QED BY <1>2, <1>3, <2>1, <2>2, <2>3, <2>4 DEF InsertInv
<1>23. Range(added') = HandlersOf(tree')
  BY <1>3, <1>17, <1>19 DEF RadixInv
<1>24. TypeInv'
  <2>1. node' \in DOMAIN tree'
    BY <1>0, <1>3, <1>8, <1>19
  <2> QED BY <1>0, <1>2, <1>3, <1>20, <2>1 DEF TypeInv, IsTree
<1> QED BY <1>3, <1>19, <1>22, <1>23, <1>24 DEF RadixInv, WalkerVisitsAll

\* A segment with one wildcard, where it begins.
LEMMA SegmentCount ==
    ASSUME NEW p \in Seq(STRING), NEW w \in 1 .. Len(p), NEW e \in w .. Len(p),
           p[w] \in Wildcards, \A k \in w + 1 .. e : p[k] \notin Wildcards
    PROVE  /\ SubSeq(p, w, e) \in Seq(STRING) /\ Len(SubSeq(p, w, e)) = e - w + 1
           /\ WildCount(SubSeq(p, w, e)) = 1
<1> DEFINE s == SubSeq(p, w, e)
<1>1. s \in Seq(STRING) /\ Len(s) = e - w + 1 /\ \A k \in 1 .. e - w + 1 : s[k] = p[w + k - 1]
  OBVIOUS
<1> HIDE DEF s
<1>2. 1 \in 1 .. Len(s) /\ s[1] \in Wildcards
  <2>1. 1 \in 1 .. e - w + 1 /\ w + 1 - 1 = w
    OBVIOUS
  <2> QED BY <1>1, <2>1
<1>3. \A j \in 1 .. Len(s) : s[j] \in Wildcards => j = 1
  <2> SUFFICES ASSUME NEW j \in 1 .. Len(s), j # 1 PROVE s[j] \notin Wildcards
    OBVIOUS
  <2>1. j \in 1 .. e - w + 1 /\ w + j - 1 \in w + 1 .. e
    BY <1>1
  <2> QED BY <1>1, <2>1
<1> QED BY <1>1, <1>2, <1>3, CountSome DEF s

\* A path up to the end of the segment that has its first wildcard.
LEMMA FirstSegment ==
    ASSUME NEW p \in Seq(STRING), NEW w \in 1 .. Len(p), NEW e \in w .. Len(p),
           p[w] \in Wildcards, \A k \in w + 1 .. e : p[k] \notin Wildcards,
           \A k \in 1 .. w - 1 : p[k] \notin Wildcards
    PROVE  /\ WildCount(SubSeq(p, 1, w - 1)) = 0
           /\ WildCount(p) = 1 + WildCount(Drop(p, e))
<1> DEFINE s == SubSeq(p, 1, e)
           b == SubSeq(p, 1, w - 1)
<1>1. w \in Nat /\ e \in Nat /\ e \in 0 .. Len(p) /\ w - 1 \in 0 .. Len(p) /\ 1 <= w /\ w <= e
  OBVIOUS
<1>2. /\ s \in Seq(STRING) /\ Len(s) = e /\ \A k \in 1 .. e : s[k] = p[k]
      /\ b \in Seq(STRING) /\ Len(b) = w - 1 /\ \A k \in 1 .. w - 1 : b[k] = p[k]
  BY <1>1, TakePath
<1> HIDE DEF s, b
<1>3. WildCount(b) = 0
  BY <1>2, CountSome
<1>4. WildCount(s) = 1
  <2>1. w \in 1 .. Len(s) /\ s[w] \in Wildcards
    BY <1>1, <1>2
  <2>2. \A j \in 1 .. Len(s) : s[j] \in Wildcards => j = w
    <3> SUFFICES ASSUME NEW j \in 1 .. Len(s), j # w PROVE s[j] \notin Wildcards
      OBVIOUS
    <3>1. j \in 1 .. e /\ (j \in 1 .. w - 1 \/ j \in w + 1 .. e)
      BY <1>1, <1>2
    <3> QED BY <1>2, <3>1
  <2> QED BY <1>2, <2>1, <2>2, CountSome
<1>5. WildCount(p) = WildCount(s) + WildCount(Drop(p, e))
  BY <1>1, CountCut DEF s
<1> QED BY <1>3, <1>4, <1>5 DEF b

\* The path at a wildcard that fits.
LEMMA WildFitsFacts ==
    ASSUME RadixInv, Inserting, WildFits
    PROVE  /\ Wild \in 1 .. Len(path) /\ path[Wild] \in Wildcards
           /\ End \in Wild + 2 .. Len(path) + 1
           /\ \A k \in 1 .. Wild - 1 : path[k] \notin Wildcards
           /\ \A k \in Wild + 1 .. End - 1 : path[k] \notin Wildcards
           /\ AtNode.children = <<>> /\ ~AtNode.wild /\ ~Holds(AtNode)
           /\ AtNode.type \in {"static", "root"}
           /\ (node = 1 => Len(tree) = 1) /\ Range(AtNode.children) = {}
           /\ Hole = node /\ pc = "insert" /\ InsertInv /\ left = WildCount(path)
           /\ Wild > 1 => AtNode.path = <<>> /\ AtNode.handler = None
           /\ WildCount(AtNode.path) = 0
           /\ left = 1 + WildCount(Drop(path, End - 1))
<1>0. path \in Seq(STRING) /\ AtNode = tree[node] /\ NodeInv(AtNode, node = Hole)
  BY InvFacts
<1>1. /\ pc = "insert" /\ left > 0 /\ AtNode.children = <<>> /\ End - Wild >= 2
      /\ \A k \in Wild + 1 .. End - 1 : path[k] \notin Wildcards
  BY DEF Inserting, WildFits
<1>2. /\ InsertInv /\ Hole = node /\ ~Holds(AtNode) /\ AtNode.type \in {"static", "root"}
      /\ left = WildCount(path) /\ ~AtNode.wild /\ (node = 1 => Len(tree) = 1)
      /\ Range(AtNode.children) = {} /\ Len(path) \in Nat
  BY <1>1, InsertFacts
<1>3. /\ Wild \in 1 .. Len(path) /\ path[Wild] \in Wildcards
      /\ \A k \in 1 .. Wild - 1 : path[k] \notin Wildcards
      /\ End \in Wild + 1 .. Len(path) + 1
  <2>1. WildCount(path) > 0
    BY <1>1, <1>2
  <2> QED BY <1>0, <2>1, WildFacts DEF Wild, End
<1>4. End \in Wild + 2 .. Len(path) + 1
  BY <1>1, <1>2, <1>3
<1>5. Wild > 1 => AtNode.path = <<>> /\ AtNode.handler = None
  <2> SUFFICES ASSUME Wild > 1 PROVE AtNode.path = <<>> /\ AtNode.handler = None
    OBVIOUS
  <2>1. 1 \in 1 .. Wild - 1
    BY <1>3
  <2> QED BY <1>2, <1>3, <2>1 DEF InsertInv
<1>6. WildCount(AtNode.path) = 0
  BY <1>0, <1>2 DEF NodeInv
<1>7. left = 1 + WildCount(Drop(path, End - 1))
  <2>1. End - 1 \in Wild .. Len(path)
    BY <1>2, <1>3, <1>4
  <2>2. WildCount(path) = 1 + WildCount(Drop(path, End - 1))
    BY <1>0, <1>1, <1>3, <2>1, FirstSegment
  <2> QED BY <1>2, <2>2
<1> QED BY <1>1, <1>2, <1>3, <1>4, <1>5, <1>6, <1>7

\* The node above a new parameter.
ParamAbove ==
    [OnlyChild(AtNode, Len(tree) + 1) EXCEPT
        !.path = IF Wild > 1 THEN SubSeq(path, 1, Wild - 1) ELSE @, !.wild = TRUE]

LEMMA ParamAboveFacts ==
    ASSUME RadixInv, Inserting, WildFits, NEW m \in Nat, Len(tree) + 1 <= m
    PROVE  /\ ParamAbove \in NodeSet(m) /\ ParamAbove.children = <<Len(tree) + 1>>
           /\ ParamAbove.wild = TRUE /\ ParamAbove.handler = AtNode.handler
           /\ ParamAbove.type = AtNode.type /\ Len(ParamAbove.indices) = 0
           /\ Wild > 1 => Len(ParamAbove.path) = Wild - 1
           /\ Wild = 1 => ParamAbove.path = AtNode.path
           /\ WildCount(ParamAbove.path) = 0
<1> DEFINE c == Len(tree) + 1
           held == OnlyChild(AtNode, c)
           p == IF Wild > 1 THEN SubSeq(path, 1, Wild - 1) ELSE AtNode.path
           x == ParamAbove
<1>0. /\ AtNode \in NodeSet(Len(tree)) /\ Len(tree) \in Nat /\ 1 \in DOMAIN tree
      /\ DOMAIN tree = 1 .. Len(tree) /\ path \in Seq(STRING) /\ AtNode.path \in Seq(STRING)
      /\ NodeInv(AtNode, node = Hole) /\ AtNode.indices \in Seq(STRING)
  BY InvFacts
<1>1. /\ Wild \in 1 .. Len(path) /\ \A k \in 1 .. Wild - 1 : path[k] \notin Wildcards
      /\ AtNode.children = <<>> /\ WildCount(AtNode.path) = 0
  BY WildFitsFacts
<1>2. c \in 2 .. m /\ AtNode \in NodeSet(m)
  BY <1>0, NodeGrows
<1>3. /\ held \in NodeSet(m) /\ held.children = <<c>> /\ held.path = AtNode.path
      /\ held.wild = AtNode.wild /\ held.type = AtNode.type
      /\ held.indices = AtNode.indices /\ held.handler = AtNode.handler
  <2> HIDE DEF c
  <2> QED BY <1>2, OnlyChildFacts
<1>4. /\ p \in Seq(STRING) /\ WildCount(p) = 0
      /\ Wild > 1 => Len(p) = Wild - 1
      /\ Wild = 1 => p = AtNode.path
  <2>1. CASE Wild > 1
    <3> DEFINE b == SubSeq(path, 1, Wild - 1)
    <3>1. Wild - 1 \in 0 .. Len(path)
      BY <1>1
    <3>2. b \in Seq(STRING) /\ Len(b) = Wild - 1 /\ \A k \in 1 .. Wild - 1 : b[k] = path[k]
      BY <1>0, <3>1, TakePath
    <3> HIDE DEF b
    <3>3. WildCount(b) = 0
      BY <1>1, <3>2, CountSome
    <3>4. p = b
      BY <2>1 DEF b
    <3> HIDE DEF p
    <3> QED BY <2>1, <3>2, <3>3, <3>4
  <2>2. CASE Wild = 1
    BY <1>0, <1>1, <2>2
  <2> QED BY <1>1, <2>1, <2>2
<1>5. x = [held EXCEPT !.path = p, !.wild = TRUE]
  BY <1>3 DEF ParamAbove
<1> HIDE DEF held, p, x
<1>6. /\ x \in NodeSet(m) /\ x.children = <<c>> /\ x.path = p /\ x.wild = TRUE
      /\ x.handler = AtNode.handler /\ x.type = AtNode.type /\ x.indices = AtNode.indices
  BY <1>3, <1>4, <1>5 DEF NodeSet
<1>7. Len(AtNode.indices) = 0
  <2>1. Len(AtNode.indices) <= Len(AtNode.children) /\ Len(AtNode.children) = 0
    BY <1>0, <1>1 DEF NodeInv
  <2>2. Len(AtNode.indices) \in Nat
    BY <1>0
  <2> QED BY <2>1, <2>2
<1> QED BY <1>4, <1>6, <1>7 DEF x

\* A tree with a new parameter, and possibly a node for what follows it.
LEMMA ParamTree ==
    ASSUME RadixInv, Inserting, WildFits, NEW u, NEW next,
           Grown(tree, u, node), u[node] = ParamAbove,
           next \notin DOMAIN tree,
           Holds(u[Len(tree) + 1]), ~u[Len(tree) + 1].wild,
           u[Len(tree) + 1].handler = None,
           NodeInv(u[Len(tree) + 1], Len(tree) + 1 = next),
           \/ /\ Len(u) = Len(tree) + 1
              /\ Range(u[Len(tree) + 1].children) = {}
           \/ /\ Len(u) = Len(tree) + 2
              /\ Range(u[Len(tree) + 1].children) = {Len(tree) + 2}
              /\ NodeInv(u[Len(tree) + 2], Len(tree) + 2 = next)
              /\ ~Holds(u[Len(tree) + 2]) /\ u[Len(tree) + 2].handler = None
              /\ Range(u[Len(tree) + 2].children) = {}
    PROVE  /\ TreeInv(u, next) /\ HandlersOf(u) = HandlersOf(tree)
           /\ Len(route) >= Len(u[1].path) + Len(path) - (Wild - 1)
<1> DEFINE m == Len(tree)
           above == u[node]
           new == Len(tree) + 1 .. Len(u)
<1>0. /\ IsTree(tree) /\ TreeInv(tree, Hole) /\ 1 \in DOMAIN tree
      /\ DOMAIN tree = 1 .. m /\ node \in DOMAIN tree /\ AtNode = tree[node]
      /\ m \in Nat /\ path \in Seq(STRING) /\ Len(path) \in Nat
      /\ NodeInv(AtNode, node = Hole) /\ tree[1] \in NodeSet(m)
      /\ \A k \in DOMAIN tree \ {node} : u[k] = tree[k]
  BY InvFacts DEF Grown
<1>1. /\ Wild \in 1 .. Len(path) /\ ~Holds(AtNode)
      /\ AtNode.type \in {"static", "root"}
      /\ (node = 1 => Len(tree) = 1) /\ Range(AtNode.children) = {}
      /\ Hole = node /\ pc = "insert" /\ InsertInv
      /\ Wild > 1 => AtNode.path = <<>> /\ AtNode.handler = None
  BY WildFitsFacts
<1>2. /\ above.children = <<m + 1>> /\ above.wild = TRUE /\ above.handler = AtNode.handler
      /\ above.type = AtNode.type /\ Len(above.indices) = 0
      /\ Wild > 1 => Len(above.path) = Wild - 1
      /\ Wild = 1 => above.path = AtNode.path
      /\ WildCount(above.path) = 0
  <2>1. m + 1 \in Nat /\ m + 1 <= m + 1
    BY <1>0
  <2> QED BY <2>1, ParamAboveFacts
<1>3. new \subseteq {m + 1, m + 2} /\ \A k \in new : u[k].handler = None
  <2>1. CASE Len(u) = m + 1
    <3>1. new = {m + 1}
      BY <1>0, <2>1
    <3> QED BY <3>1
  <2>2. CASE Len(u) = m + 2
    <3>1. new = {m + 1, m + 2} /\ m + 2 # m + 1
      BY <1>0, <2>2
    <3>2. u[m + 2].handler = None
      BY <1>0, <2>2
    <3> QED BY <3>1, <3>2
  <2> QED BY <2>1, <2>2
<1>4. Range(above.children) = {m + 1} /\ Len(above.children) = 1
  BY <1>2 DEF Range
<1>5. ~Holds(above)
  BY <1>1, <1>2 DEF Holds
<1>6. NodeInv(above, node = next)
  <2>1. above.type # "param" /\ above.type # "catchall"
    BY <1>1, <1>2
  <2> QED BY <1>2, <1>4, <1>5, <2>1 DEF NodeInv
<1>7. \A c \in Range(above.children) : Holds(u[c]) <=> above.wild
  BY <1>2, <1>4
<1> HIDE DEF above
<1>8. ASSUME NEW k \in new
      PROVE  /\ NodeInv(u[k], k = next)
             /\ \A c \in Range(u[k].children) : Holds(u[c]) <=> u[k].wild
  <2>1. CASE Len(u) = m + 1
    <3>1. k = m + 1 /\ Len(u) # m + 2
      BY <1>0, <2>1
    <3>2. Range(u[m + 1].children) = {}
      BY <3>1
    <3> QED BY <3>1, <3>2
  <2>2. CASE Len(u) = m + 2
    <3>1. k \in {m + 1, m + 2} /\ Len(u) # m + 1
      BY <1>0, <2>2
    <3>2. /\ Range(u[m + 1].children) = {m + 2} /\ NodeInv(u[m + 2], m + 2 = next)
          /\ ~Holds(u[m + 2]) /\ Range(u[m + 2].children) = {}
      BY <3>1
    <3> QED BY <3>1, <3>2
  <2> QED BY <2>1, <2>2
<1>9. HandlerInv(tree) /\ Len(tree[1].path) \in Nat
  <2>1. tree[1].path \in Seq(STRING)
    BY <1>0 DEF NodeSet
  <2> QED BY <1>0, <2>1 DEF TreeInv
<1>10. HandlerInv(u)
  <2>1. node = 1 => (above.handler # None => Len(above.handler) = Len(above.path))
    <3> SUFFICES ASSUME node = 1, above.handler # None
                 PROVE  Len(above.handler) = Len(above.path)
      OBVIOUS
    <3>1. Wild = 1 /\ above.path = AtNode.path
      BY <1>0, <1>1, <1>2
    <3> QED BY <1>0, <1>2, <1>9, <3>1 DEF HandlerInv
  <2>2. node # 1 /\ above.handler # None => Len(above.handler) > Len(tree[1].path)
    <3> SUFFICES ASSUME node # 1, above.handler # None
                 PROVE  Len(above.handler) > Len(tree[1].path)
      OBVIOUS
    <3>1. node \in 2 .. Len(tree)
      BY <1>0
    <3> QED BY <1>0, <1>2, <1>9, <3>1 DEF HandlerInv
  <2>3. node = 1 => u[1] = above
    BY DEF above
  <2>4. u[node] = above
    BY DEF above
  <2> QED BY <1>0, <1>1, <1>3, <1>9, <2>1, <2>2, <2>3, <2>4, HandlersLong
<1>11. ASSUME NEW S \in SUBSET DOMAIN u, node \in S, Closed(u, S)
       PROVE  new \subseteq S /\ Range(tree[node].children) \subseteq S
  <2>1. m + 1 \in S
    BY <1>4, <1>11 DEF Closed, above
  <2>2. Len(u) = m + 2 => m + 2 \in S
    <3> SUFFICES ASSUME Len(u) = m + 2 PROVE m + 2 \in S
      OBVIOUS
    <3>1. Len(u) # m + 1
      BY <1>0
    <3>2. Range(u[m + 1].children) = {m + 2}
      BY <3>1
    <3> QED BY <1>11, <2>1, <3>2 DEF Closed
  <2>3. new \subseteq S
    <3>1. CASE Len(u) = m + 1
      BY <1>0, <2>1, <3>1
    <3>2. CASE Len(u) = m + 2
      <4>1. new = {m + 1, m + 2}
        BY <1>0, <3>2
      <4> QED BY <2>1, <2>2, <3>2, <4>1
    <3> QED BY <3>1, <3>2
  <2> QED BY <1>0, <1>1, <2>3
<1>12. TreeInv(u, next)
  <2>1. \A k \in {node} \cup new :
            /\ NodeInv(u[k], k = next)
            /\ \A c \in Range(u[k].children) : Holds(u[c]) <=> u[k].wild
    <3>1. u[node] = above
      BY DEF above
    <3> QED BY <1>6, <1>7, <1>8, <3>1
  <2>2. Holds(u[node]) <=> Holds(tree[node])
    BY <1>0, <1>1, <1>5 DEF above
  <2>3. node = 1 => u[node].type \in {"static", "root"}
    BY <1>1, <1>2 DEF above
  <2>4. \A k \in DOMAIN tree \ {node} : k # Hole /\ k # next
    BY <1>1
  <2>5. IsTree(tree) /\ TreeInv(tree, Hole) /\ node \in DOMAIN tree
    BY <1>0
  <2>6. \A S \in SUBSET DOMAIN u : node \in S /\ Closed(u, S)
            => new \subseteq S /\ Range(tree[node].children) \subseteq S
    BY <1>11
  <2> QED BY <1>10, <2>1, <2>2, <2>3, <2>4, <2>5, <2>6, GrowInv
<1>13. HandlersOf(u) = HandlersOf(tree)
  <2>1. {u[k].handler : k \in {node} \cup (Len(tree) + 1 .. Len(u))} \ {None}
          = ({tree[node].handler} \cup {}) \ {None}
    BY <1>0, <1>2, <1>3 DEF above
  <2>2. IsTree(tree) /\ node \in DOMAIN tree /\ Grown(tree, u, node)
    BY <1>0
  <2> HIDE DEF new, m
  <2>3. Adds(tree, u, node, {})
    BY <2>1 DEF Adds
  <2> QED BY <2>2, <2>3, HandlersSame
<1>14. Len(route) >= Len(u[1].path) + Len(path) - (Wild - 1)
  <2>0. Len(route) \in Nat
    BY <1>1, InsertFacts
  <2>1. CASE node = 1
    <3>1. Len(route) = Len(AtNode.path) + Len(path)
      BY <1>0, <1>1, <2>1 DEF InsertInv
    <3>2. CASE Wild > 1
      <4>1. Len(AtNode.path) = 0 /\ Len(u[1].path) = Wild - 1
        BY <1>1, <1>2, <2>1, <3>2 DEF above
      <4> DEFINE a == Len(u[1].path)
                 b == Len(AtNode.path)
      <4>2. Len(route) = b + Len(path) /\ b = 0 /\ a = Wild - 1
        BY <3>1, <4>1
      <4> HIDE DEF a, b
      <4>3. Len(route) >= a + Len(path) - (Wild - 1)
        BY <1>0, <1>1, <4>2
      <4> QED BY <4>3 DEF a
    <3>3. CASE Wild = 1
      <4>1. u[1].path = AtNode.path
        BY <1>2, <2>1, <3>3 DEF above
      <4> DEFINE a == Len(u[1].path)
      <4>2. Len(route) = a + Len(path) /\ a \in Nat
        BY <1>0, <1>9, <2>1, <3>1, <4>1
      <4> HIDE DEF a
      <4>3. Len(route) >= a + Len(path) - (Wild - 1)
        BY <1>0, <3>3, <4>2
      <4> QED BY <4>3 DEF a
    <3>4. Wild > 1 \/ Wild = 1
      BY <1>0, <1>1
    <3> QED BY <3>2, <3>3, <3>4
  <2>2. CASE node # 1
    <3>1. Len(route) >= Len(tree[1].path) + Len(path) /\ u[1] = tree[1]
      BY <1>0, <1>1, <2>2 DEF InsertInv
    <3> DEFINE a == Len(u[1].path)
    <3>2. Len(route) >= a + Len(path) /\ a \in Nat
      BY <1>9, <3>1
    <3> HIDE DEF a
    <3>3. Len(route) >= a + Len(path) - (Wild - 1)
      BY <1>0, <1>1, <2>0, <3>2
    <3> QED BY <3>3 DEF a
  <2> QED BY <2>1, <2>2
<1> QED BY <1>12, <1>13, <1>14

\* A node that is new and has nothing yet: for what follows a parameter, or the
\* parameter itself.
FreshNode(type) == [Blank EXCEPT !.type = type, !.priority = 1]

LEMMA FreshFacts ==
    ASSUME NEW m \in Nat, NEW type \in {"static", "root", "param", "catchall"}
    PROVE  LET x == FreshNode(type)
           IN /\ x \in NodeSet(m) /\ x.type = type /\ x.path = <<>> /\ x.wild = FALSE
              /\ x.indices = <<>> /\ x.children = <<>> /\ x.handler = None
              /\ Len(x.indices) = 0 /\ Len(x.children) = 0 /\ Range(x.children) = {}
              /\ WildCount(x.path) = 0 /\ x.priority = 1
<1> DEFINE x == FreshNode(type)
           one == 1
<1>1. Blank \in NodeSet(m) /\ WildCount(Blank.path) = 0
  BY BlankNode
<1>2. /\ Blank.path = <<>> /\ Blank.wild = FALSE /\ Blank.indices = <<>>
      /\ Blank.children = <<>> /\ Blank.handler = None
  BY DEF Blank
<1>3. one \in Int
  OBVIOUS
<1>4. x = [Blank EXCEPT !.type = type, !.priority = one]
  BY DEF FreshNode
<1> HIDE DEF x, one
<1>5. /\ x \in NodeSet(m) /\ x.type = type /\ x.path = Blank.path /\ x.wild = Blank.wild
      /\ x.indices = Blank.indices /\ x.children = Blank.children /\ x.handler = Blank.handler
      /\ x.priority = one
  BY <1>1, <1>3, <1>4 DEF NodeSet
<1>6. Len(<<>>) = 0 /\ Range(<<>>) = {}
  BY DEF Range
<1> QED BY <1>1, <1>2, <1>5, <1>6 DEF x, one

\* What is left to insert after a parameter.
LEMMA ParamPlaced ==
    ASSUME RadixInv, Inserting, WildFits,
           IsTree(tree'), TreeInv(tree', node'), HandlersOf(tree') = HandlersOf(tree),
           node' \in DOMAIN tree', node' # 1,
           AtNode'.path = <<>>, AtNode'.children = <<>>, AtNode'.handler = None,
           path' \in Seq(STRING), path' # <<>>, left' = left - 1,
           \/ /\ AtNode'.type = "static" /\ left' = WildCount(path')
           \/ /\ AtNode'.type = "param" /\ left' = 0 /\ WildCount(path') = 1,
           Len(route) >= Len(tree'[1].path) + Len(path'),
           UNCHANGED <<pc, route, added, inited>>
    PROVE  RadixInv'
<1>1. TypeInv /\ Range(added) = HandlersOf(tree)
  BY DEF RadixInv
<1>2. pc = "insert" /\ InsertInv /\ Hole' = node'
  BY WildFitsFacts DEF Hole
<1>3. left' \in Int
  BY <1>1 DEF TypeInv
<1>4. TypeInv'
  BY <1>1, <1>3 DEF TypeInv, IsTree
<1>5. AtNode'.type \in {"static", "root", "param"}
  OBVIOUS
<1>6. InsertInv'
  BY <1>2, <1>5 DEF InsertInv
<1> QED BY <1>1, <1>2, <1>4, <1>6 DEF RadixInv, WalkerVisitsAll

\* The parameter ends the path.
LEMMA ParamLastTree ==
    ASSUME RadixInv, InsertParam, End > Len(path)
    PROVE  /\ Inserting /\ WildFits /\ pc' = pc /\ node' = Len(tree) + 1
           /\ IsTree(tree') /\ DOMAIN tree' = 1 .. Len(tree) + 1
           /\ Grown(tree, tree', node) /\ Len(tree') = Len(tree) + 1
           /\ tree'[node] = ParamAbove /\ tree'[Len(tree) + 1] = FreshNode("param")
           /\ \A k \in DOMAIN tree \ {node} : tree'[k] = tree[k]
<1> DEFINE m == Len(tree) + 1
<1>1. IsTree(tree) /\ node \in DOMAIN tree /\ m \in Nat /\ m <= m /\ Len(path) \in Nat
  <2>1. IsTree(tree) /\ node \in DOMAIN tree /\ Len(tree) \in Nat /\ Len(path) \in Nat
    BY InvFacts
  <2> QED BY <2>1
<1>2. Inserting /\ WildFits
  BY DEF InsertParam
<1>3. ~(End <= Len(path))
  BY <1>1, <1>2, WildFitsFacts
<1>4. /\ tree' = Append([tree EXCEPT ![node] = ParamAbove], FreshNode("param"))
      /\ pc' = pc /\ node' = m
  BY <1>3, Zenon DEF InsertParam, ParamAbove, FreshNode
<1>5. ParamAbove \in NodeSet(m)
  BY <1>1, <1>2, ParamAboveFacts
<1>6. FreshNode("param") \in NodeSet(m)
  BY <1>1, FreshFacts
<1>7. /\ Grown(tree, tree', node) /\ DOMAIN tree' = 1 .. m /\ Len(tree') = m
      /\ tree'[node] = ParamAbove /\ tree'[m] = FreshNode("param")
  BY <1>1, <1>4, <1>5, <1>6, GrowOne
<1> QED BY <1>2, <1>4, <1>7 DEF Grown

LEMMA ParamLast ==
    ASSUME RadixInv, InsertParam, End > Len(path)
    PROVE  RadixInv'
<1> DEFINE m == Len(tree)
           below == FreshNode("param")
           u == tree'
<1>0. /\ IsTree(tree) /\ m \in Nat /\ node \in DOMAIN tree /\ DOMAIN tree = 1 .. m
      /\ path \in Seq(STRING) /\ 1 \in DOMAIN tree
  BY InvFacts
<1>1. /\ Inserting /\ WildFits /\ tree' = u /\ node' = m + 1 /\ path' = Drop(path, Wild - 1)
      /\ left' = left - 1 /\ UNCHANGED <<pc, route, added, inited>>
  <2>1. ~(End <= Len(path))
    BY <1>0, WildFitsFacts DEF InsertParam
  <2> QED BY <2>1, Zenon DEF InsertParam
<1>2. /\ Wild \in 1 .. Len(path) /\ path[Wild] \in Wildcards /\ End = Len(path) + 1
      /\ \A k \in Wild + 1 .. End - 1 : path[k] \notin Wildcards
      /\ left = 1 + WildCount(Drop(path, End - 1))
  <2>1. /\ Wild \in 1 .. Len(path) /\ path[Wild] \in Wildcards
        /\ End \in Wild + 2 .. Len(path) + 1
        /\ \A k \in Wild + 1 .. End - 1 : path[k] \notin Wildcards
        /\ left = 1 + WildCount(Drop(path, End - 1))
    BY <1>1, WildFitsFacts
  <2> QED BY <2>1
<1>3. path' \in Seq(STRING) /\ Len(path') = Len(path) - (Wild - 1) /\ WildCount(path') = 1
      /\ path' # <<>>
  <2>1. Wild - 1 \in 0 .. Len(path) /\ Wild - 1 + 1 = Wild /\ Len(path) \in Wild .. Len(path)
        /\ End - 1 = Len(path) /\ Len(path) - (Wild - 1) > 0
    BY <1>2
  <2>2. Drop(path, Wild - 1) = SubSeq(path, Wild, Len(path))
    BY <2>1 DEF Drop
  <2>3. \A k \in Wild + 1 .. Len(path) : path[k] \notin Wildcards
    BY <1>2, <2>1
  <2>4. WildCount(SubSeq(path, Wild, Len(path))) = 1
    BY <1>0, <1>2, <2>1, <2>3, SegmentCount
  <2>5. path' \in Seq(STRING) /\ Len(path') = Len(path) - (Wild - 1)
    BY <1>0, <1>1, <2>1, DropPath
  <2>6. WildCount(path') = 1
    BY <1>1, <2>2, <2>4
  <2> DEFINE k == Len(path) - (Wild - 1)
  <2>7. Len(path') = k /\ k > 0
    BY <2>1, <2>5
  <2> HIDE DEF k
  <2>8. path' # <<>>
    BY <2>7
  <2> QED BY <2>5, <2>6, <2>8
<1>4. left' = 0
  <2>1. Len(path) \in 0 .. Len(path) /\ End - 1 = Len(path)
    BY <1>0, <1>2
  <2>2. Drop(path, Len(path)) \in Seq(STRING) /\ Len(Drop(path, Len(path))) = 0
    BY <1>0, <2>1, DropPath
  <2>3. WildCount(Drop(path, Len(path))) = 0
    <3> DEFINE s == Drop(path, Len(path))
    <3>1. s \in Seq(STRING) /\ \A k \in 1 .. Len(s) : s[k] \notin Wildcards
      BY <2>2
    <3> HIDE DEF s
    <3>2. WildCount(s) = 0
      BY <3>1, CountSome
    <3> QED BY <3>2 DEF s
  <2> QED BY <1>1, <1>2, <2>1, <2>3
<1>5. /\ below \in NodeSet(m + 1) /\ below.type = "param" /\ below.path = <<>>
      /\ below.wild = FALSE /\ below.children = <<>> /\ below.handler = None
      /\ Len(below.indices) = 0 /\ Len(below.children) = 0 /\ Range(below.children) = {}
      /\ WildCount(below.path) = 0
  <2>1. m + 1 \in Nat
    BY <1>0
  <2> QED BY <2>1, FreshFacts
<1> HIDE DEF below, m
<1>7. /\ Grown(tree, u, node) /\ Len(u) = m + 1 /\ DOMAIN u = 1 .. m + 1
      /\ u[node] = ParamAbove /\ u[m + 1] = below
  BY ParamLastTree DEF below, m
<1> HIDE DEF u
<1>8. Holds(below) /\ NodeInv(below, TRUE)
  BY <1>5 DEF Holds, NodeInv
<1>9. m + 1 \notin DOMAIN tree /\ m + 1 # 1 /\ m + 1 \in 1 .. m + 1
  BY <1>0
<1>10. /\ TreeInv(u, m + 1) /\ HandlersOf(u) = HandlersOf(tree)
       /\ Len(route) >= Len(u[1].path) + Len(path) - (Wild - 1)
  BY <1>1, <1>5, <1>7, <1>8, <1>9, ParamTree DEF m
<1>11. Len(route) >= Len(u[1].path) + Len(path')
  <2>1. u[1].path \in Seq(STRING) /\ route \in Seq(STRING)
    <3>1. u[1] \in NodeSet(Len(u))
      BY <1>7, TreeDomain DEF Grown
    <3> QED BY <3>1, InvFacts DEF NodeSet, TypeInv
  <2> DEFINE a == Len(u[1].path)
             r == Len(route)
             p == Len(path')
  <2>2. a \in Nat /\ r \in Nat /\ p = Len(path) - (Wild - 1)
    BY <1>3, <2>1
  <2>4. r >= a + Len(path) - (Wild - 1)
    BY <1>10
  <2>5. Len(path) \in Nat /\ Wild \in Nat
    BY <1>0, <1>2
  <2> HIDE DEF a, r, p
  <2>3. r >= a + p
    BY <2>2, <2>4, <2>5
  <2> QED BY <2>3 DEF a, r, p
<1>12. AtNode' = below
  BY <1>1, <1>7 DEF AtNode
<1>13. IsTree(tree')
  BY <1>1, <1>7 DEF Grown
<1> QED BY <1>1, <1>3, <1>4, <1>5, <1>7, <1>9, <1>10, <1>11, <1>12, <1>13, ParamPlaced

\* A parameter that something follows.
ParamHolder ==
    [OnlyChild(FreshNode("param"), Len(tree) + 2) EXCEPT !.path = SubSeq(path, Wild, End - 1)]

LEMMA ParamHolderFacts ==
    ASSUME RadixInv, InsertParam, End <= Len(path)
    PROVE  /\ ParamHolder \in NodeSet(Len(tree) + 2) /\ ParamHolder.type = "param"
           /\ ParamHolder.path = SubSeq(path, Wild, End - 1) /\ ParamHolder.wild = FALSE
           /\ ParamHolder.children = <<Len(tree) + 2>> /\ ParamHolder.handler = None
           /\ Len(ParamHolder.indices) = 0 /\ ParamHolder.priority = 1
<1> DEFINE k == Len(tree) + 2
           below == FreshNode("param")
           held == OnlyChild(below, k)
           name == SubSeq(path, Wild, End - 1)
           kids == <<k>>
<1>1. k \in Nat /\ k \in 2 .. k
  <2>1. Len(tree) \in Nat
    BY InvFacts
  <2> QED BY <2>1
<1>2. name \in Seq(STRING)
  <2>1. Inserting /\ WildFits
    BY DEF InsertParam
  <2>2. Wild \in 1 .. Len(path) /\ path \in Seq(STRING) /\ End \in Wild + 2 .. Len(path) + 1
    BY <2>1, WildFitsFacts, InvFacts
  <2>3. \A j \in Wild .. End - 1 : j \in 1 .. Len(path)
    BY <2>2
  <2>4. Wild \in Nat /\ End - 1 \in Int
    BY <2>2
  <2> QED BY <2>2, <2>3, <2>4
<1>3. ParamHolder = [held EXCEPT !.path = name]
  BY DEF ParamHolder
<1> HIDE DEF k, name
<1>4. /\ below \in NodeSet(k) /\ below.type = "param" /\ below.wild = FALSE
      /\ below.handler = None /\ Len(below.indices) = 0 /\ below.priority = 1
  BY <1>1, FreshFacts
<1> HIDE DEF below
<1>5. /\ held \in NodeSet(k) /\ held.children = kids /\ held.type = below.type
      /\ held.wild = below.wild /\ held.handler = below.handler
      /\ held.indices = below.indices
  BY <1>1, <1>4, OnlyChildFacts
<1>6. held.priority = below.priority
  BY <1>4 DEF OnlyChild, NodeSet
<1> HIDE DEF held, kids
<1>7. /\ ParamHolder \in NodeSet(k) /\ ParamHolder.type = held.type
      /\ ParamHolder.path = name /\ ParamHolder.wild = held.wild
      /\ ParamHolder.children = kids /\ ParamHolder.handler = held.handler
      /\ ParamHolder.indices = held.indices /\ ParamHolder.priority = held.priority
  BY <1>2, <1>3, <1>5 DEF NodeSet
<1> QED BY <1>4, <1>5, <1>6, <1>7 DEF k, kids, name

LEMMA ParamFollowedTree ==
    ASSUME RadixInv, InsertParam, End <= Len(path)
    PROVE  /\ Inserting /\ WildFits /\ pc' = pc /\ node' = Len(tree) + 2 /\ path'[1] = "/"
           /\ IsTree(tree') /\ DOMAIN tree' = 1 .. Len(tree) + 2
           /\ Grown(tree, tree', node) /\ Len(tree') = Len(tree) + 2
           /\ tree'[node] = ParamAbove /\ tree'[Len(tree) + 1] = ParamHolder
           /\ tree'[Len(tree) + 2] = FreshNode("static")
           /\ \A k \in DOMAIN tree \ {node} : tree'[k] = tree[k]
<1> DEFINE m == Len(tree) + 2
           rest == FreshNode("static")
<1>1. /\ IsTree(tree) /\ node \in DOMAIN tree /\ m \in Nat /\ Len(tree) + 1 <= m
      /\ Len(tree) + 1 + 1 = m /\ path \in Seq(STRING)
  <2>1. IsTree(tree) /\ node \in DOMAIN tree /\ Len(tree) \in Nat /\ path \in Seq(STRING)
    BY InvFacts
  <2> QED BY <2>1
<1>2. Inserting /\ WildFits
  BY DEF InsertParam
<1>3. /\ pc' = pc /\ node' = m /\ path' = Drop(path, End - 1)
  BY <1>1 DEF InsertParam
<1>4. tree' = [tree EXCEPT ![node] = ParamAbove] \o <<ParamHolder, rest>>
  <2>1. rest = [Blank EXCEPT !.priority = 1]
    <3>1. Blank.type = "static"
      BY DEF Blank
    <3> QED BY <3>1 DEF FreshNode, Blank
  <2> DEFINE param == [OnlyChild(FreshNode("param"), Len(tree) + 1 + 1) EXCEPT
                          !.path = SubSeq(path, Wild, End - 1)]
  <2>2. tree' = [tree EXCEPT ![node] = ParamAbove] \o <<param, [Blank EXCEPT !.priority = 1]>>
    BY Zenon DEF InsertParam, ParamAbove, FreshNode
  <2>3. param = ParamHolder
    BY <1>1 DEF ParamHolder
  <2> HIDE DEF param, rest
  <2> QED BY <2>1, <2>2, <2>3
<1>5. ParamAbove \in NodeSet(m)
  BY <1>1, <1>2, ParamAboveFacts
<1>6. rest \in NodeSet(m)
  BY <1>1, FreshFacts
<1>7. ParamHolder \in NodeSet(m)
  BY ParamHolderFacts
<1> HIDE DEF rest
<1>8. /\ Grown(tree, tree', node) /\ DOMAIN tree' = 1 .. m /\ Len(tree') = m
      /\ tree'[node] = ParamAbove /\ tree'[Len(tree) + 1] = ParamHolder /\ tree'[m] = rest
  <2> DEFINE u == [tree EXCEPT ![node] = ParamAbove] \o <<ParamHolder, rest>>
  <2>1. /\ ParamHolder \in NodeSet(Len(tree) + 2) /\ rest \in NodeSet(Len(tree) + 2)
        /\ ParamAbove \in NodeSet(Len(tree) + 2)
    BY <1>5, <1>6, <1>7
  <2>2. IsTree(tree) /\ node \in DOMAIN tree
    BY <1>1
  <2>3. /\ Grown(tree, u, node) /\ DOMAIN u = 1 .. Len(tree) + 2 /\ u[node] = ParamAbove
        /\ Len(u) = Len(tree) + 2
        /\ u[Len(tree) + 1] = ParamHolder /\ u[Len(tree) + 2] = rest
    BY <2>1, <2>2, GrowTwo
  <2>4. tree' = u
    BY <1>4
  <2> HIDE DEF u
  <2> QED BY <2>3, <2>4
<1>9. path'[1] = "/"
  <2> DEFINE e == End - 1
  <2>1. WildCount(path) > 0
    <3>1. left = WildCount(path) /\ left > 0
      BY <1>2, WildFitsFacts DEF Inserting
    <3> QED BY <3>1
  <2>2. path[End] = "/" /\ End \in Wild + 1 .. Len(path) + 1 /\ Wild \in 1 .. Len(path)
    BY <1>1, <2>1, WildFacts DEF End, Wild
  <2>3. e \in 0 .. Len(path) /\ 1 \in 1 .. Len(path) - e /\ e + 1 = End
    BY <1>1, <2>2
  <2>4. path' = Drop(path, e)
    BY <1>3
  <2> HIDE DEF e
  <2> QED BY <1>1, <2>2, <2>3, <2>4, DropPath
<1> QED BY <1>2, <1>3, <1>8, <1>9 DEF Grown, rest

LEMMA ParamFollowed ==
    ASSUME RadixInv, InsertParam, End <= Len(path)
    PROVE  RadixInv'
<1> DEFINE m == Len(tree)
           name == SubSeq(path, Wild, End - 1)
           param == ParamHolder
           rest == FreshNode("static")
           u == tree'
<1>0. /\ IsTree(tree) /\ m \in Nat /\ node \in DOMAIN tree /\ DOMAIN tree = 1 .. m
      /\ path \in Seq(STRING) /\ 1 \in DOMAIN tree
  BY InvFacts
<1>1. /\ Inserting /\ WildFits /\ path[Wild] = ":" /\ node' = m + 2
      /\ path' = Drop(path, End - 1)
      /\ left' = left - 1 /\ UNCHANGED <<pc, route, added, inited>>
  <2>1. Len(tree) + 1 + 1 = m + 2
    BY <1>0
  <2> QED BY <2>1 DEF InsertParam
<1>2. tree' = u
  OBVIOUS
<1>3. /\ Wild \in 1 .. Len(path) /\ path[Wild] \in Wildcards
      /\ End - 1 \in Wild .. Len(path) /\ End - 1 < Len(path)
      /\ \A k \in Wild + 1 .. End - 1 : path[k] \notin Wildcards
      /\ left = 1 + WildCount(Drop(path, End - 1))
  <2>1. /\ Wild \in 1 .. Len(path) /\ path[Wild] \in Wildcards
        /\ End \in Wild + 2 .. Len(path) + 1
        /\ \A k \in Wild + 1 .. End - 1 : path[k] \notin Wildcards
        /\ left = 1 + WildCount(Drop(path, End - 1))
    BY <1>1, WildFitsFacts
  <2> QED BY <2>1
<1>4. name \in Seq(STRING) /\ WildCount(name) = 1
  BY <1>0, <1>3, SegmentCount
<1> DEFINE e == End - 1
<1> HIDE DEF name
<1>5. path' \in Seq(STRING) /\ Len(path') = Len(path) - e /\ path' # <<>>
      /\ left' = WildCount(path') /\ e \in Nat /\ Wild \in Nat /\ Wild <= e
      /\ Len(path) \in Nat
  <2>1. e \in 0 .. Len(path) /\ e < Len(path) /\ e \in Nat /\ Wild \in Nat /\ Wild <= e
    BY <1>0, <1>3
  <2>2. path' = Drop(path, e)
    BY <1>1
  <2>3. left = 1 + WildCount(path') /\ left' = left - 1
    BY <1>1, <1>3
  <2> HIDE DEF e
  <2>4. path' \in Seq(STRING) /\ Len(path') = Len(path) - e
    BY <1>0, <2>1, <2>2, DropPath
  <2>5. Len(path') > 0
    BY <1>0, <2>1, <2>4
  <2>6. path' # <<>>
    BY <2>5
  <2>7. WildCount(path') \in Nat
    BY <2>4, CountType
  <2>8. left' = WildCount(path')
    BY <2>3, <2>7
  <2> QED BY <1>0, <2>1, <2>4, <2>6, <2>8
<1> HIDE DEF e
<1>6. /\ rest \in NodeSet(m + 2) /\ rest.type = "static" /\ rest.path = <<>>
      /\ rest.wild = FALSE /\ rest.children = <<>> /\ rest.handler = None
      /\ Len(rest.indices) = 0 /\ Len(rest.children) = 0 /\ Range(rest.children) = {}
      /\ WildCount(rest.path) = 0
  <2>1. m + 2 \in Nat
    BY <1>0
  <2> QED BY <2>1, FreshFacts
<1>7. /\ param \in NodeSet(m + 2) /\ param.type = "param" /\ param.path = name
      /\ param.wild = FALSE /\ param.children = <<m + 2>> /\ param.handler = None
      /\ Len(param.indices) = 0
  BY ParamHolderFacts DEF name
<1> HIDE DEF param, rest
<1>9. /\ Grown(tree, u, node) /\ Len(u) = m + 2 /\ DOMAIN u = 1 .. m + 2
      /\ u[node] = ParamAbove /\ u[m + 1] = param /\ u[m + 2] = rest
  BY ParamFollowedTree DEF param, rest
<1> HIDE DEF u
<1>10. /\ Holds(param) /\ ~Holds(rest) /\ NodeInv(rest, TRUE) /\ NodeInv(param, FALSE)
       /\ Range(param.children) = {m + 2}
  <2>1. Holds(param) /\ ~Holds(rest)
    BY <1>6, <1>7 DEF Holds
  <2>2. Len(param.children) = 1 /\ Range(param.children) = {m + 2}
    BY <1>7 DEF Range
  <2>3. NodeInv(param, FALSE)
    BY <1>4, <1>7, <2>1, <2>2 DEF NodeInv
  <2>4. NodeInv(rest, TRUE)
    BY <1>6, <2>1 DEF NodeInv
  <2> QED BY <2>1, <2>2, <2>3, <2>4
<1>11. /\ m + 2 \notin DOMAIN tree /\ m + 2 # 1 /\ m + 2 \in 1 .. m + 2
       /\ (m + 1 = m + 2) = FALSE /\ (m + 2 = m + 2) = TRUE
  BY <1>0
<1>12. /\ TreeInv(u, m + 2) /\ HandlersOf(u) = HandlersOf(tree)
       /\ Len(route) >= Len(u[1].path) + Len(path) - (Wild - 1)
  <2> DEFINE next == m + 2
  <2>1. /\ Grown(tree, u, node) /\ u[node] = ParamAbove /\ next \notin DOMAIN tree
        /\ Holds(u[Len(tree) + 1]) /\ ~u[Len(tree) + 1].wild
        /\ u[Len(tree) + 1].handler = None
        /\ NodeInv(u[Len(tree) + 1], Len(tree) + 1 = next)
    BY <1>7, <1>9, <1>10, <1>11
  <2>2. /\ Len(u) = Len(tree) + 2
        /\ Range(u[Len(tree) + 1].children) = {Len(tree) + 2}
        /\ NodeInv(u[Len(tree) + 2], Len(tree) + 2 = next)
        /\ ~Holds(u[Len(tree) + 2]) /\ u[Len(tree) + 2].handler = None
        /\ Range(u[Len(tree) + 2].children) = {}
    BY <1>6, <1>9, <1>10, <1>11
  <2>3. /\ TreeInv(u, next) /\ HandlersOf(u) = HandlersOf(tree)
        /\ Len(route) >= Len(u[1].path) + Len(path) - (Wild - 1)
    <3> HIDE DEF next, m
    <3> QED BY <1>1, <2>1, <2>2, ParamTree
  <2> QED BY <2>3
<1>13. Len(route) >= Len(u[1].path) + Len(path')
  <2>1. u[1].path \in Seq(STRING) /\ route \in Seq(STRING)
    <3>1. u[1] \in NodeSet(Len(u))
      BY <1>9, TreeDomain DEF Grown
    <3> QED BY <3>1, InvFacts DEF NodeSet, TypeInv
  <2> DEFINE a == Len(u[1].path)
             r == Len(route)
             p == Len(path')
  <2>2. a \in Nat /\ r \in Nat /\ p = Len(path) - e
    BY <1>5, <2>1
  <2>4. r >= a + Len(path) - (Wild - 1)
    BY <1>12
  <2>5. Len(path) \in Nat /\ Wild \in Nat /\ e \in Nat /\ Wild <= e
    BY <1>5
  <2> HIDE DEF a, r, p
  <2>3. r >= a + p
    BY <2>2, <2>4, <2>5
  <2> QED BY <2>3 DEF a, r, p
<1>14. AtNode' = rest
  BY <1>1, <1>2, <1>9 DEF AtNode
<1>15. IsTree(tree')
  BY <1>2, <1>9 DEF Grown
<1>16. /\ TreeInv(tree', node') /\ HandlersOf(tree') = HandlersOf(tree)
       /\ node' \in DOMAIN tree' /\ node' # 1
       /\ Len(route) >= Len(tree'[1].path) + Len(path')
  BY <1>1, <1>2, <1>9, <1>11, <1>12, <1>13
<1> QED BY <1>1, <1>5, <1>6, <1>14, <1>15, <1>16, ParamPlaced

LEMMA InsertParamStep ==
    ASSUME RadixInv, InsertParam
    PROVE  RadixInv'
<1>1. End \in Int /\ Len(path) \in Int
  <2>1. Inserting /\ WildFits
    BY DEF InsertParam
  <2>2. End \in Wild + 2 .. Len(path) + 1 /\ Wild \in 1 .. Len(path)
    BY <2>1, WildFitsFacts
  <2> QED BY <2>2
<1>2. End > Len(path) \/ End <= Len(path)
  BY <1>1
<1> QED BY <1>2, ParamLast, ParamFollowed

\* The three nodes of a catch-all: the path in front of its slash, a node without
\* a path, and the node that holds it.
CatchAbove ==
    [OnlyChild(AtNode, Len(tree) + 1) EXCEPT
        !.path = SubSeq(path, 1, Wild - 2), !.indices = <<"/">>, !.ixMem = "palloc"]
CatchEmpty ==
    [OnlyChild(Blank, Len(tree) + 2) EXCEPT
        !.type = "catchall", !.wild = TRUE, !.priority = 1]
CatchHolder ==
    [Blank EXCEPT !.type = "catchall", !.priority = 1,
                  !.path = Drop(path, Wild - 2), !.handler = route]

\* The place of a catch-all in its path.
LEMMA CatchFacts ==
    ASSUME RadixInv, InsertCatchAll
    PROVE  /\ Inserting /\ WildFits /\ Wild - 2 \in 0 .. Len(path) /\ Wild - 2 < Len(path)
           /\ Len(path) \in Nat /\ route \in Routes /\ Len(route) \in Nat
           /\ AtNode.path = <<>> /\ AtNode.handler = None
           /\ SubSeq(path, 1, Wild - 2) \in Seq(STRING)
           /\ Len(SubSeq(path, 1, Wild - 2)) = Wild - 2
           /\ WildCount(SubSeq(path, 1, Wild - 2)) = 0
           /\ Drop(path, Wild - 2) \in Seq(STRING)
           /\ WildCount(Drop(path, Wild - 2)) = 1
<1> DEFINE k == Wild - 2
           a == SubSeq(path, 1, k)
           b == Drop(path, k)
<1>0. path \in Seq(STRING) /\ Len(path) \in Nat
  BY InvFacts
<1>1. Inserting /\ WildFits /\ Wild > 1 /\ left = 1
  BY DEF InsertCatchAll, CatchAllFits
<1>2. /\ Wild \in 1 .. Len(path) /\ \A j \in 1 .. Wild - 1 : path[j] \notin Wildcards
      /\ AtNode.path = <<>> /\ AtNode.handler = None /\ left = WildCount(path)
      /\ pc = "insert"
  BY <1>1, WildFitsFacts
<1>3. k \in 0 .. Len(path) /\ k < Len(path) /\ \A j \in 1 .. k : path[j] \notin Wildcards
  BY <1>0, <1>1, <1>2
<1> HIDE DEF k
<1>4. /\ a \in Seq(STRING) /\ Len(a) = k /\ \A j \in 1 .. k : a[j] = path[j]
      /\ b \in Seq(STRING)
  BY <1>0, <1>3, TakePath, DropPath
<1>5. WildCount(path) = WildCount(a) + WildCount(b)
  BY <1>0, <1>3, CountCut
<1> HIDE DEF a, b
<1>6. WildCount(a) = 0
  BY <1>3, <1>4, CountSome
<1>7. WildCount(b) \in Nat
  BY <1>4, CountType
<1>8. WildCount(b) = 1
  BY <1>1, <1>2, <1>5, <1>6, <1>7
<1>9. route \in Routes /\ Len(route) \in Nat
  BY <1>2, InsertFacts
<1> QED BY <1>0, <1>1, <1>2, <1>3, <1>4, <1>6, <1>8, <1>9 DEF a, b, k

LEMMA CatchNodes ==
    ASSUME RadixInv, InsertCatchAll
    PROVE  LET m == Len(tree) + 2
           IN /\ CatchAbove \in NodeSet(m) /\ CatchAbove.path = SubSeq(path, 1, Wild - 2)
              /\ CatchAbove.children = <<Len(tree) + 1>> /\ CatchAbove.handler = AtNode.handler
              /\ CatchAbove.type = AtNode.type /\ CatchAbove.wild = AtNode.wild
              /\ Len(CatchAbove.indices) = 1
              /\ CatchEmpty \in NodeSet(m) /\ CatchEmpty.path = <<>>
              /\ CatchEmpty.children = <<m>> /\ CatchEmpty.handler = None
              /\ CatchEmpty.type = "catchall" /\ CatchEmpty.wild = TRUE
              /\ Len(CatchEmpty.indices) = 0
              /\ CatchHolder \in NodeSet(m) /\ CatchHolder.path = Drop(path, Wild - 2)
              /\ Range(CatchHolder.children) = {} /\ CatchHolder.handler = route
              /\ CatchHolder.type = "catchall" /\ CatchHolder.wild = FALSE
              /\ Len(CatchHolder.indices) = 0 /\ Len(CatchHolder.children) = 0
<1>0. path[Wild - 1] \in STRING /\ path[Wild - 1] = "/"
  <2>1. Wild > 1 /\ path[Wild - 1] = "/" /\ Inserting /\ WildFits
    BY DEF InsertCatchAll, CatchAllFits
  <2>2. Wild \in 1 .. Len(path) /\ path \in Seq(STRING)
    BY <2>1, WildFitsFacts, InvFacts
  <2>3. Wild - 1 \in 1 .. Len(path)
    BY <2>1, <2>2
  <2> QED BY <2>1, <2>2, <2>3
<1> DEFINE m == Len(tree) + 2
           n == Len(tree) + 1
           a == SubSeq(path, 1, Wild - 2)
           b == Drop(path, Wild - 2)
           ix == <<path[Wild - 1]>>
           one == 1
           p == OnlyChild(AtNode, n)
           q == OnlyChild(Blank, m)
           above == CatchAbove
           empty == CatchEmpty
           holder == CatchHolder
<1>1. a \in Seq(STRING) /\ b \in Seq(STRING) /\ route \in Routes
  BY CatchFacts
<1>2. ix \in Seq(STRING) /\ Len(ix) = 1 /\ one \in Int
  BY <1>0
<1>3. m \in Nat /\ n \in 2 .. m /\ m \in 2 .. m /\ AtNode \in NodeSet(m)
  <2>1. Len(tree) \in Nat /\ AtNode \in NodeSet(Len(tree)) /\ 1 \in 1 .. Len(tree)
    BY InvFacts
  <2>2. m \in Nat /\ Len(tree) <= m /\ n \in 2 .. m /\ m \in 2 .. m
    BY <2>1
  <2> QED BY <2>1, <2>2, NodeGrows
<1>4. /\ above = [p EXCEPT !.path = a, !.indices = ix, !.ixMem = "palloc"]
      /\ empty = [q EXCEPT !.type = "catchall", !.wild = TRUE, !.priority = one]
      /\ holder = [Blank EXCEPT !.type = "catchall", !.priority = one,
                                !.path = b, !.handler = route]
  BY <1>0 DEF CatchAbove, CatchEmpty, CatchHolder
<1> DEFINE kp == <<n>>
           kq == <<m>>
<1> HIDE DEF m, n, a, b, ix, one, above, empty, holder
<1>5. Blank \in NodeSet(m)
  BY <1>3, BlankNode
<1>6. /\ p \in NodeSet(m) /\ p.children = kp /\ p.handler = AtNode.handler
      /\ p.type = AtNode.type /\ p.wild = AtNode.wild
      /\ q \in NodeSet(m) /\ q.children = kq /\ q.path = Blank.path
      /\ q.handler = Blank.handler /\ q.indices = Blank.indices
  BY <1>3, <1>5, OnlyChildFacts
<1> HIDE DEF p, q, kp, kq
<1>7. /\ above \in NodeSet(m) /\ above.path = a /\ above.children = kp
      /\ above.handler = AtNode.handler /\ above.type = AtNode.type
      /\ above.wild = AtNode.wild /\ above.indices = ix
  BY <1>1, <1>2, <1>4, <1>6 DEF NodeSet
<1>8. /\ empty \in NodeSet(m) /\ empty.path = Blank.path /\ empty.children = kq
      /\ empty.handler = Blank.handler /\ empty.type = "catchall" /\ empty.wild = TRUE
      /\ empty.indices = Blank.indices
  BY <1>2, <1>4, <1>6 DEF NodeSet
<1>9. /\ holder \in NodeSet(m) /\ holder.path = b /\ holder.children = Blank.children
      /\ holder.handler = route /\ holder.type = "catchall" /\ holder.wild = Blank.wild
      /\ holder.indices = Blank.indices
  BY <1>1, <1>2, <1>4, <1>5 DEF NodeSet
<1>10. /\ Blank.path = <<>> /\ Blank.handler = None /\ Len(Blank.indices) = 0
       /\ Len(Blank.children) = 0 /\ Blank.wild = FALSE /\ Range(Blank.children) = {}
  BY DEF Blank, Range
<1>11. /\ above \in NodeSet(m) /\ above.path = a /\ above.children = kp
       /\ above.handler = AtNode.handler /\ above.type = AtNode.type
       /\ above.wild = AtNode.wild /\ Len(above.indices) = 1
  BY <1>2, <1>7
<1>12. /\ empty \in NodeSet(m) /\ empty.path = <<>> /\ empty.children = kq
       /\ empty.handler = None /\ empty.type = "catchall" /\ empty.wild = TRUE
       /\ Len(empty.indices) = 0
  BY <1>8, <1>10
<1>13. /\ holder \in NodeSet(m) /\ holder.path = b /\ Range(holder.children) = {}
       /\ holder.handler = route /\ holder.type = "catchall" /\ holder.wild = FALSE
       /\ Len(holder.indices) = 0 /\ Len(holder.children) = 0
  BY <1>9, <1>10
<1> QED BY <1>11, <1>12, <1>13 DEF above, empty, holder, m, n, a, b, kp, kq

LEMMA CatchTree ==
    ASSUME RadixInv, InsertCatchAll
    PROVE  /\ Inserting /\ WildFits /\ pc' = "idle"
           /\ IsTree(tree') /\ DOMAIN tree' = 1 .. Len(tree) + 2
           /\ Grown(tree, tree', node) /\ Len(tree') = Len(tree) + 2
           /\ tree'[node] = CatchAbove /\ tree'[Len(tree) + 1] = CatchEmpty
           /\ tree'[Len(tree) + 2] = CatchHolder
           /\ \A k \in DOMAIN tree \ {node} : tree'[k] = tree[k]
<1> DEFINE u == [tree EXCEPT ![node] = CatchAbove] \o <<CatchEmpty, CatchHolder>>
<1>1. IsTree(tree) /\ node \in DOMAIN tree /\ Len(tree) + 1 + 1 = Len(tree) + 2
  <2>1. IsTree(tree) /\ node \in DOMAIN tree /\ Len(tree) \in Nat
    BY InvFacts
  <2> QED BY <2>1
<1>2. Inserting /\ WildFits /\ pc' = "idle"
  BY DEF InsertCatchAll
<1>3. tree' = u
  <2> DEFINE empty == [OnlyChild(Blank, Len(tree) + 1 + 1) EXCEPT
                          !.type = "catchall", !.wild = TRUE, !.priority = 1]
  <2>1. empty = CatchEmpty
    BY <1>1 DEF CatchEmpty
  <2>2. tree' = [tree EXCEPT ![node] = CatchAbove] \o <<empty, CatchHolder>>
    BY Zenon DEF InsertCatchAll, CatchAbove, CatchHolder
  <2> HIDE DEF empty
  <2> QED BY <2>1, <2>2
<1>4. /\ CatchAbove \in NodeSet(Len(tree) + 2) /\ CatchEmpty \in NodeSet(Len(tree) + 2)
      /\ CatchHolder \in NodeSet(Len(tree) + 2)
  BY CatchNodes
<1>5. /\ Grown(tree, u, node) /\ DOMAIN u = 1 .. Len(tree) + 2 /\ u[node] = CatchAbove
      /\ Len(u) = Len(tree) + 2
      /\ u[Len(tree) + 1] = CatchEmpty /\ u[Len(tree) + 2] = CatchHolder
  BY <1>1, <1>4, GrowTwo
<1> HIDE DEF u
<1> QED BY <1>2, <1>3, <1>5 DEF Grown

LEMMA InsertCatchAllStep ==
    ASSUME RadixInv, InsertCatchAll
    PROVE  RadixInv'
<1> DEFINE m == Len(tree)
           u == tree'
<1>0. /\ IsTree(tree) /\ TypeInv /\ TreeInv(tree, Hole) /\ m \in Nat /\ node \in DOMAIN tree
      /\ DOMAIN tree = 1 .. m /\ 1 \in DOMAIN tree /\ AtNode = tree[node]
      /\ tree[1] \in NodeSet(m)
  BY InvFacts
<1>1. /\ Inserting /\ WildFits /\ Wild - 2 \in 0 .. Len(path) /\ Wild - 2 < Len(path)
      /\ Len(path) \in Nat /\ route \in Routes /\ Len(route) \in Nat
      /\ AtNode.path = <<>> /\ AtNode.handler = None
  BY CatchFacts
<1>2. /\ tree' = u /\ added' = Append(added, route) /\ pc' = "idle"
      /\ UNCHANGED <<node, path, left, route, inited>>
  BY DEF InsertCatchAll
<1>3. Hole' = 0
  BY <1>2 DEF Hole
<1>4. /\ ~AtNode.wild /\ ~Holds(AtNode) /\ AtNode.type \in {"static", "root"}
      /\ (node = 1 => m = 1) /\ Range(AtNode.children) = {} /\ Hole = node
      /\ InsertInv /\ pc = "insert"
  BY <1>1, WildFitsFacts
<1> DEFINE above == CatchAbove
           empty == CatchEmpty
           holder == CatchHolder
<1>5. /\ above \in NodeSet(m + 2) /\ Len(above.path) = Wild - 2
      /\ WildCount(above.path) = 0
      /\ above.children = <<m + 1>> /\ above.handler = None
      /\ above.type = AtNode.type /\ ~above.wild /\ Len(above.indices) = 1
      /\ empty \in NodeSet(m + 2) /\ empty.path = <<>> /\ empty.children = <<m + 2>>
      /\ empty.handler = None /\ empty.type = "catchall" /\ empty.wild = TRUE
      /\ Len(empty.indices) = 0
      /\ holder \in NodeSet(m + 2) /\ WildCount(holder.path) = 1
      /\ Range(holder.children) = {} /\ holder.handler = route
      /\ holder.type = "catchall" /\ holder.wild = FALSE
      /\ Len(holder.indices) = 0 /\ Len(holder.children) = 0
  BY <1>4, CatchFacts, CatchNodes
<1> HIDE DEF above, empty, holder
<1>6. /\ Grown(tree, u, node) /\ Len(u) = m + 2 /\ DOMAIN u = 1 .. m + 2
      /\ u[node] = above /\ u[m + 1] = empty /\ u[m + 2] = holder
      /\ \A k \in DOMAIN tree \ {node} : u[k] = tree[k]
  BY CatchTree DEF above, empty, holder
<1> HIDE DEF u, m
<1>7. /\ Range(above.children) = {m + 1} /\ Len(above.children) = 1
      /\ Range(empty.children) = {m + 2} /\ Len(empty.children) = 1
  BY <1>5 DEF Range
<1>8. ~Holds(above) /\ ~Holds(empty) /\ Holds(holder)
  <2>1. ~Holds(above)
    BY <1>4, <1>5 DEF Holds
  <2> QED BY <1>5, <2>1 DEF Holds
<1>9. NodeInv(above, FALSE) /\ NodeInv(empty, FALSE) /\ NodeInv(holder, FALSE)
  <2>1. WildCount(empty.path) = 0
    <3>1. empty.path = Blank.path
      BY <1>5 DEF Blank
    <3> QED BY <1>0, <3>1, BlankNode
  <2>2. above.type # "param" /\ above.type # "catchall"
    BY <1>4, <1>5
  <2>3. NodeInv(above, FALSE)
    BY <1>5, <1>7, <1>8, <2>2 DEF NodeInv
  <2>4. NodeInv(empty, FALSE)
    BY <1>5, <1>7, <1>8, <2>1 DEF NodeInv
  <2>5. NodeInv(holder, FALSE)
    BY <1>5, <1>8 DEF NodeInv
  <2> QED BY <2>3, <2>4, <2>5
<1>10. /\ m + 1 .. m + 2 = {m + 1, m + 2} /\ node # Hole' /\ m + 1 # Hole' /\ m + 2 # Hole'
  BY <1>0, <1>3
<1>11. Len(route) > Len(u[1].path)
  <2> DEFINE a == Len(u[1].path)
             b == Len(tree[1].path)
             k == Wild - 2
  <2>1. tree[1].path \in Seq(STRING)
    BY <1>0 DEF NodeSet
  <2>2. b \in Nat
    BY <2>1
  <2>3. CASE node = 1
    <3>1. a = k /\ Len(route) = b + Len(path) /\ k < Len(path) /\ k \in 0 .. Len(path)
      BY <1>1, <1>4, <1>5, <1>6, <2>3 DEF InsertInv
    <3> HIDE DEF a, b, k
    <3>2. Len(route) > a
      BY <1>1, <2>2, <3>1
    <3> QED BY <3>2 DEF a
  <2>4. CASE node # 1
    <3>1. a = b /\ Len(route) >= b + Len(path)
      BY <1>0, <1>4, <1>6, <2>4 DEF InsertInv
    <3>2. Len(path) > 0
      BY <1>1
    <3> HIDE DEF a, b
    <3>3. Len(route) > a
      BY <1>1, <2>2, <3>1, <3>2
    <3> QED BY <3>3 DEF a
  <2> QED BY <2>3, <2>4
<1>12. HandlerInv(u)
  <2>1. HandlerInv(tree)
    BY <1>0 DEF TreeInv
  <2>2. node = 1 => u[1].handler = None /\ Len(tree) = 1
    BY <1>4, <1>5, <1>6 DEF m
  <2>3. u[node].handler = None
    BY <1>5, <1>6
  <2>4. \A k \in Len(tree) + 1 .. Len(u) :
            u[k].handler # None => Len(u[k].handler) > Len(u[1].path)
    BY <1>5, <1>6, <1>10, <1>11 DEF m
  <2> QED BY <1>0, <1>6, <2>1, <2>2, <2>3, <2>4, HandlersLong
<1>13. TreeInv(u, Hole')
  <2>1. \A k \in {node} \cup (Len(tree) + 1 .. Len(u)) :
            /\ NodeInv(u[k], k = Hole')
            /\ \A c \in Range(u[k].children) : Holds(u[c]) <=> u[k].wild
    <3>1. \A k \in {node, m + 1, m + 2} : NodeInv(u[k], k = Hole')
      BY <1>6, <1>9, <1>10
    <3>2. \A k \in {node, m + 1, m + 2} :
              \A c \in Range(u[k].children) : Holds(u[c]) <=> u[k].wild
      BY <1>5, <1>6, <1>7, <1>8
    <3> QED BY <1>6, <1>10, <3>1, <3>2 DEF m
  <2>2. Holds(u[node]) <=> Holds(tree[node])
    BY <1>0, <1>4, <1>6, <1>8
  <2>3. node = 1 => u[node].type \in {"static", "root"}
    BY <1>4, <1>5, <1>6
  <2>4. \A k \in DOMAIN tree \ {node} : k # Hole /\ k # Hole'
    BY <1>0, <1>3, <1>4
  <2>5. ASSUME NEW S \in SUBSET DOMAIN u, node \in S, Closed(u, S)
        PROVE  Len(tree) + 1 .. Len(u) \subseteq S /\ Range(tree[node].children) \subseteq S
    <3>1. m + 1 \in S
      BY <1>6, <1>7, <2>5 DEF Closed
    <3>2. m + 2 \in S
      BY <1>6, <1>7, <2>5, <3>1 DEF Closed
    <3> QED BY <1>0, <1>4, <1>6, <1>10, <3>1, <3>2 DEF m
  <2>6. IsTree(tree) /\ TreeInv(tree, Hole) /\ node \in DOMAIN tree /\ Grown(tree, u, node)
    BY <1>0, <1>6
  <2> QED BY <1>12, <2>1, <2>2, <2>3, <2>4, <2>5, <2>6, GrowInv
<1>14. HandlersOf(u) = HandlersOf(tree) \cup ({route} \ {None})
  <2>1. {u[k].handler : k \in {node} \cup (Len(tree) + 1 .. Len(u))} = {None, route}
    <3>1. {node} \cup (Len(tree) + 1 .. Len(u)) = {node, m + 1, m + 2}
      BY <1>6, <1>10 DEF m
    <3> QED BY <1>5, <1>6, <3>1
  <2>2. {u[k].handler : k \in {node} \cup (Len(tree) + 1 .. Len(u))} \ {None}
          = ({tree[node].handler} \cup {route}) \ {None}
    BY <1>0, <1>1, <2>1
  <2>3. IsTree(tree) /\ node \in DOMAIN tree /\ Grown(tree, u, node)
    BY <1>0, <1>6
  <2>4. Adds(tree, u, node, {route})
    BY <2>2 DEF Adds
  <2> QED BY <2>3, <2>4, HandlersGrow
<1>15. added' \in Seq(Routes) /\ Range(added') = HandlersOf(tree')
  BY <1>1, <1>2, <1>14, Accepted
<1>16. IsTree(tree') /\ node' \in DOMAIN tree'
  <2>1. node \in 1 .. m + 2
    BY <1>0
  <2> QED BY <1>2, <1>6, <2>1 DEF Grown
<1>17. TypeInv'
  BY <1>0, <1>2, <1>15, <1>16 DEF TypeInv, IsTree
<1> QED BY <1>2, <1>13, <1>15, <1>17 DEF RadixInv, WalkerVisitsAll

-----------------------------------------------------------------------------
(* The walker.                                                             *)

\* A set of nodes with their children.
Wider(w) == w \cup UNION {Kids(c) : c \in w}

LEMMA WiderFacts ==
    ASSUME RadixInv, NEW w \in SUBSET (2 .. Len(tree))
    PROVE  /\ Kids(1) \subseteq 2 .. Len(tree)
           /\ Wider(w) \in SUBSET (2 .. Len(tree)) /\ w \subseteq Wider(w)
           /\ Wider(w) = w => Closed(tree, w)
<1>1. ASSUME NEW c \in 1 .. Len(tree) PROVE Kids(c) \subseteq 2 .. Len(tree)
  <2>1. tree[c] \in NodeSet(Len(tree))
    BY InvFacts
  <2>2. tree[c].children \in Seq(2 .. Len(tree))
    BY <2>1 DEF NodeSet
  <2> QED BY <2>2 DEF Kids, Range
<1>2. Len(tree) \in Nat /\ 1 \in 1 .. Len(tree) /\ \A c \in w : c \in 1 .. Len(tree)
  <2>1. Len(tree) \in Nat /\ 1 \in 1 .. Len(tree)
    BY InvFacts
  <2> QED BY <2>1
<1>3. Wider(w) \in SUBSET (2 .. Len(tree)) /\ w \subseteq Wider(w)
  BY <1>1, <1>2 DEF Wider
<1>4. Wider(w) = w => Closed(tree, w)
  BY DEF Wider, Closed, Kids
<1> QED BY <1>1, <1>2, <1>3, <1>4

\* The nodes below a node: its children, and with every node its children. As long as a
\* round finds a new node there is one more, and there are no more than Len(tree) of them.
LEMMA BelowFacts ==
    ASSUME RadixInv, NEW n \in DOMAIN tree
    PROVE  /\ Below(n) \in SUBSET (2 .. Len(tree)) /\ Below(n) \subseteq DOMAIN tree
           /\ Kids(n) \subseteq Below(n) /\ Closed(tree, Below(n))
           /\ \A T \in SUBSET DOMAIN tree : Kids(n) \subseteq T /\ Closed(tree, T) => Below(n) \subseteq T
<1> DEFINE m == Len(tree)
           X == SUBSET (2 .. m)
           Step(f, k) == IF k = 0 THEN Kids(n)
                         ELSE f[k - 1] \cup UNION {Kids(c) : c \in f[k - 1]}
           Is(f) == f = [k \in 0 .. m |-> Step(f, k)]
           r == CHOOSE f : Is(f)
<1>1. m \in Nat /\ m >= 1 /\ DOMAIN tree = 1 .. m
  <2>1. m \in Nat /\ 1 \in 1 .. m /\ DOMAIN tree = 1 .. m
    BY InvFacts
  <2> QED BY <2>1
<1>2. Kids(n) \in X
  <2>1. tree[n] \in NodeSet(Len(tree))
    BY InvFacts
  <2>2. tree[n].children \in Seq(2 .. Len(tree))
    BY <2>1 DEF NodeSet
  <2> QED BY <2>2 DEF Kids, Range
<1>3. \E f : Is(f)
  <2> DEFINE G == [k \in 1 .. m |-> [w \in X |-> Wider(w)]]
  <2>1. G \in [1 .. m -> [X -> X]]
    BY WiderFacts
  <2>2. \A k \in 1 .. m : \A w \in X : G[k][w] = Wider(w)
    OBVIOUS
  <2> HIDE DEF m, X, G
  <2>3. PICK f : RecursiveOn(f, X, Kids(n), m, G)
    <3>1. m \in Nat
      BY <1>1
    <3> QED BY <1>2, <2>1, <3>1, RecursionOnInterval, Zenon
  <2>4. ASSUME NEW k \in 0 .. m PROVE f[k] = Step(f, k)
    <3>1. CASE k = 0
      BY <2>3, <3>1 DEF RecursiveOn
    <3>2. CASE k # 0
      <4>1. k \in 1 .. m /\ k - 1 \in 0 .. m
        BY <1>1, <3>2
      <4>2. f[k - 1] \in X
        BY <2>3, <4>1 DEF RecursiveOn
      <4>3. f[k] = Wider(f[k - 1])
        BY <2>2, <2>3, <4>1, <4>2 DEF RecursiveOn
      <4> QED BY <3>2, <4>3 DEF Wider
    <3> QED BY <3>1, <3>2
  <2>5. Is(f)
    <3>1. f \in [0 .. m -> X]
      BY <2>3 DEF RecursiveOn
    <3> QED BY <2>4, <3>1
  <2> QED BY <2>5
<1> HIDE DEF Is
<1>4. Is(r)
  BY <1>3
<1>5. \A k \in 0 .. m : r[k] = Step(r, k)
  BY <1>4 DEF Is
<1>6. Below(n) = r[m]
  BY DEF Below, r, Is
<1> HIDE DEF r
<1>7. r[0] = Kids(n) /\ \A k \in 1 .. m : r[k] = Wider(r[k - 1])
  <2>1. 0 \in 0 .. m /\ \A k \in 1 .. m : k \in 0 .. m /\ k # 0
    BY <1>1
  <2> QED BY <1>5, <2>1 DEF Wider
<1> HIDE DEF Step, m
<1> DEFINE Good(k) == /\ r[k] \in SUBSET (2 .. Len(tree)) /\ Kids(n) \subseteq r[k]
                      /\ Closed(tree, r[k]) \/ Cardinality(r[k]) >= k
                      /\ \A T \in SUBSET DOMAIN tree :
                            Kids(n) \subseteq T /\ Closed(tree, T) => r[k] \subseteq T
           U == {k \in Nat : k <= m => Good(k)}
<1>8. \A w \in SUBSET (2 .. Len(tree)) :
          /\ IsFiniteSet(w) /\ Cardinality(w) \in Nat /\ Cardinality(w) <= m - 1
  <2> TAKE w \in SUBSET (2 .. Len(tree))
  <2> DEFINE all == 2 .. m
  <2>1. IsFiniteSet(all) /\ Cardinality(all) = m - 1
    BY <1>1, FS_Interval
  <2>2. w \in SUBSET all
    BY DEF m
  <2> HIDE DEF m, all
  <2>3. IsFiniteSet(w) /\ Cardinality(w) <= m - 1
    BY <2>1, <2>2, FS_Subset
  <2> QED BY <2>3, FS_CardinalityType
<1>9. 0 \in U
  <2>1. r[0] \in SUBSET (2 .. Len(tree))
    BY <1>2, <1>7 DEF m
  <2>2. Cardinality(r[0]) >= 0
    BY <1>8, <2>1
  <2>3. Good(0)
    BY <1>7, <2>1, <2>2
  <2> HIDE DEF Good
  <2> QED BY <2>3
<1>10. ASSUME NEW k \in U PROVE k + 1 \in U
  <2>0. k \in Nat /\ k + 1 \in Nat
    OBVIOUS
  <2> SUFFICES ASSUME k + 1 <= m PROVE Good(k + 1)
    <3> HIDE DEF Good
    <3> QED BY <2>0
  <2>1. k <= m /\ k + 1 \in 1 .. m /\ (k + 1) - 1 = k
    BY <1>1, <2>0
  <2>2. r[k + 1] = Wider(r[k]) /\ Good(k)
    <3> HIDE DEF Good
    <3> QED BY <1>7, <2>0, <2>1
  <2>3. /\ r[k + 1] \in SUBSET (2 .. Len(tree)) /\ r[k] \subseteq r[k + 1]
        /\ r[k + 1] = r[k] => Closed(tree, r[k])
    BY <2>2, WiderFacts
  <2>4. Closed(tree, r[k]) => r[k + 1] = r[k]
    BY <2>2 DEF Wider, Closed, Kids
  <2>7. \A T \in SUBSET DOMAIN tree : Kids(n) \subseteq T /\ Closed(tree, T) => r[k + 1] \subseteq T
    BY <2>2 DEF Wider, Closed, Kids
  <2>5. CASE r[k + 1] = r[k]
    BY <2>2, <2>3, <2>5, <2>7
  <2>6. CASE r[k + 1] # r[k]
    <3>1. Cardinality(r[k]) >= k
      BY <2>2, <2>4, <2>6
    <3>2. /\ IsFiniteSet(r[k + 1]) /\ Cardinality(r[k + 1]) \in Nat /\ Cardinality(r[k]) \in Nat
      BY <1>8, <2>2, <2>3
    <3>3. /\ Cardinality(r[k]) <= Cardinality(r[k + 1])
          /\ Cardinality(r[k + 1]) # Cardinality(r[k])
      BY <2>3, <2>6, <3>2, FS_Subset
    <3>4. Cardinality(r[k + 1]) >= k + 1
      BY <2>0, <3>1, <3>2, <3>3
    <3> QED BY <2>2, <2>3, <2>7, <3>4
  <2> QED BY <2>5, <2>6
<1>11. m \in U
  <2> HIDE DEF U
  <2>1. U \subseteq Nat
    BY DEF U
  <2> QED BY <1>1, <1>9, <1>10, <2>1, SetInduction
<1>12. Good(m)
  <2> HIDE DEF Good
  <2> QED BY <1>1, <1>11
<1>13. Closed(tree, r[m])
  BY <1>1, <1>8, <1>12
<1>14. Below(n) \subseteq DOMAIN tree
  <2>1. 2 .. Len(tree) \subseteq DOMAIN tree
    BY <1>1 DEF m
  <2> QED BY <1>6, <1>12, <2>1
<1> QED BY <1>6, <1>12, <1>13, <1>14

\* The nodes below the root are the others.
LEMMA BelowRoot ==
    ASSUME RadixInv
    PROVE  Below(1) = 2 .. Len(tree)
<1> DEFINE B == Below(1)
           S == B \cup {1}
<1>1. /\ B \in SUBSET (2 .. Len(tree)) /\ B \subseteq DOMAIN tree
      /\ Kids(1) \subseteq B /\ Closed(tree, B) /\ 1 \in DOMAIN tree
      /\ DOMAIN tree = 1 .. Len(tree) /\ Len(tree) \in Nat /\ ReachInv(tree)
  BY InvFacts, BelowFacts DEF TreeInv
<1> HIDE DEF B
<1>2. Closed(tree, S) /\ S \in SUBSET DOMAIN tree
  BY <1>1 DEF Closed, Kids
<1>3. S = DOMAIN tree
  BY <1>1, <1>2 DEF ReachInv
<1>4. 1 \notin 2 .. Len(tree) /\ 2 .. Len(tree) \subseteq DOMAIN tree
  BY <1>1
<1> QED BY <1>1, <1>3, <1>4 DEF B

\* The walker does not see the root's handler, and sees every other.
LEMMA WalkStep ==
    ASSUME RadixInv, Walk
    PROVE  RadixInv'
<1> DEFINE others == {tree[n].handler : n \in 2 .. Len(tree)} \ {None}
<1>1. /\ TypeInv /\ TreeInv(tree, Hole) /\ Range(added) = HandlersOf(tree)
      /\ DOMAIN tree = 1 .. Len(tree) /\ Len(tree) \in Nat /\ 1 \in DOMAIN tree
      /\ \A n \in DOMAIN tree : tree[n] \in NodeSet(Len(tree))
  BY InvFacts DEF RadixInv
<1>2. /\ pc = "idle" /\ inited' = {tree[n].handler : n \in Below(1)} \ {None}
      /\ pc' = "walked" /\ UNCHANGED <<tree, node, path, left, route, added>>
  BY DEF Walk
<1>3. inited' = others
  BY <1>2, BelowRoot
<1>4. tree[1].handler \notin others
  <2> SUFFICES ASSUME NEW n \in 2 .. Len(tree), tree[n].handler # None,
                      tree[n].handler = tree[1].handler
               PROVE  FALSE
    OBVIOUS
  <2>1. HandlerInv(tree)
    BY <1>1 DEF TreeInv
  <2>2. Len(tree[1].handler) = Len(tree[1].path)
        /\ Len(tree[1].handler) > Len(tree[1].path)
    BY <2>1 DEF HandlerInv
  <2>3. tree[1].path \in Seq(STRING)
    BY <1>1 DEF NodeSet
  <2>4. Len(tree[1].path) \in Nat
    BY <2>3
  <2> QED BY <2>2, <2>4
<1>5. HandlersOf(tree) = others \cup ({tree[1].handler} \ {None})
  <2>1. DOMAIN tree = {1} \cup 2 .. Len(tree)
    BY <1>1
  <2> QED BY <2>1 DEF HandlersOf
<1>6. inited' = Range(added) \ {tree[1].handler}
  BY <1>1, <1>3, <1>4, <1>5
<1>7. inited' \subseteq Routes
  <2>1. Range(added) \subseteq Routes
    BY <1>1 DEF TypeInv, Range
  <2> QED BY <1>6, <2>1
<1>8. Hole' = Hole
  BY <1>2 DEF Hole
<1>9. TypeInv'
  BY <1>1, <1>2, <1>7 DEF TypeInv
<1>10. TreeInv(tree', Hole') /\ Range(added') = HandlersOf(tree')
  BY <1>1, <1>2, <1>8
<1>11. WalkerVisitsAll'
  BY <1>2, <1>6 DEF WalkerVisitsAll
<1> QED BY <1>2, <1>9, <1>10, <1>11 DEF RadixInv

-----------------------------------------------------------------------------
(* The nodes as a graph K, which gives every node the set of its children. *)

Shut(K, S) == \A k \in S : K[k] \subseteq S

\* A node and all that is below it.
SubOf(K, n) ==
    {d \in DOMAIN K : \A S \in SUBSET DOMAIN K : n \in S /\ Shut(K, S) => d \in S}

\* A tree: every node but the root is the child of one node, and below the root.
Graph(K) ==
    /\ IsFiniteSet(DOMAIN K) /\ 1 \in DOMAIN K
    /\ \A k \in DOMAIN K : K[k] \subseteq DOMAIN K \ {1}
    /\ \A a, b \in DOMAIN K : \A c \in K[a] \cap K[b] : a = b
    /\ \A S \in SUBSET DOMAIN K : 1 \in S /\ Shut(K, S) => S = DOMAIN K

LEMMA SubFacts ==
    ASSUME NEW K, Graph(K), NEW n \in DOMAIN K
    PROVE  /\ SubOf(K, n) \in SUBSET DOMAIN K /\ n \in SubOf(K, n) /\ Shut(K, SubOf(K, n))
           /\ \A S \in SUBSET DOMAIN K : n \in S /\ Shut(K, S) => SubOf(K, n) \subseteq S
           /\ IsFiniteSet(SubOf(K, n))
<1>1. SubOf(K, n) \in SUBSET DOMAIN K /\ n \in SubOf(K, n)
  BY DEF SubOf
<1>2. ASSUME NEW d \in SubOf(K, n) PROVE K[d] \subseteq SubOf(K, n)
  <2> SUFFICES ASSUME NEW e \in K[d] PROVE e \in SubOf(K, n)
    OBVIOUS
  <2>1. e \in DOMAIN K
    BY <1>1 DEF Graph
  <2>2. ASSUME NEW S \in SUBSET DOMAIN K, n \in S, Shut(K, S) PROVE e \in S
    <3>1. d \in S
      BY <2>2 DEF SubOf
    <3> QED BY <2>2, <3>1 DEF Shut
  <2> QED BY <2>1, <2>2 DEF SubOf
<1>3. \A S \in SUBSET DOMAIN K : n \in S /\ Shut(K, S) => SubOf(K, n) \subseteq S
  BY DEF SubOf
<1>4. IsFiniteSet(SubOf(K, n))
  BY <1>1, FS_Subset DEF Graph
<1> QED BY <1>1, <1>2, <1>3, <1>4 DEF Shut

\* What a child is below, and what is not below it.
LEMMA SubChild ==
    ASSUME NEW K, Graph(K), NEW p \in DOMAIN K, NEW c \in K[p]
    PROVE  /\ c \in DOMAIN K /\ p \notin SubOf(K, c)
           /\ \A n \in DOMAIN K : c \in SubOf(K, n) <=> c = n \/ p \in SubOf(K, n)
<1>1. c \in DOMAIN K /\ c # 1
  BY DEF Graph
<1>2. \A k \in DOMAIN K : c \in K[k] => k = p
  BY DEF Graph
<1>3. ASSUME NEW n \in DOMAIN K PROVE c \in SubOf(K, n) <=> c = n \/ p \in SubOf(K, n)
  <2>1. /\ SubOf(K, n) \in SUBSET DOMAIN K /\ n \in SubOf(K, n) /\ Shut(K, SubOf(K, n))
        /\ \A S \in SUBSET DOMAIN K : n \in S /\ Shut(K, S) => SubOf(K, n) \subseteq S
    BY SubFacts
  <2>2. p \in SubOf(K, n) => c \in SubOf(K, n)
    BY <2>1 DEF Shut
  <2>3. ASSUME c # n, p \notin SubOf(K, n) PROVE c \notin SubOf(K, n)
    <3> DEFINE S == SubOf(K, n) \ {c}
    <3>1. Shut(K, S)
      BY <1>2, <2>1, <2>3 DEF Shut
    <3>2. n \in S /\ S \in SUBSET DOMAIN K
      BY <2>1, <2>3
    <3> QED BY <2>1, <3>1, <3>2
  <2> QED BY <2>1, <2>2, <2>3
<1>4. p \notin SubOf(K, c)
  <2> SUFFICES ASSUME p \in SubOf(K, c) PROVE FALSE
    OBVIOUS
  <2> DEFINE S == DOMAIN K \ SubOf(K, c)
  <2>1. 1 \in S
    <3> DEFINE R == DOMAIN K \ {1}
    <3>1. Shut(K, R) /\ c \in R /\ R \in SUBSET DOMAIN K
      BY <1>1 DEF Graph, Shut
    <3>2. SubOf(K, c) \subseteq R
      BY <1>1, <3>1, SubFacts
    <3> QED BY <3>2 DEF Graph
  <2>2. Shut(K, S)
    <3> SUFFICES ASSUME NEW k \in S, NEW d \in K[k], d \in SubOf(K, c) PROVE FALSE
      BY DEF Shut, Graph
    <3>1. PICK q \in DOMAIN K : q = k
      OBVIOUS
    <3>2. d = c => k = p
      BY <1>2
    <3>3. d # c
      BY <3>2
    <3> DEFINE T == SubOf(K, c) \ {d}
    <3>4. Shut(K, T)
      <4> SUFFICES ASSUME NEW j \in T PROVE d \notin K[j]
        BY <1>1, SubFacts DEF Shut
      <4>1. j \in DOMAIN K /\ j # k
        BY <1>1, SubFacts
      <4> QED BY <4>1 DEF Graph
    <3>5. c \in T /\ T \in SUBSET DOMAIN K
      BY <1>1, <3>3, SubFacts
    <3> QED BY <1>1, <3>4, <3>5, SubFacts
  <2>3. S = DOMAIN K
    BY <2>1, <2>2 DEF Graph
  <2> QED BY <1>1, <2>3, SubFacts
<1> QED BY <1>1, <1>3, <1>4

\* A leaf x below a.
Leaf(K, a, x) ==
    [k \in DOMAIN K \cup {x} |->
        IF k = x THEN {} ELSE IF k = a THEN K[a] \cup {x} ELSE K[k]]

LeafBelow(K, a, x, G) ==
    /\ Graph(G) /\ DOMAIN G = DOMAIN K \cup {x}
    /\ SubOf(G, x) = {x}
    /\ \A n \in DOMAIN K :
          SubOf(G, n)
            = SubOf(K, n) \cup (IF a \in SubOf(K, n) THEN {x} ELSE {})

LEMMA LeafFacts ==
    ASSUME NEW K, Graph(K), NEW a \in DOMAIN K, NEW x, x \notin DOMAIN K,
           NEW G, G = Leaf(K, a, x)
    PROVE  LeafBelow(K, a, x, G)
<1>1. /\ DOMAIN G = DOMAIN K \cup {x} /\ G[x] = {} /\ G[a] = K[a] \cup {x}
      /\ \A k \in DOMAIN K \ {a} : G[k] = K[k]
  BY DEF Leaf
<1>2. \A k \in DOMAIN K : K[k] \subseteq DOMAIN K \ {1} /\ K[k] \subseteq G[k]
  BY <1>1 DEF Graph
<1>3. ASSUME NEW S \in SUBSET DOMAIN G, Shut(G, S) PROVE Shut(K, S \cap DOMAIN K)
  BY <1>1, <1>2, <1>3 DEF Shut
<1>4. Graph(G)
  <2>1. IsFiniteSet(DOMAIN G) /\ 1 \in DOMAIN G
    BY <1>1, FS_AddElement DEF Graph
  <2>2. \A k \in DOMAIN G : G[k] \subseteq DOMAIN G \ {1}
    <3>1. x # 1
      BY DEF Graph
    <3> QED BY <1>1, <1>2, <3>1
  <2>3. ASSUME NEW b \in DOMAIN G, NEW d \in DOMAIN G, NEW c \in G[b] \cap G[d] PROVE b = d
    <3>1. b # x /\ d # x
      BY <1>1
    <3>2. CASE c = x
      BY <1>1, <1>2, <3>1, <3>2
    <3>3. CASE c # x
      <4>1. c \in K[b] \cap K[d] /\ b \in DOMAIN K /\ d \in DOMAIN K
        BY <1>1, <3>1, <3>3
      <4> QED BY <4>1 DEF Graph
    <3> QED BY <3>2, <3>3
  <2>4. ASSUME NEW S \in SUBSET DOMAIN G, 1 \in S, Shut(G, S) PROVE S = DOMAIN G
    <3>1. S \cap DOMAIN K = DOMAIN K
      BY <1>3, <2>4 DEF Graph
    <3>2. x \in S
      BY <1>1, <2>4, <3>1 DEF Shut
    <3> QED BY <1>1, <3>1, <3>2
  <2> QED BY <2>1, <2>2, <2>3, <2>4 DEF Graph
<1>5. SubOf(G, x) = {x}
  <2>1. Shut(G, {x}) /\ {x} \in SUBSET DOMAIN G /\ x \in DOMAIN G
    BY <1>1 DEF Shut
  <2> QED BY <1>4, <2>1, SubFacts
<1>6. ASSUME NEW n \in DOMAIN K
      PROVE  SubOf(G, n) = SubOf(K, n) \cup (IF a \in SubOf(K, n) THEN {x} ELSE {})
  <2> DEFINE R == SubOf(K, n) \cup (IF a \in SubOf(K, n) THEN {x} ELSE {})
             T == SubOf(G, n)
  <2>1. /\ SubOf(K, n) \in SUBSET DOMAIN K /\ n \in SubOf(K, n) /\ Shut(K, SubOf(K, n))
        /\ \A S \in SUBSET DOMAIN K : n \in S /\ Shut(K, S) => SubOf(K, n) \subseteq S
    BY SubFacts
  <2>2. /\ T \in SUBSET DOMAIN G /\ n \in T /\ Shut(G, T)
        /\ \A S \in SUBSET DOMAIN G : n \in S /\ Shut(G, S) => T \subseteq S
    BY <1>1, <1>4, SubFacts
  <2> HIDE DEF T
  <2>3. Shut(G, R) /\ n \in R /\ R \in SUBSET DOMAIN G
    BY <1>1, <2>1 DEF Shut
  <2>4. T \subseteq R
    BY <2>2, <2>3
  <2>5. SubOf(K, n) \subseteq T
    <3>1. Shut(K, T \cap DOMAIN K)
      BY <1>3, <2>2
    <3> QED BY <2>1, <2>2, <3>1
  <2>6. a \in SubOf(K, n) => x \in T
    BY <1>1, <2>2, <2>5 DEF Shut
  <2> QED BY <2>4, <2>5, <2>6 DEF T
<1> QED BY <1>1, <1>4, <1>5, <1>6 DEF LeafBelow

\* The children of a go to x, the only child of a.
Cut(K, a, x) ==
    [k \in DOMAIN K \cup {x} |->
        IF k = x THEN K[a] ELSE IF k = a THEN {x} ELSE K[k]]

CutBelow(K, a, x, G) ==
    /\ Graph(G) /\ DOMAIN G = DOMAIN K \cup {x}
    /\ SubOf(G, x) = (SubOf(K, a) \ {a}) \cup {x}
    /\ \A n \in DOMAIN K :
          SubOf(G, n)
            = SubOf(K, n) \cup (IF a \in SubOf(K, n) THEN {x} ELSE {})

LEMMA CutGraph ==
    ASSUME NEW K, Graph(K), NEW a \in DOMAIN K, NEW x, x \notin DOMAIN K,
           NEW G, G = Cut(K, a, x)
    PROVE  CutBelow(K, a, x, G)
<1>1. /\ DOMAIN G = DOMAIN K \cup {x} /\ G[x] = K[a] /\ G[a] = {x}
      /\ \A k \in DOMAIN K \ {a} : G[k] = K[k]
  BY DEF Cut
<1>2. \A k \in DOMAIN K : K[k] \subseteq DOMAIN K \ {1}
  BY DEF Graph
<1>3. ASSUME NEW S \in SUBSET DOMAIN G, Shut(G, S) PROVE Shut(K, S \cap DOMAIN K)
  <2> SUFFICES ASSUME NEW k \in S \cap DOMAIN K PROVE K[k] \subseteq S
    BY <1>2 DEF Shut
  <2>1. CASE k = a
    BY <1>1, <1>3, <2>1 DEF Shut
  <2>2. CASE k # a
    BY <1>1, <1>3, <2>2 DEF Shut
  <2> QED BY <2>1, <2>2
<1>4. Graph(G)
  <2>1. IsFiniteSet(DOMAIN G) /\ 1 \in DOMAIN G
    BY <1>1, FS_AddElement DEF Graph
  <2>2. \A k \in DOMAIN G : G[k] \subseteq DOMAIN G \ {1}
    <3>1. x # 1
      BY DEF Graph
    <3> QED BY <1>1, <1>2, <3>1
  <2>3. ASSUME NEW b \in DOMAIN G, NEW d \in DOMAIN G, NEW c \in G[b] \cap G[d] PROVE b = d
    <3> DEFINE old(k) == IF k = x THEN a ELSE k
    <3>1. CASE c = x
      BY <1>1, <1>2, <3>1
    <3>2. CASE c # x
      <4>1. /\ b # a /\ d # a
            /\ old(b) \in DOMAIN K /\ old(d) \in DOMAIN K /\ c \in K[old(b)] \cap K[old(d)]
        BY <1>1, <3>2
      <4>2. old(b) = old(d)
        BY <4>1 DEF Graph
      <4> QED BY <4>1, <4>2
    <3> QED BY <3>1, <3>2
  <2>4. ASSUME NEW S \in SUBSET DOMAIN G, 1 \in S, Shut(G, S) PROVE S = DOMAIN G
    <3>1. S \cap DOMAIN K = DOMAIN K
      BY <1>3, <2>4 DEF Graph
    <3>2. x \in S
      BY <1>1, <2>4, <3>1 DEF Shut
    <3> QED BY <1>1, <3>1, <3>2
  <2> QED BY <2>1, <2>2, <2>3, <2>4 DEF Graph
<1>5. ASSUME NEW n \in DOMAIN K
      PROVE  SubOf(G, n) = SubOf(K, n) \cup (IF a \in SubOf(K, n) THEN {x} ELSE {})
  <2> DEFINE R == SubOf(K, n) \cup (IF a \in SubOf(K, n) THEN {x} ELSE {})
             T == SubOf(G, n)
  <2>1. /\ SubOf(K, n) \in SUBSET DOMAIN K /\ n \in SubOf(K, n) /\ Shut(K, SubOf(K, n))
        /\ \A S \in SUBSET DOMAIN K : n \in S /\ Shut(K, S) => SubOf(K, n) \subseteq S
    BY SubFacts
  <2>2. /\ T \in SUBSET DOMAIN G /\ n \in T /\ Shut(G, T)
        /\ \A S \in SUBSET DOMAIN G : n \in S /\ Shut(G, S) => T \subseteq S
    BY <1>1, <1>4, SubFacts
  <2> HIDE DEF T
  <2>3. Shut(G, R) /\ n \in R /\ R \in SUBSET DOMAIN G
    BY <1>1, <2>1 DEF Shut
  <2>4. T \subseteq R
    BY <2>2, <2>3
  <2>5. SubOf(K, n) \subseteq T
    <3>1. Shut(K, T \cap DOMAIN K)
      BY <1>3, <2>2
    <3> QED BY <2>1, <2>2, <3>1
  <2>6. a \in SubOf(K, n) => x \in T
    BY <1>1, <2>2, <2>5 DEF Shut
  <2> QED BY <2>4, <2>5, <2>6 DEF T
<1>6. SubOf(G, x) = (SubOf(K, a) \ {a}) \cup {x}
  <2> DEFINE A == SubOf(K, a)
             B == SubOf(G, x)
             R == (A \ {a}) \cup {x}
  <2>1. /\ A \in SUBSET DOMAIN K /\ a \in A /\ Shut(K, A)
        /\ \A S \in SUBSET DOMAIN K : a \in S /\ Shut(K, S) => A \subseteq S
    BY SubFacts
  <2>2. /\ B \in SUBSET DOMAIN G /\ x \in B /\ Shut(G, B)
        /\ \A S \in SUBSET DOMAIN G : x \in S /\ Shut(G, S) => B \subseteq S
    <3>1. x \in DOMAIN G
      BY <1>1
    <3> QED BY <1>4, <3>1, SubFacts
  <2>3. \A k \in A : a \notin K[k]
    <3> SUFFICES ASSUME NEW k \in A, a \in K[k] PROVE FALSE
      OBVIOUS
    <3>1. k \in DOMAIN K
      BY <2>1
    <3> QED BY <3>1, SubChild
  <2> HIDE DEF A, B
  <2>4. Shut(G, R) /\ R \in SUBSET DOMAIN G
    <3> SUFFICES ASSUME NEW k \in R PROVE G[k] \subseteq R
      BY <1>1, <2>1 DEF Shut
    <3>1. CASE k = x
      BY <1>1, <2>1, <2>3, <3>1 DEF Shut
    <3>2. CASE k # x
      <4>1. k \in A /\ k # a /\ G[k] = K[k]
        BY <1>1, <2>1, <3>2
      <4> QED BY <2>1, <2>3, <4>1 DEF Shut
    <3> QED BY <3>1, <3>2
  <2>5. B \subseteq R
    BY <2>2, <2>4
  <2>6. A \subseteq B \cup {a}
    <3> DEFINE S == (B \cap DOMAIN K) \cup {a}
    <3>1. Shut(K, S)
      <4> SUFFICES ASSUME NEW k \in S PROVE K[k] \subseteq S
        BY DEF Shut
      <4>1. CASE k = a
        BY <1>1, <1>2, <2>2, <4>1 DEF Shut
      <4>2. CASE k # a
        <5>1. k \in B /\ G[k] = K[k] /\ K[k] \subseteq DOMAIN K
          BY <1>1, <1>2, <4>2
        <5> QED BY <2>2, <5>1 DEF Shut
      <4> QED BY <4>1, <4>2
    <3> QED BY <2>1, <3>1
  <2> QED BY <2>2, <2>5, <2>6 DEF A, B
<1> QED BY <1>1, <1>4, <1>5, <1>6 DEF CutBelow

-----------------------------------------------------------------------------
(* Counting. H are the nodes with a handler, P[n] is what node n says, and  *)
(* at the node to which a route has come that is counted on its way.        *)

Counted(K, H, P, at) ==
    /\ H \subseteq DOMAIN K
    /\ \A n \in DOMAIN K :
          P[n] = Cardinality(SubOf(K, n) \cap H) + (IF at \in SubOf(K, n) THEN 1 ELSE 0)

LEMMA HeadsFinite ==
    ASSUME NEW K, Graph(K), NEW n \in DOMAIN K, NEW H
    PROVE  IsFiniteSet(SubOf(K, n) \cap H) /\ Cardinality(SubOf(K, n) \cap H) \in Nat
<1>1. IsFiniteSet(SubOf(K, n) \cap H)
  BY SubFacts, FS_Subset
<1> QED BY <1>1, FS_CardinalityType

\* A route begins at the root.
LEMMA CountRoot ==
    ASSUME NEW K, Graph(K), NEW H, NEW P, NEW Q, NEW at, at \notin DOMAIN K,
           Counted(K, H, P, at), Q[1] = P[1] + 1, \A n \in DOMAIN K \ {1} : Q[n] = P[n]
    PROVE  Counted(K, H, Q, 1)
<1> SUFFICES ASSUME NEW n \in DOMAIN K
             PROVE  Q[n] = Cardinality(SubOf(K, n) \cap H) + (IF 1 \in SubOf(K, n) THEN 1 ELSE 0)
  BY DEF Counted
<1>1. at \notin SubOf(K, n) /\ n \in SubOf(K, n)
  BY SubFacts
<1>2. P[n] = Cardinality(SubOf(K, n) \cap H) /\ Cardinality(SubOf(K, n) \cap H) \in Nat
  BY <1>1, HeadsFinite DEF Counted
<1>3. n # 1 => 1 \notin SubOf(K, n)
  <2> DEFINE R == DOMAIN K \ {1}
  <2>1. Shut(K, R) /\ R \in SUBSET DOMAIN K
    BY DEF Graph, Shut
  <2> QED BY <2>1, SubFacts
<1> QED BY <1>1, <1>2, <1>3

\* It goes on to a child.
LEMMA CountDown ==
    ASSUME NEW K, Graph(K), NEW H, NEW P, NEW Q, NEW at \in DOMAIN K, NEW c \in K[at],
           Counted(K, H, P, at), Q[c] = P[c] + 1, \A n \in DOMAIN K \ {c} : Q[n] = P[n]
    PROVE  Counted(K, H, Q, c)
<1> SUFFICES ASSUME NEW n \in DOMAIN K
             PROVE  Q[n] = Cardinality(SubOf(K, n) \cap H) + (IF c \in SubOf(K, n) THEN 1 ELSE 0)
  BY DEF Counted
<1>1. c \in DOMAIN K /\ at \notin SubOf(K, c) /\ (c \in SubOf(K, n) <=> c = n \/ at \in SubOf(K, n))
  BY SubChild
<1>2. P[n] = Cardinality(SubOf(K, n) \cap H) + (IF at \in SubOf(K, n) THEN 1 ELSE 0)
      /\ Cardinality(SubOf(K, n) \cap H) \in Nat
  BY HeadsFinite DEF Counted
<1>3. CASE n = c
  BY <1>1, <1>2, <1>3
<1>4. CASE n # c
  BY <1>1, <1>2, <1>4
<1> QED BY <1>3, <1>4

\* It goes on to a new leaf.
LEMMA CountLeaf ==
    ASSUME NEW K, Graph(K), NEW H, NEW P, NEW Q, NEW at \in DOMAIN K, NEW x, x \notin DOMAIN K,
           NEW G, G = Leaf(K, at, x),
           Counted(K, H, P, at), Q[x] = 1, \A n \in DOMAIN K : Q[n] = P[n]
    PROVE  Counted(G, H, Q, x)
<1>1. /\ Graph(G) /\ DOMAIN G = DOMAIN K \cup {x} /\ SubOf(G, x) = {x}
      /\ \A n \in DOMAIN K :
            SubOf(G, n) = SubOf(K, n) \cup (IF at \in SubOf(K, n) THEN {x} ELSE {})
  <2>1. LeafBelow(K, at, x, G)
    BY LeafFacts
  <2> QED BY <2>1 DEF LeafBelow
<1>2. H \subseteq DOMAIN K
  BY DEF Counted
<1>3. ASSUME NEW n \in DOMAIN K
      PROVE  Q[n] = Cardinality(SubOf(G, n) \cap H) + (IF x \in SubOf(G, n) THEN 1 ELSE 0)
  <2>1. SubOf(G, n) \cap H = SubOf(K, n) \cap H
    BY <1>1, <1>2
  <2>2. x \in SubOf(G, n) <=> at \in SubOf(K, n)
    BY <1>1, SubFacts
  <2>3. P[n] = Cardinality(SubOf(K, n) \cap H) + (IF at \in SubOf(K, n) THEN 1 ELSE 0)
    BY DEF Counted
  <2> QED BY <2>1, <2>2, <2>3
<1>4. Q[x] = Cardinality(SubOf(G, x) \cap H) + (IF x \in SubOf(G, x) THEN 1 ELSE 0)
  <2>1. SubOf(G, x) \cap H = {} /\ x \in SubOf(G, x)
    BY <1>1, <1>2
  <2> QED BY <2>1, FS_EmptySet
<1>5. Counted(G, H, Q, x)
  BY <1>1, <1>2, <1>3, <1>4 DEF Counted
<1> QED BY <1>5

\* The node it is at is cut: the lower half has what was there before.
LEMMA CountHalves ==
    ASSUME NEW K, Graph(K), NEW H, NEW P, NEW Q, NEW at \in DOMAIN K, NEW x, x \notin DOMAIN K,
           NEW G, G = Cut(K, at, x),
           Counted(K, H, P, at), Q[x] = P[at] - 1, \A n \in DOMAIN K : Q[n] = P[n],
           NEW I, I = (H \ {at}) \cup (IF at \in H THEN {x} ELSE {})
    PROVE  Counted(G, I, Q, at)
<1>1. /\ Graph(G) /\ DOMAIN G = DOMAIN K \cup {x}
      /\ SubOf(G, x) = (SubOf(K, at) \ {at}) \cup {x}
      /\ \A n \in DOMAIN K :
            SubOf(G, n) = SubOf(K, n) \cup (IF at \in SubOf(K, n) THEN {x} ELSE {})
  <2>1. CutBelow(K, at, x, G)
    BY CutGraph
  <2> QED BY <2>1 DEF CutBelow
<1>2. H \subseteq DOMAIN K /\ I \subseteq DOMAIN G
  BY <1>1 DEF Counted
<1>3. \A n \in DOMAIN K :
         /\ SubOf(K, n) \subseteq DOMAIN K /\ n \in SubOf(K, n)
         /\ P[n] = Cardinality(SubOf(K, n) \cap H) + (IF at \in SubOf(K, n) THEN 1 ELSE 0)
         /\ IsFiniteSet(SubOf(K, n) \cap H) /\ Cardinality(SubOf(K, n) \cap H) \in Nat
  BY SubFacts, HeadsFinite DEF Counted
\* Where at has been, x is now.
<1>4. ASSUME NEW A, A \subseteq DOMAIN K, at \in A, IsFiniteSet(A \cap H)
      PROVE  Cardinality(((A \ {at}) \cup {x}) \cap I) = Cardinality(A \cap H)
  <2> DEFINE B == ((A \ {at}) \cup {x}) \cap I
             C == (A \cap H) \ {at}
  <2>1. CASE at \in H
    <3>1. B = C \cup {x} /\ x \notin C /\ at \in A \cap H
      BY <1>2, <1>4, <2>1
    <3> DEFINE D == A \cap H
    <3>2. C = D \ {at} /\ IsFiniteSet(D) /\ at \in D
      BY <1>4, <3>1
    <3> HIDE DEF B, C, D
    <3>3. IsFiniteSet(C) /\ Cardinality(C) = Cardinality(D) - 1
      BY <3>2, FS_RemoveElement
    <3>4. Cardinality(B) = Cardinality(C) + 1
      BY <3>1, <3>3, FS_AddElement
    <3>5. Cardinality(D) \in Nat
      BY <3>2, FS_CardinalityType
    <3>6. Cardinality(B) = Cardinality(D)
      BY <3>3, <3>4, <3>5
    <3> QED BY <3>6 DEF B, D
  <2>2. CASE at \notin H
    <3>1. B = A \cap H
      BY <1>2, <1>4, <2>2
    <3> QED BY <3>1
  <2> QED BY <2>1, <2>2
<1>5. Q[x] = Cardinality(SubOf(G, x) \cap I) + (IF at \in SubOf(G, x) THEN 1 ELSE 0)
  <2>1. Cardinality(((SubOf(K, at) \ {at}) \cup {x}) \cap I) = Cardinality(SubOf(K, at) \cap H)
    BY <1>3, <1>4
  <2>2. at \notin SubOf(G, x)
    BY <1>1
  <2>3. P[at] = Cardinality(SubOf(K, at) \cap H) + 1 /\ Cardinality(SubOf(K, at) \cap H) \in Nat
    BY <1>3
  <2> QED BY <1>1, <2>1, <2>2, <2>3
<1>6. ASSUME NEW n \in DOMAIN K
      PROVE  Q[n] = Cardinality(SubOf(G, n) \cap I) + (IF at \in SubOf(G, n) THEN 1 ELSE 0)
  <2>1. CASE at \in SubOf(K, n)
    <3>1. SubOf(G, n) \cap I = ((SubOf(K, n) \ {at}) \cup {x}) \cap I
      BY <1>1, <1>2, <1>3, <2>1
    <3>2. Cardinality(((SubOf(K, n) \ {at}) \cup {x}) \cap I) = Cardinality(SubOf(K, n) \cap H)
      BY <1>3, <1>4, <2>1
    <3>3. at \in SubOf(G, n)
      BY <1>1, <2>1
    <3> QED BY <1>3, <2>1, <3>1, <3>2, <3>3
  <2>2. CASE at \notin SubOf(K, n)
    <3>1. SubOf(G, n) = SubOf(K, n)
      BY <1>1, <2>2
    <3>2. SubOf(K, n) \cap I = SubOf(K, n) \cap H
      BY <1>2, <1>3, <2>2
    <3> QED BY <1>3, <2>2, <3>1, <3>2
  <2> QED BY <2>1, <2>2
<1>7. Counted(G, I, Q, at)
  BY <1>1, <1>2, <1>5, <1>6 DEF Counted
<1> QED BY <1>7

\* It ends where it is.
LEMMA CountEnd ==
    ASSUME NEW K, Graph(K), NEW H, NEW P, NEW at \in DOMAIN K, NEW away, away \notin DOMAIN K,
           Counted(K, H, P, at), at \notin H
    PROVE  Counted(K, H \cup {at}, P, away)
<1> DEFINE I == H \cup {at}
<1>1. I \subseteq DOMAIN K
  BY DEF Counted
<1>2. ASSUME NEW n \in DOMAIN K
      PROVE  P[n] = Cardinality(SubOf(K, n) \cap I) + (IF away \in SubOf(K, n) THEN 1 ELSE 0)
  <2> DEFINE A == SubOf(K, n)
             B == A \cap H
  <2>1. /\ P[n] = Cardinality(B) + (IF at \in A THEN 1 ELSE 0)
        /\ IsFiniteSet(B) /\ Cardinality(B) \in Nat
    BY HeadsFinite DEF Counted
  <2>2. away \notin A
    BY SubFacts
  <2>3. CASE at \in A
    <3>1. A \cap I = B \cup {at} /\ at \notin B
      BY <2>3
    <3> HIDE DEF A, B, I
    <3>2. Cardinality(A \cap I) = Cardinality(B) + 1
      BY <2>1, <3>1, FS_AddElement
    <3>3. P[n] = Cardinality(A \cap I) + (IF away \in A THEN 1 ELSE 0)
      BY <2>1, <2>2, <2>3, <3>2
    <3> QED BY <3>3 DEF A
  <2>4. CASE at \notin A
    <3>1. A \cap I = B
      BY <2>4
    <3> HIDE DEF A, B, I
    <3>2. P[n] = Cardinality(A \cap I) + (IF away \in A THEN 1 ELSE 0)
      BY <2>1, <2>2, <2>4, <3>1
    <3> QED BY <3>2 DEF A
  <2> QED BY <2>3, <2>4
<1> HIDE DEF I
<1>3. Counted(K, I, P, away)
  BY <1>1, <1>2 DEF Counted
<1> QED BY <1>3 DEF I

-----------------------------------------------------------------------------
(* The places of the nodes.                                                *)

KidsOf(t) == [n \in DOMAIN t |-> Range(t[n].children)]
PrioritiesOf(t) == [n \in DOMAIN t |-> t[n].priority]
HeadsOf(t) == {n \in DOMAIN t : t[n].handler # None}

\* A list of children without repetition, in falling order of their priorities.
Ordered(t, s) ==
    \A i, j \in 1 .. Len(s) :
        /\ i # j => s[i] # s[j]
        /\ i <= j => t[s[i]].priority >= t[s[j]].priority
OrderInv(t) == \A n \in DOMAIN t : Ordered(t, t[n].children)

\* The character that leads to a node: the first of its path, or of the path that
\* it will get.
First(nd) == IF nd.path = <<>> THEN "/" ELSE nd.path[1]
LabelsOf(t, hole, p) ==
    [c \in DOMAIN t |-> IF c = hole /\ p[1] \notin Wildcards THEN p[1] ELSE First(t[c])]

\* What a node says of its children, whose characters are L.
Labelled(nd, L) ==
    /\ ~nd.wild /\ nd.type # "param" =>
          /\ Len(nd.indices) = Len(nd.children)
          /\ \A k \in 1 .. Len(nd.children) : nd.indices[k] = L[nd.children[k]]
    /\ nd.type = "param" =>
          Len(nd.children) <= 1 /\ \A c \in Range(nd.children) : L[c] = "/"
LabelInv(t, L) == L[1] = "/" /\ \A n \in DOMAIN t : Labelled(t[n], L)

\* The node to which a route has come.
At == IF pc \in {"add", "insert"} THEN node ELSE 0

PlaceInv(t, L, at) ==
    /\ Graph(KidsOf(t))
    /\ OrderInv(t)
    /\ LabelInv(t, L)
    /\ Counted(KidsOf(t), HeadsOf(t), PrioritiesOf(t), at)

ExactInv ==
    pc \in {"idle", "add", "insert"} =>
        /\ PlaceInv(tree, LabelsOf(tree, Hole, path), At)
        /\ pc = "add" => First(AtNode) = path[1]

-----------------------------------------------------------------------------
(* Priorities that rise.                                                   *)

\* One priority has risen; only orders may have changed.
Risen(t, u, c) ==
    /\ DOMAIN u = DOMAIN t
    /\ \A n \in DOMAIN t :
          /\ u[n].path = t[n].path /\ u[n].wild = t[n].wild /\ u[n].handler = t[n].handler
          /\ u[n].type = "param" <=> t[n].type = "param"
          /\ Range(u[n].children) = Range(t[n].children)
          /\ u[n].priority = IF n = c THEN t[n].priority + 1 ELSE t[n].priority

LEMMA RisenFacts ==
    ASSUME NEW t, NEW u, NEW c, Risen(t, u, c)
    PROVE  /\ KidsOf(u) = KidsOf(t) /\ HeadsOf(u) = HeadsOf(t)
           /\ \A hole, p : LabelsOf(u, hole, p) = LabelsOf(t, hole, p)
           /\ DOMAIN KidsOf(t) = DOMAIN t
           /\ \A n \in DOMAIN t : /\ PrioritiesOf(t)[n] = t[n].priority
                                  /\ PrioritiesOf(u)[n] = u[n].priority
<1>1. KidsOf(u) = KidsOf(t)
  BY DEF Risen, KidsOf
<1>2. HeadsOf(u) = HeadsOf(t)
  BY DEF Risen, HeadsOf
<1>3. \A hole, p : LabelsOf(u, hole, p) = LabelsOf(t, hole, p)
  BY DEF Risen, LabelsOf, First
<1>4. \A n \in DOMAIN t : /\ PrioritiesOf(t)[n] = t[n].priority
                          /\ PrioritiesOf(u)[n] = u[n].priority
  BY DEF Risen, PrioritiesOf
<1> QED BY <1>1, <1>2, <1>3, <1>4 DEF KidsOf

\* One node, and what the graph says of its list of children.
LEMMA ListFrom ==
    ASSUME NEW t, IsTree(t), Graph(KidsOf(t)), NEW n \in DOMAIN t, NEW k \in DOMAIN t,
           NEW i \in 1 .. Len(t[n].children), NEW j \in 1 .. Len(t[k].children)
    PROVE  /\ t[n].children[i] \in DOMAIN t
           /\ t[n].children[i] \in Range(t[n].children)
           /\ t[n].children[i] = t[k].children[j] => n = k
<1>1. /\ t[n].children \in Seq(2 .. Len(t)) /\ t[k].children \in Seq(2 .. Len(t))
      /\ DOMAIN t = 1 .. Len(t) /\ Len(t) \in Nat
  BY TreeDomain DEF NodeSet
<1> DEFINE a == t[n].children[i]
           b == t[k].children[j]
<1>2. a \in 2 .. Len(t) /\ a \in Range(t[n].children) /\ b \in Range(t[k].children)
  <2>1. ASSUME NEW s \in Seq(2 .. Len(t)), NEW x \in 1 .. Len(s)
        PROVE  s[x] \in 2 .. Len(t) /\ s[x] \in Range(s)
    BY DEF Range
  <2> QED BY <1>1, <2>1
<1>3. a \in DOMAIN t
  BY <1>1, <1>2
<1> HIDE DEF a, b
<1>4. a = b => n = k
  BY <1>2 DEF Graph, KidsOf
<1> QED BY <1>2, <1>3, <1>4 DEF a, b

\* The children and indices of node n of u are those of t, up to their order.
SameList(t, u, n) ==
    \/ u[n].children = t[n].children /\ u[n].indices = t[n].indices
    \/ /\ Len(u[n].children) = Len(t[n].children)
       /\ Len(u[n].indices) = Len(t[n].children)
       /\ \A k \in 1 .. Len(t[n].children) : \E j \in 1 .. Len(t[n].children) :
             u[n].children[k] = t[n].children[j] /\ u[n].indices[k] = t[n].indices[j]
Relisted(t, u) == \A n \in DOMAIN t : SameList(t, u, n)

\* The priority of c has risen, nothing else has changed but perhaps static to root.
RaisedAt(t, u, c) ==
    /\ DOMAIN u = DOMAIN t /\ \A n \in DOMAIN t \ {c} : u[n] = t[n]
    /\ u[c].path = t[c].path /\ u[c].wild = t[c].wild /\ u[c].handler = t[c].handler
    /\ u[c].type = "param" <=> t[c].type = "param"
    /\ u[c].children = t[c].children /\ u[c].indices = t[c].indices
    /\ u[c].priority = t[c].priority + 1

LEMMA BumpRaises ==
    ASSUME NEW t, IsTree(t), NEW c \in DOMAIN t, NEW u, u = [t EXCEPT ![c].priority = @ + 1]
    PROVE  RaisedAt(t, u, c)
<1>1. t[c] \in NodeSet(Len(t))
  BY TreeDomain
<1>2. /\ DOMAIN u = DOMAIN t /\ \A n \in DOMAIN t \ {c} : u[n] = t[n]
      /\ u[c] = [t[c] EXCEPT !.priority = @ + 1]
  BY TreeDomain
<1>3. /\ u[c].path = t[c].path /\ u[c].wild = t[c].wild /\ u[c].handler = t[c].handler
      /\ u[c].type = t[c].type /\ u[c].children = t[c].children
      /\ u[c].indices = t[c].indices /\ u[c].priority = t[c].priority + 1
  BY <1>1, <1>2 DEF NodeSet
<1> QED BY <1>2, <1>3 DEF RaisedAt

\* The priority of an only child, or of the root.
LEMMA BumpExact ==
    ASSUME NEW t, IsTree(t), Graph(KidsOf(t)), OrderInv(t), NEW c \in DOMAIN t, NEW u,
           RaisedAt(t, u, c),
           \A n \in DOMAIN t : c \in Range(t[n].children) => Len(t[n].children) = 1
    PROVE  Risen(t, u, c) /\ OrderInv(u) /\ Relisted(t, u)
<1>1. \A n \in DOMAIN t : t[n] \in NodeSet(Len(t))
  BY TreeDomain
<1>2. DOMAIN u = DOMAIN t /\ \A n \in DOMAIN t \ {c} : u[n] = t[n]
  BY DEF RaisedAt
<1>3. /\ u[c].path = t[c].path /\ u[c].wild = t[c].wild /\ u[c].handler = t[c].handler
      /\ u[c].type = "param" <=> t[c].type = "param"
      /\ u[c].children = t[c].children
      /\ u[c].indices = t[c].indices /\ u[c].priority = t[c].priority + 1
  BY DEF RaisedAt
<1>4. Risen(t, u, c)
  BY <1>2, <1>3 DEF Risen
<1>5. \A n \in DOMAIN t : u[n].children = t[n].children /\ u[n].indices = t[n].indices
  BY <1>2, <1>3
<1>6. ASSUME NEW n \in DOMAIN t, NEW i \in 1 .. Len(t[n].children),
             NEW j \in 1 .. Len(t[n].children)
      PROVE  /\ i # j => t[n].children[i] # t[n].children[j]
             /\ i <= j => u[t[n].children[i]].priority >= u[t[n].children[j]].priority
  <2> DEFINE a == t[n].children[i]
             b == t[n].children[j]
  <2>1. /\ i # j => a # b
        /\ i <= j => t[a].priority >= t[b].priority
        /\ a \in DOMAIN t /\ b \in DOMAIN t
        /\ a \in Range(t[n].children) /\ b \in Range(t[n].children)
    BY ListFrom DEF OrderInv, Ordered
  <2>2. t[a].priority \in Int /\ t[b].priority \in Int
    BY <1>1, <2>1 DEF NodeSet
  <2>3. CASE a = c \/ b = c
    <3>1. i = 1 /\ j = 1
      BY <2>1, <2>3
    <3>2. a = b
      BY <3>1
    <3>3. u[a].priority \in Int
      BY <1>4, <2>1, <2>2 DEF Risen
    <3> QED BY <3>1, <3>2, <3>3
  <2>4. CASE a # c /\ b # c
    <3>1. u[a].priority = t[a].priority /\ u[b].priority = t[b].priority
      BY <1>4, <2>1, <2>4 DEF Risen
    <3> QED BY <2>1, <3>1
  <2> QED BY <2>3, <2>4
<1>7. OrderInv(u)
  BY <1>2, <1>5, <1>6 DEF OrderInv, Ordered
<1> QED BY <1>4, <1>5, <1>7 DEF Relisted, SameList

\* Where elements come from: each from one place, and in the order of their ranks.
LEMMA FromFacts ==
    ASSUME NEW m \in Nat, NEW pos \in 1 .. m, NEW to \in 1 .. pos
    PROVE  /\ \A i \in 1 .. m : From(i, pos, to) \in 1 .. m
           /\ \A i, j \in 1 .. m : i # j => From(i, pos, to) # From(j, pos, to)
           /\ \A i \in 1 .. m : From(i, pos, pos) = i
<1>1. pos \in Nat /\ to \in Nat /\ 1 <= to /\ to <= pos /\ pos <= m
  OBVIOUS
<1>2. \A i \in 1 .. m : From(i, pos, to) \in 1 .. m
  BY <1>1 DEF From
<1>3. \A i, j \in 1 .. m : i # j => From(i, pos, to) # From(j, pos, to)
  BY <1>1 DEF From
<1>4. \A i \in 1 .. m : From(i, pos, pos) = i
  BY <1>1 DEF From
<1> QED BY <1>2, <1>3, <1>4

LEMMA FromOrder ==
    ASSUME NEW m \in Nat, NEW pos \in 1 .. m, NEW to \in 1 .. pos, NEW q \in [1 .. m -> Int],
           \A i, j \in 1 .. m : i <= j /\ i # pos /\ j # pos => q[i] >= q[j],
           \A k \in 1 .. m : k < to => q[k] >= q[pos],
           \A k \in 1 .. m : k >= to => q[pos] >= q[k]
    PROVE  \A i, j \in 1 .. m : i <= j => q[From(i, pos, to)] >= q[From(j, pos, to)]
<1> SUFFICES ASSUME NEW i \in 1 .. m, NEW j \in 1 .. m, i <= j
             PROVE  q[From(i, pos, to)] >= q[From(j, pos, to)]
  OBVIOUS
<1> DEFINE a == From(i, pos, to)
           b == From(j, pos, to)
<1>1. /\ pos \in Nat /\ to \in Nat /\ 1 <= to /\ to <= pos /\ pos <= m
      /\ i \in Nat /\ j \in Nat /\ 1 <= i /\ j <= m
  OBVIOUS
<1>2. a \in 1 .. m /\ b \in 1 .. m
  BY FromFacts
<1>3. CASE i = to
  <2>1. a = pos
    BY <1>1, <1>3 DEF From
  <2>2. b = pos \/ b >= to
    BY <1>1, <1>3 DEF From
  <2>3. b >= to
    BY <1>1, <2>2
  <2> HIDE DEF a, b
  <2>4. q[a] >= q[b]
    BY <1>2, <2>1, <2>3
  <2> QED BY <2>4 DEF a, b
<1>4. CASE j = to
  <2>1. b = pos
    BY <1>1, <1>4 DEF From
  <2>2. a = pos \/ a < to
    BY <1>1, <1>4 DEF From
  <2> HIDE DEF a, b
  <2>3. q[a] >= q[b]
    <3>1. CASE a = pos
      <4>1. q[pos] \in Int
        OBVIOUS
      <4> QED BY <2>1, <3>1, <4>1
    <3>2. CASE a < to
      BY <1>2, <2>1, <3>2
    <3> QED BY <2>2, <3>1, <3>2
  <2> QED BY <2>3 DEF a, b
<1>5. CASE i # to /\ j # to
  <2>1. a # pos /\ b # pos /\ a <= b
    BY <1>1, <1>5 DEF From
  <2> HIDE DEF a, b
  <2>2. q[a] >= q[b]
    BY <1>2, <2>1
  <2> QED BY <2>2 DEF a, b
<1> QED BY <1>3, <1>4, <1>5

\* pgrest_rtree_child_priority: the children stay in order, each with its index.
LEMMA RaiseExact ==
    ASSUME NEW t, IsTree(t), Graph(KidsOf(t)), OrderInv(t), NEW n \in DOMAIN t,
           NEW pos \in 1 .. Len(t[n].children),
           Len(t[n].indices) = Len(t[n].children),
           NEW u, u = Raise(t, n, pos)
    PROVE  Risen(t, u, t[n].children[pos]) /\ OrderInv(u) /\ Relisted(t, u)
<1> DEFINE m == Len(t[n].children)
           kids == t[n].children
           ix == t[n].indices
           c == kids[pos]
           raised == [t EXCEPT ![t[n].children[pos]].priority = @ + 1]
           rank(k) == raised[kids[k]].priority
           before == {k \in 1 .. pos - 1 : rank(k) >= rank(pos)} \cup {0}
           to == 1 + Max(before)
           moved(s) == InsertAt(RemoveAt(s, pos), to, s[pos])
           mk == moved(kids)
           mi == moved(ix)
<1>1. /\ t[n] \in NodeSet(Len(t)) /\ Len(t) \in Nat /\ DOMAIN t = 1 .. Len(t)
      /\ kids \in Seq(2 .. Len(t)) /\ ix \in Seq(STRING) /\ Len(ix) = m /\ Len(kids) = m
      /\ m \in Nat /\ pos \in 1 .. m /\ pos \in Nat /\ pos <= m
      /\ \A k \in DOMAIN t : t[k] \in NodeSet(Len(t)) /\ t[k].priority \in Int
  <2>1. /\ t[n] \in NodeSet(Len(t)) /\ Len(t) \in Nat /\ DOMAIN t = 1 .. Len(t)
        /\ \A k \in DOMAIN t : t[k] \in NodeSet(Len(t))
    BY TreeDomain
  <2>2. kids \in Seq(2 .. Len(t)) /\ ix \in Seq(STRING)
    BY <2>1 DEF NodeSet
  <2>3. \A k \in DOMAIN t : t[k].priority \in Int
    BY <2>1 DEF NodeSet
  <2> QED BY <2>1, <2>2, <2>3
<1>2. \A i, j \in 1 .. m :
          /\ kids[i] \in DOMAIN t /\ kids[i] \in Range(kids)
          /\ i # j => kids[i] # kids[j]
          /\ i <= j => t[kids[i]].priority >= t[kids[j]].priority
  BY ListFrom DEF OrderInv, Ordered
<1> HIDE DEF m
<1>0. m \in Nat /\ pos \in 1 .. m /\ pos \in Nat /\ 1 <= pos /\ pos <= m
  BY <1>1
<1>3. c \in DOMAIN t
  BY <1>1, <1>2
<1>4. /\ DOMAIN raised = DOMAIN t /\ \A k \in DOMAIN t \ {c} : raised[k] = t[k]
      /\ raised[c].priority = t[c].priority + 1
      /\ raised[c].path = t[c].path /\ raised[c].wild = t[c].wild
      /\ raised[c].handler = t[c].handler /\ raised[c].type = t[c].type
      /\ raised[c].children = t[c].children /\ raised[c].indices = t[c].indices
  <2>1. /\ DOMAIN raised = DOMAIN t /\ \A k \in DOMAIN t \ {c} : raised[k] = t[k]
        /\ raised[c] = [t[c] EXCEPT !.priority = @ + 1]
    BY <1>1, <1>3
  <2>2. t[c] \in NodeSet(Len(t))
    BY <1>1, <1>3
  <2> HIDE DEF c, raised
  <2> QED BY <2>1, <2>2 DEF NodeSet
<1>5. \A k \in 1 .. m : rank(k) = IF k = pos THEN t[c].priority + 1 ELSE t[kids[k]].priority
  <2> SUFFICES ASSUME NEW k \in 1 .. m
               PROVE  rank(k) = IF k = pos THEN t[c].priority + 1 ELSE t[kids[k]].priority
    OBVIOUS
  <2>1. CASE k = pos
    BY <1>4, <2>1
  <2>2. CASE k # pos
    <3>1. kids[k] \in DOMAIN t /\ kids[k] # c
      BY <1>1, <1>2, <2>2
    <3> QED BY <1>4, <2>2, <3>1
  <2> QED BY <2>1, <2>2
<1>6. ASSUME NEW k \in 1 .. m PROVE rank(k) \in Int
  <2>1. t[kids[k]].priority \in Int /\ t[c].priority \in Int
    BY <1>1, <1>2, <1>3
  <2>2. rank(k) = t[c].priority + 1 \/ rank(k) = t[kids[k]].priority
    BY <1>5
  <2> HIDE DEF kids, c, rank
  <2> QED BY <2>1, <2>2
<1>7. /\ to \in 1 .. pos
      /\ \A k \in 1 .. m : k < to => rank(k) >= rank(pos)
      /\ \A k \in 1 .. m : k >= to => rank(pos) >= rank(k)
  <2>1. before \subseteq 0 .. pos - 1 /\ 0 \in before
    BY <1>1
  <2>2. Max(before) \in before /\ \A k \in before : k <= Max(before)
    <3> HIDE DEF before
    <3>1. before \subseteq Nat /\ before # {} /\ pos \in Nat /\ \A k \in before : k <= pos
      BY <1>1, <2>1
    <3> QED BY <3>1, MaxFacts
  <2> DEFINE most == Max(before)
  <2>3. most \in 0 .. pos - 1 /\ to = 1 + most
    BY <2>1, <2>2
  <2>4. most # 0 => most \in 1 .. m /\ rank(most) >= rank(pos) /\ most # pos
    <3>1. \A k \in before : k # 0 => k \in 1 .. pos - 1 /\ rank(k) >= rank(pos)
      OBVIOUS
    <3> HIDE DEF before, rank
    <3>2. most # 0 => most \in 1 .. pos - 1 /\ rank(most) >= rank(pos)
      BY <2>2, <3>1
    <3> QED BY <1>1, <3>2
  <2>5. \A k \in 1 .. pos - 1 : rank(k) >= rank(pos) => k <= most
    BY <2>2
  <2> HIDE DEF most, before, rank
  <2>6. to \in 1 .. pos
    BY <1>1, <2>3
  <2>7. ASSUME NEW k \in 1 .. m, k < to PROVE rank(k) >= rank(pos)
    <3>1. most # 0 /\ k <= most /\ k # pos
      BY <1>0, <2>3, <2>7
    <3>2. t[kids[k]].priority >= t[kids[most]].priority
      BY <1>2, <2>4, <3>1
    <3>3. rank(k) >= rank(most)
      BY <1>5, <2>4, <3>1, <3>2
    <3>4. rank(k) \in Int /\ rank(most) \in Int /\ rank(pos) \in Int
      BY <1>1, <1>6, <2>4, <3>1
    <3> QED BY <2>4, <3>1, <3>3, <3>4
  <2>8. ASSUME NEW k \in 1 .. m, k >= to PROVE rank(pos) >= rank(k)
    <3>1. rank(k) \in Int /\ rank(pos) \in Int
      BY <1>1, <1>6
    <3>2. CASE k < pos
      <4>1. ~(rank(k) >= rank(pos))
        BY <1>1, <2>3, <2>5, <2>8, <3>2
      <4> QED BY <3>1, <4>1
    <3>3. CASE k = pos
      BY <3>1, <3>3
    <3>4. CASE k > pos
      <4>1. t[kids[pos]].priority >= t[kids[k]].priority /\ k # pos
        BY <1>0, <1>2, <3>4
      <4>2. t[kids[pos]].priority \in Int /\ t[kids[k]].priority \in Int
        BY <1>0, <1>1, <1>2
      <4>3. /\ rank(pos) = t[kids[pos]].priority + 1
            /\ rank(k) = t[kids[k]].priority
        BY <1>0, <1>5, <4>1
      <4> HIDE DEF kids
      <4> QED BY <4>1, <4>2, <4>3
    <3> QED BY <1>1, <3>2, <3>3, <3>4
  <2> QED BY <2>6, <2>7, <2>8
<1> HIDE DEF to, raised
<1>70. m \in Nat /\ pos \in 1 .. m /\ to \in 1 .. pos
  BY <1>0, <1>7
<1>8. /\ mk \in Seq(2 .. Len(t)) /\ Len(mk) = m /\ Range(mk) = Range(kids)
      /\ mi \in Seq(STRING) /\ Len(mi) = m
      /\ \A j \in 1 .. m : mk[j] = kids[From(j, pos, to)] /\ mi[j] = ix[From(j, pos, to)]
  <2>1. /\ mk \in Seq(2 .. Len(t)) /\ Len(mk) = m /\ Range(mk) = Range(kids)
        /\ \A j \in 1 .. m : mk[j] = kids[From(j, pos, to)]
    <3>1. kids \in Seq(2 .. Len(t)) /\ Len(kids) = m
      BY <1>1
    <3> HIDE DEF kids
    <3>2. pos \in 1 .. Len(kids) /\ to \in 1 .. pos
      BY <1>70, <3>1
    <3> HIDE DEF m
    <3> DEFINE T == 2 .. Len(t)
               x == Moved(kids, pos, to)
    <3>3. /\ x \in Seq(T) /\ Len(x) = Len(kids) /\ Range(x) = Range(kids)
          /\ \A j \in 1 .. Len(kids) : x[j] = kids[From(j, pos, to)]
      <4>1. kids \in Seq(T)
        BY <3>1
      <4> HIDE DEF T
      <4> QED BY <3>2, <4>1, MoveFacts
    <3>4. x = mk
      BY DEF Moved
    <3> HIDE DEF x, mk
    <3> QED BY <3>1, <3>3, <3>4
  <2>2. /\ mi \in Seq(STRING) /\ Len(mi) = m
        /\ \A j \in 1 .. m : mi[j] = ix[From(j, pos, to)]
    <3>1. ix \in Seq(STRING) /\ Len(ix) = m
      BY <1>1
    <3> HIDE DEF ix
    <3>2. pos \in 1 .. Len(ix) /\ to \in 1 .. pos
      BY <1>70, <3>1
    <3> HIDE DEF m
    <3> DEFINE x == Moved(ix, pos, to)
    <3>3. /\ x \in Seq(STRING) /\ Len(x) = Len(ix)
          /\ \A j \in 1 .. Len(ix) : x[j] = ix[From(j, pos, to)]
      BY <3>1, <3>2, MoveFacts
    <3>4. x = mi
      BY DEF Moved
    <3> HIDE DEF x, mi
    <3> QED BY <3>1, <3>3, <3>4
  <2> QED BY <2>1, <2>2
\* What has become of the node: in both cases the elements come from the same places.
<1>9. /\ DOMAIN u = DOMAIN t /\ \A k \in DOMAIN t \ {n} : u[k] = raised[k]
      /\ u[n].path = raised[n].path /\ u[n].wild = raised[n].wild
      /\ u[n].handler = raised[n].handler /\ u[n].type = raised[n].type
      /\ u[n].priority = raised[n].priority
      /\ Len(u[n].children) = m /\ Len(u[n].indices) = m /\ Range(u[n].children) = Range(kids)
      /\ \A j \in 1 .. m : /\ u[n].children[j] = kids[From(j, pos, to)]
                           /\ u[n].indices[j] = ix[From(j, pos, to)]
  <2> DEFINE y == [raised EXCEPT ![n].children = moved(@), ![n].indices = moved(@)]
  <2>1. u = IF to = pos THEN raised ELSE y
    BY Zenon DEF Raise, raised, to
  <2>2. raised[n].children = kids /\ raised[n].indices = ix /\ Similar(t, raised)
    <3>1. raised[n].children = kids /\ raised[n].indices = ix
      BY <1>4
    <3> QED BY <1>3, <3>1, BumpFacts DEF raised
  <2>3. CASE to = pos
    <3>1. \A j \in 1 .. m : From(j, pos, to) = j
      BY <1>70, <2>3, FromFacts
    <3> QED BY <1>1, <1>4, <2>1, <2>2, <2>3, <3>1
  <2>4. CASE to # pos
    <3> DEFINE x == [raised[n] EXCEPT !.children = mk, !.indices = mi]
    <3>1. y = [raised EXCEPT ![n] = x]
      BY <1>4, <2>2
    <3>2. raised[n] \in NodeSet(Len(t))
      <4>1. IsTree(raised) /\ n \in DOMAIN raised /\ Len(raised) = Len(t)
        BY <1>4, <2>2 DEF Similar
      <4> QED BY <4>1, TreeDomain
    <3> HIDE DEF mk, mi
    <3>3. /\ x.path = raised[n].path /\ x.wild = raised[n].wild
          /\ x.handler = raised[n].handler /\ x.type = raised[n].type
          /\ x.priority = raised[n].priority /\ x.children = mk /\ x.indices = mi
      BY <3>2 DEF NodeSet
    <3> HIDE DEF x, y
    <3>4. DOMAIN u = DOMAIN t /\ u[n] = x /\ \A k \in DOMAIN t \ {n} : u[k] = raised[k]
      BY <1>4, <2>1, <2>4, <3>1
    <3> HIDE DEF kids, ix
    <3> QED BY <1>8, <3>3, <3>4
  <2> QED BY <2>3, <2>4
<1> HIDE DEF mk, mi
<1>10. Risen(t, u, c)
  <2> SUFFICES ASSUME NEW k \in DOMAIN t
               PROVE  /\ u[k].path = t[k].path /\ u[k].wild = t[k].wild
                      /\ u[k].handler = t[k].handler
                      /\ u[k].type = "param" <=> t[k].type = "param"
                      /\ Range(u[k].children) = Range(t[k].children)
                      /\ u[k].priority = IF k = c THEN t[k].priority + 1 ELSE t[k].priority
    BY <1>9 DEF Risen
  <2>1. /\ raised[k].path = t[k].path /\ raised[k].wild = t[k].wild
        /\ raised[k].handler = t[k].handler /\ raised[k].type = t[k].type
        /\ raised[k].children = t[k].children
        /\ raised[k].priority = IF k = c THEN t[k].priority + 1 ELSE t[k].priority
    BY <1>4
  <2> QED BY <1>9, <2>1
<1>11. \A k \in DOMAIN t : u[k].type = t[k].type
  BY <1>4, <1>9
<1>12. \A k \in DOMAIN t \ {n} :
          u[k].children = t[k].children /\ u[k].indices = t[k].indices
  BY <1>4, <1>9
<1>13. Relisted(t, u)
  <2>1. \A j \in 1 .. m : From(j, pos, to) \in 1 .. m
    BY <1>70, FromFacts
  <2>2. /\ Len(u[n].children) = Len(t[n].children) /\ Len(u[n].indices) = Len(t[n].children)
        /\ \A k \in 1 .. Len(t[n].children) : \E j \in 1 .. Len(t[n].children) :
              u[n].children[k] = t[n].children[j] /\ u[n].indices[k] = t[n].indices[j]
    BY <1>9, <2>1 DEF m
  <2>3. SameList(t, u, n)
    BY <1>11, <2>2 DEF SameList
  <2>4. ASSUME NEW k \in DOMAIN t, k # n PROVE SameList(t, u, k)
    BY <1>11, <1>12, <2>4 DEF SameList
  <2> QED BY <2>3, <2>4 DEF Relisted
<1>14. \A k \in DOMAIN t : u[k].priority = raised[k].priority
  BY <1>9
<1>15. Ordered(u, u[n].children)
  <2> DEFINE q == [k \in 1 .. m |-> rank(k)]
  <2>1. \A i, j \in 1 .. m : i <= j /\ i # pos /\ j # pos => rank(i) >= rank(j)
    BY <1>2, <1>5
  <2>2. q \in [1 .. m -> Int] /\ \A k \in 1 .. m : q[k] = rank(k)
    BY <1>6
  <2> HIDE DEF q, rank
  <2>3. \A i, j \in 1 .. m : i <= j => q[From(i, pos, to)] >= q[From(j, pos, to)]
    BY <1>7, <1>70, <2>1, <2>2, FromOrder
  <2>4. /\ \A i \in 1 .. m : From(i, pos, to) \in 1 .. m
        /\ \A i, j \in 1 .. m : i # j => From(i, pos, to) # From(j, pos, to)
    <3>1. \A i \in 1 .. m : From(i, pos, to) \in 1 .. m
      BY <1>70, FromFacts
    <3>2. \A i, j \in 1 .. m : i # j => From(i, pos, to) # From(j, pos, to)
      BY <1>70 DEF From
    <3> QED BY <3>1, <3>2
  <2>5. \A i \in 1 .. m : u[u[n].children[i]].priority = q[From(i, pos, to)]
    <3> SUFFICES ASSUME NEW i \in 1 .. m
                 PROVE  u[u[n].children[i]].priority = q[From(i, pos, to)]
      OBVIOUS
    <3>1. From(i, pos, to) \in 1 .. m
      BY <2>4
    <3>2. u[n].children[i] = kids[From(i, pos, to)] /\ kids[From(i, pos, to)] \in DOMAIN t
      BY <1>2, <1>9, <3>1
    <3> QED BY <1>14, <2>2, <3>1, <3>2 DEF rank
  <2>6. \A i, j \in 1 .. m : i # j => kids[i] # kids[j]
    BY <1>2
  <2>7. \A i, j \in 1 .. m : i # j => u[n].children[i] # u[n].children[j]
    <3> HIDE DEF kids
    <3>1. \A i \in 1 .. m : u[n].children[i] = kids[From(i, pos, to)]
      BY <1>9
    <3> QED BY <2>4, <2>6, <3>1
  <2> QED BY <1>9, <2>3, <2>5, <2>7 DEF Ordered
<1>16. ASSUME NEW k \in DOMAIN t, k # n PROVE Ordered(u, u[k].children)
  <2> SUFFICES ASSUME NEW i \in 1 .. Len(t[k].children), NEW j \in 1 .. Len(t[k].children)
               PROVE  /\ i # j => t[k].children[i] # t[k].children[j]
                      /\ i <= j => u[t[k].children[i]].priority >= u[t[k].children[j]].priority
    <3>1. u[k].children = t[k].children
      BY <1>12, <1>16
    <3> QED BY <3>1 DEF Ordered
  <2> DEFINE a == t[k].children[i]
             b == t[k].children[j]
  <2>1. /\ i # j => a # b
        /\ i <= j => t[a].priority >= t[b].priority
        /\ a \in DOMAIN t /\ b \in DOMAIN t
    BY ListFrom DEF OrderInv, Ordered
  <2>2. a # c /\ b # c
    <3>1. \A l \in 1 .. Len(t[k].children) : t[k].children[l] = t[n].children[pos] => k = n
      BY ListFrom
    <3> QED BY <1>16, <3>1
  <2> HIDE DEF c
  <2>3. u[a].priority = t[a].priority /\ u[b].priority = t[b].priority
    BY <1>10, <2>1, <2>2 DEF Risen
  <2> QED BY <2>1, <2>3
<1>17. OrderInv(u)
  BY <1>9, <1>15, <1>16 DEF OrderInv
<1> QED BY <1>10, <1>13, <1>17

\* The labels do not change when priorities and orders do.
LEMMA LabelsKept ==
    ASSUME NEW t, NEW u, NEW L, NEW c, Risen(t, u, c), Relisted(t, u), LabelInv(t, L)
    PROVE  LabelInv(u, L)
<1>1. /\ L[1] = "/" /\ DOMAIN u = DOMAIN t
      /\ \A k \in DOMAIN t : Labelled(t[k], L) /\ u[k].wild = t[k].wild
                             /\ Range(u[k].children) = Range(t[k].children)
  BY DEF LabelInv, Risen
<1>2. ASSUME NEW k \in DOMAIN t PROVE Labelled(u[k], L)
  <2>1. /\ (u[k].type = "param" <=> t[k].type = "param") /\ u[k].wild = t[k].wild
        /\ Labelled(t[k], L) /\ Range(u[k].children) = Range(t[k].children)
    BY <1>1 DEF Risen
  <2>2. CASE u[k].children = t[k].children /\ u[k].indices = t[k].indices
    BY <2>1, <2>2 DEF Labelled
  <2>3. CASE /\ Len(u[k].children) = Len(t[k].children)
             /\ Len(u[k].indices) = Len(t[k].children)
             /\ \A i \in 1 .. Len(t[k].children) : \E j \in 1 .. Len(t[k].children) :
                   u[k].children[i] = t[k].children[j] /\ u[k].indices[i] = t[k].indices[j]
    <3>1. ASSUME ~u[k].wild, u[k].type # "param"
          PROVE  /\ Len(u[k].indices) = Len(u[k].children)
                 /\ \A i \in 1 .. Len(u[k].children) : u[k].indices[i] = L[u[k].children[i]]
      <4>1. \A j \in 1 .. Len(t[k].children) : t[k].indices[j] = L[t[k].children[j]]
        BY <2>1, <3>1 DEF Labelled
      <4>2. ASSUME NEW i \in 1 .. Len(u[k].children)
            PROVE  u[k].indices[i] = L[u[k].children[i]]
        <5>1. PICK j \in 1 .. Len(t[k].children) :
                  u[k].children[i] = t[k].children[j] /\ u[k].indices[i] = t[k].indices[j]
          BY <2>3
        <5> QED BY <4>1, <5>1
      <4> QED BY <2>3, <4>2
    <3>2. ASSUME u[k].type = "param"
          PROVE  Len(u[k].children) <= 1 /\ \A d \in Range(u[k].children) : L[d] = "/"
      BY <2>1, <2>3, <3>2 DEF Labelled
    <3> QED BY <3>1, <3>2 DEF Labelled
  <2> QED BY <2>2, <2>3 DEF Relisted, SameList
<1> QED BY <1>1, <1>2 DEF LabelInv

-----------------------------------------------------------------------------
(* The steps.                                                              *)

\* Without a node that waits for its path, the labels are those of the nodes.
LEMMA PlainLabels ==
    ASSUME NEW t, NEW hole, hole \notin DOMAIN t, NEW p
    PROVE  LabelsOf(t, hole, p) = [c \in DOMAIN t |-> First(t[c])]
  BY DEF LabelsOf

LEMMA PlaceFacts ==
    ASSUME RadixInv, ExactInv, pc \in {"idle", "add", "insert"}
    PROVE  /\ PlaceInv(tree, LabelsOf(tree, Hole, path), At)
           /\ Graph(KidsOf(tree)) /\ OrderInv(tree)
           /\ LabelInv(tree, LabelsOf(tree, Hole, path))
           /\ Counted(KidsOf(tree), HeadsOf(tree), PrioritiesOf(tree), At)
           /\ IsTree(tree) /\ DOMAIN tree = 1 .. Len(tree) /\ Len(tree) \in Nat
           /\ node \in DOMAIN tree /\ 0 \notin DOMAIN tree
           /\ DOMAIN KidsOf(tree) = DOMAIN tree
           /\ \A n \in DOMAIN tree : KidsOf(tree)[n] = Range(tree[n].children)
<1>1. PlaceInv(tree, LabelsOf(tree, Hole, path), At)
  BY DEF ExactInv
<1>2. IsTree(tree) /\ DOMAIN tree = 1 .. Len(tree) /\ Len(tree) \in Nat /\ node \in DOMAIN tree
  BY InvFacts
<1>3. 0 \notin DOMAIN tree
  BY <1>2
<1> QED BY <1>1, <1>2, <1>3 DEF PlaceInv, KidsOf

\* The call of pgrest_rtree_add goes down to a child.
LEMMA DownExact ==
    ASSUME RadixInv, ExactInv, Descending, node' \in Range(AtNode.children), path' = Rest,
           pc' \in {"add", "failed"},
           Risen(tree, tree', node'), OrderInv(tree'), Relisted(tree, tree'),
           pc' = "add" => First(tree[node']) = Rest[1]
    PROVE  ExactInv'
<1> SUFFICES ASSUME pc' = "add"
             PROVE  /\ PlaceInv(tree', LabelsOf(tree', Hole', path'), At')
                    /\ First(AtNode') = path'[1]
  BY DEF ExactInv
<1>0. pc = "add" /\ Hole = 0 /\ At = node /\ Hole' = 0 /\ At' = node'
  BY DEF Descending, Hole, At
<1>1. /\ Graph(KidsOf(tree))
      /\ Counted(KidsOf(tree), HeadsOf(tree), PrioritiesOf(tree), node)
      /\ IsTree(tree) /\ node \in DOMAIN tree /\ 0 \notin DOMAIN tree
      /\ DOMAIN KidsOf(tree) = DOMAIN tree
      /\ KidsOf(tree)[node] = Range(AtNode.children)
  BY <1>0, PlaceFacts DEF AtNode
<1>2. node' \in DOMAIN tree /\ DOMAIN tree' = DOMAIN tree
  BY InvFacts DEF Risen
<1>3. /\ KidsOf(tree') = KidsOf(tree) /\ HeadsOf(tree') = HeadsOf(tree)
      /\ \A n \in DOMAIN tree : /\ PrioritiesOf(tree)[n] = tree[n].priority
                                /\ PrioritiesOf(tree')[n] = tree'[n].priority
      /\ \A hole, p : LabelsOf(tree', hole, p) = LabelsOf(tree, hole, p)
  BY RisenFacts
<1>4. Counted(KidsOf(tree), HeadsOf(tree), PrioritiesOf(tree'), node')
  <2>1. /\ PrioritiesOf(tree')[node'] = PrioritiesOf(tree)[node'] + 1
        /\ \A n \in DOMAIN KidsOf(tree) \ {node'} : PrioritiesOf(tree')[n] = PrioritiesOf(tree)[n]
    BY <1>1, <1>2, <1>3 DEF Risen
  <2> QED BY <1>1, <2>1, CountDown
<1>5. LabelsOf(tree', Hole', path') = LabelsOf(tree, Hole, path)
  BY <1>0, <1>1, <1>3, PlainLabels
<1>6. PlaceInv(tree', LabelsOf(tree', Hole', path'), At')
  <2>1. LabelInv(tree, LabelsOf(tree, Hole, path))
    BY <1>0, PlaceFacts
  <2>2. LabelInv(tree', LabelsOf(tree, Hole, path))
    BY <2>1, LabelsKept
  <2> QED BY <1>0, <1>1, <1>3, <1>4, <1>5, <2>2 DEF PlaceInv
<1>7. First(AtNode') = path'[1]
  <2>1. tree'[node'].path = tree[node'].path
    BY <1>2 DEF Risen
  <2> QED BY <2>1 DEF First, AtNode
<1> QED BY <1>6, <1>7

\* It goes down to an only child.
LEMMA DownBump ==
    ASSUME RadixInv, ExactInv, Descending, Len(AtNode.children) = 1,
           NEW c, c = AtNode.children[1],
           node' = c, tree' = [tree EXCEPT ![c].priority = @ + 1], path' = Rest,
           pc' \in {"add", "failed"},
           pc' = "add" => First(tree[c]) = Rest[1]
    PROVE  ExactInv'
<1>1. /\ pc \in {"idle", "add", "insert"}
      /\ Graph(KidsOf(tree)) /\ OrderInv(tree)
      /\ IsTree(tree) /\ node \in DOMAIN tree /\ 0 \notin DOMAIN tree
      /\ DOMAIN KidsOf(tree) = DOMAIN tree
      /\ \A n \in DOMAIN tree : KidsOf(tree)[n] = Range(tree[n].children)
  <2>1. pc = "add"
    BY DEF Descending
  <2> QED BY <2>1, PlaceFacts
<1>2. c \in Range(AtNode.children) /\ c \in DOMAIN tree
  <2>1. AtNode.children \in Seq(2 .. Len(tree)) /\ 1 \in 1 .. Len(AtNode.children)
    BY InvFacts
  <2>2. c \in Range(AtNode.children)
    BY <2>1 DEF Range
  <2> QED BY <2>2, InvFacts
<1>3. \A n \in DOMAIN tree : c \in Range(tree[n].children) => Len(tree[n].children) = 1
  <2> SUFFICES ASSUME NEW n \in DOMAIN tree, c \in Range(tree[n].children)
               PROVE  Len(tree[n].children) = 1
    OBVIOUS
  <2>1. c \in KidsOf(tree)[n] \cap KidsOf(tree)[node]
    BY <1>1, <1>2 DEF AtNode
  <2>2. n = node
    BY <1>1, <2>1 DEF Graph
  <2> QED BY <2>2 DEF AtNode
<1>4. Risen(tree, tree', c) /\ OrderInv(tree') /\ Relisted(tree, tree')
  <2>1. RaisedAt(tree, tree', c)
    BY <1>1, <1>2, BumpRaises
  <2> QED BY <1>1, <1>2, <1>3, <2>1, BumpExact
<1> QED BY <1>2, <1>4, DownExact

LEMMA DescendWildExact ==
    ASSUME RadixInv, ExactInv, DescendWild
    PROVE  ExactInv'
<1> DEFINE c == AtNode.children[1]
<1>1. /\ Descending /\ AtNode.wild /\ node' = c /\ tree' = [tree EXCEPT ![c].priority = @ + 1]
      /\ pc' = IF SameWild(tree[c].path, Rest) THEN "add" ELSE "failed"
      /\ path' = Rest
  BY DEF DescendWild
<1>2. Len(AtNode.children) = 1 /\ Rest \in Seq(STRING) /\ Rest # <<>>
  BY <1>1, InvFacts, DescendFacts DEF NodeInv
<1>3. tree[c].path \in Seq(STRING)
  <2>1. AtNode.children \in Seq(2 .. Len(tree)) /\ 1 \in 1 .. Len(AtNode.children)
    BY <1>2, InvFacts
  <2>2. c \in Range(AtNode.children)
    BY <2>1 DEF Range
  <2>3. tree[c] \in NodeSet(Len(tree))
    BY <2>2, InvFacts
  <2> QED BY <2>3 DEF NodeSet
<1>4. ASSUME SameWild(tree[c].path, Rest) PROVE First(tree[c]) = Rest[1]
  <2> DEFINE w == tree[c].path
  <2>1. w = <<>> => Rest[1] = "/"
    <3> SUFFICES ASSUME w = <<>> PROVE Rest[1] = "/"
      OBVIOUS
    <3>1. Len(w) = 0 /\ Len(Rest) # 0
      BY <1>2
    <3> QED BY <1>4, <3>1 DEF SameWild
  <2>2. w # <<>> => w[1] = Rest[1]
    <3> SUFFICES ASSUME w # <<>> PROVE w[1] = Rest[1]
      OBVIOUS
    <3>1. Len(w) \in Nat /\ Len(w) > 0 /\ Len(w) <= Len(Rest) /\ w = SubSeq(Rest, 1, Len(w))
      BY <1>2, <1>3, <1>4 DEF SameWild, IsPrefix
    <3> HIDE DEF w
    <3>2. SubSeq(Rest, 1, Len(w))[1] = Rest[1]
      <4> DEFINE k == Len(w)
      <4>1. k \in 0 .. Len(Rest) /\ 1 \in 1 .. k
        BY <1>2, <3>1
      <4> HIDE DEF k
      <4>2. SubSeq(Rest, 1, k)[1] = Rest[1]
        BY <1>2, <4>1, TakePath
      <4> QED BY <4>2 DEF k
    <3> QED BY <3>1, <3>2
  <2> QED BY <2>1, <2>2 DEF First
<1> HIDE DEF c
<1>5. pc' \in {"add", "failed"} /\ (pc' = "add" => First(tree[c]) = Rest[1])
  BY <1>1, <1>4
<1> QED BY <1>1, <1>2, <1>5, DownBump DEF c

\* What the lists of a node say of its children, when no node waits for its path.
LEMMA ListLabels ==
    ASSUME RadixInv, ExactInv, pc \in {"idle", "add"}, NEW n \in DOMAIN tree
    PROVE  /\ ~tree[n].wild /\ tree[n].type # "param" =>
                 /\ Len(tree[n].indices) = Len(tree[n].children)
                 /\ \A k \in 1 .. Len(tree[n].children) :
                       tree[n].indices[k] = First(tree[tree[n].children[k]])
           /\ tree[n].type = "param" =>
                 Len(tree[n].children) <= 1
                 /\ \A c \in Range(tree[n].children) : First(tree[c]) = "/"
<1> DEFINE L == [c \in DOMAIN tree |-> First(tree[c])]
<1>1. Hole = 0 /\ 0 \notin DOMAIN tree /\ LabelInv(tree, LabelsOf(tree, Hole, path))
      /\ IsTree(tree) /\ Graph(KidsOf(tree))
  BY PlaceFacts DEF Hole
<1>2. LabelsOf(tree, Hole, path) = L
  BY <1>1, PlainLabels
<1> HIDE DEF L
<1>3. Labelled(tree[n], L)
  BY <1>1, <1>2 DEF LabelInv
<1>4. \A k \in 1 .. Len(tree[n].children) :
         L[tree[n].children[k]] = First(tree[tree[n].children[k]])
  BY <1>1, ListFrom DEF L
<1>5. \A c \in Range(tree[n].children) : L[c] = First(tree[c])
  <2>1. tree[n] \in NodeSet(Len(tree))
    BY InvFacts
  <2>2. tree[n].children \in Seq(2 .. Len(tree))
    BY <2>1 DEF NodeSet
  <2>3. DOMAIN tree[n].children = 1 .. Len(tree[n].children)
    BY <2>2
  <2> QED BY <1>4, <2>3 DEF Range
<1> QED BY <1>3, <1>4, <1>5 DEF Labelled

LEMMA DescendParamExact ==
    ASSUME RadixInv, ExactInv, DescendParam
    PROVE  ExactInv'
<1> DEFINE c == AtNode.children[1]
<1>1. /\ Descending /\ node' = c /\ tree' = [tree EXCEPT ![c].priority = @ + 1]
      /\ path' = Rest /\ pc' = pc /\ pc = "add"
      /\ Rest[1] = "/" /\ Len(AtNode.children) = 1 /\ AtNode.type = "param"
  BY DEF DescendParam, SlashBelowParam, Descending
<1>2. c \in Range(AtNode.children)
  <2>1. AtNode.children \in Seq(2 .. Len(tree)) /\ 1 \in 1 .. Len(AtNode.children)
    BY <1>1, InvFacts
  <2> QED BY <2>1 DEF Range
<1>3. First(tree[c]) = "/"
  <2>1. node \in DOMAIN tree
    BY InvFacts
  <2> QED BY <1>1, <1>2, <2>1, ListLabels DEF AtNode
<1> HIDE DEF c
<1> QED BY <1>1, <1>3, DownBump DEF c

LEMMA DescendIndexExact ==
    ASSUME RadixInv, ExactInv, DescendIndex
    PROVE  ExactInv'
<1> DEFINE pos == Min(Indexed)
           c == AtNode.children[pos]
<1>1. /\ Descending /\ ~AtNode.wild /\ ~SlashBelowParam /\ Indexed # {}
      /\ node' = c /\ tree' = Raise(tree, node, pos) /\ path' = Rest
      /\ pc' = pc /\ pc = "add"
  BY DEF DescendIndex, Descending
<1>2. node \in DOMAIN tree /\ IsTree(tree) /\ Graph(KidsOf(tree)) /\ OrderInv(tree)
  BY <1>1, PlaceFacts
<1>3. /\ AtNode.indices \in Seq(STRING) /\ AtNode.children \in Seq(2 .. Len(tree))
      /\ Len(AtNode.indices) <= Len(AtNode.children)
  BY InvFacts DEF NodeInv
<1>4. pos \in 1 .. Len(AtNode.indices) /\ AtNode.indices[pos] = Rest[1]
  <2>1. DOMAIN AtNode.indices = 1 .. Len(AtNode.indices)
    BY <1>3
  <2>2. Indexed \subseteq Nat /\ Indexed # {}
    BY <1>1, <2>1 DEF Indexed
  <2>3. pos \in Indexed
    BY <2>2, MinFacts
  <2> QED BY <2>1, <2>3 DEF Indexed
<1> HIDE DEF pos
<1>5. AtNode.type # "param"
  <2> SUFFICES ASSUME AtNode.type = "param" PROVE FALSE
    OBVIOUS
  <2>1. Rest[1] = "/" /\ Len(AtNode.children) <= 1
    BY <1>1, <1>2, DescendFacts, ListLabels DEF Holds, AtNode
  <2>2. Len(AtNode.children) = 1
    <3> DEFINE a == Len(AtNode.indices)
               b == Len(AtNode.children)
    <3>1. a \in Nat /\ b \in Nat /\ a <= b
      BY <1>3
    <3>2. b <= 1 /\ pos \in 1 .. a
      BY <1>4, <2>1
    <3> HIDE DEF a, b
    <3>3. b = 1
      BY <3>1, <3>2
    <3> QED BY <3>3 DEF b
  <2> QED BY <1>1, <2>1, <2>2 DEF SlashBelowParam
<1>6. /\ Len(AtNode.indices) = Len(AtNode.children)
      /\ \A k \in 1 .. Len(AtNode.children) : AtNode.indices[k] = First(tree[AtNode.children[k]])
  BY <1>1, <1>2, <1>5, ListLabels DEF AtNode
<1>7. First(tree[c]) = Rest[1] /\ pos \in 1 .. Len(AtNode.children)
  BY <1>4, <1>6
<1>8. Risen(tree, tree', c) /\ OrderInv(tree') /\ Relisted(tree, tree')
  <2>1. pos \in 1 .. Len(tree[node].children)
        /\ Len(tree[node].indices) = Len(tree[node].children)
    BY <1>6, <1>7 DEF AtNode
  <2>2. Risen(tree, tree', tree[node].children[pos]) /\ OrderInv(tree') /\ Relisted(tree, tree')
    BY <1>1, <1>2, <2>1, RaiseExact
  <2> QED BY <2>2 DEF AtNode
<1>9. c \in Range(AtNode.children)
  BY <1>3, <1>7 DEF Range
<1> HIDE DEF c
<1> QED BY <1>1, <1>7, <1>8, <1>9, DownExact

\* A call begins at the root.
LEMMA AddExact ==
    ASSUME RadixInv, ExactInv, NEW r \in Routes, Add(r)
    PROVE  ExactInv'
<1> DEFINE empty == tree[1].path = <<>> /\ tree[1].children = <<>>
<1>1. /\ tree' = [tree EXCEPT ![1].priority = @ + 1, ![1].type = IF empty THEN "root" ELSE @]
      /\ pc' \in {"insert", "add"} /\ pc = "idle" /\ node' = 1 /\ path' = r
  BY DEF Add
<1>2. /\ IsTree(tree) /\ 1 \in DOMAIN tree /\ 0 \notin DOMAIN tree /\ Hole = 0 /\ At = 0
      /\ Graph(KidsOf(tree)) /\ OrderInv(tree)
      /\ LabelInv(tree, LabelsOf(tree, Hole, path))
      /\ Counted(KidsOf(tree), HeadsOf(tree), PrioritiesOf(tree), 0)
      /\ DOMAIN KidsOf(tree) = DOMAIN tree
      /\ \A n \in DOMAIN tree : KidsOf(tree)[n] = Range(tree[n].children)
  <2>1. Hole = 0 /\ At = 0
    BY <1>1 DEF Hole, At
  <2> QED BY <1>1, <2>1, PlaceFacts, InvFacts
<1>3. RaisedAt(tree, tree', 1)
  <2>1. tree[1] \in NodeSet(Len(tree)) /\ tree[1].type \in {"static", "root"}
    BY InvFacts DEF TreeInv
  <2>2. /\ DOMAIN tree' = DOMAIN tree /\ \A n \in DOMAIN tree \ {1} : tree'[n] = tree[n]
        /\ tree'[1] = [tree[1] EXCEPT !.priority = @ + 1,
                                      !.type = IF empty THEN "root" ELSE @]
    BY <1>1, <1>2
  <2> HIDE DEF empty
  <2>3. /\ tree'[1].path = tree[1].path /\ tree'[1].wild = tree[1].wild
        /\ tree'[1].handler = tree[1].handler
        /\ tree'[1].type # "param" /\ tree[1].type # "param"
        /\ tree'[1].children = tree[1].children /\ tree'[1].indices = tree[1].indices
        /\ tree'[1].priority = tree[1].priority + 1
    BY <2>1, <2>2 DEF NodeSet
  <2> QED BY <2>2, <2>3 DEF RaisedAt
<1> DEFINE u == tree'
<1> HIDE DEF u
<1>4. \A n \in DOMAIN tree : 1 \in Range(tree[n].children) => Len(tree[n].children) = 1
  BY <1>2 DEF Graph
<1>5. Risen(tree, u, 1) /\ OrderInv(u) /\ Relisted(tree, u)
  BY <1>2, <1>3, <1>4, BumpExact DEF u
<1>6. /\ KidsOf(u) = KidsOf(tree) /\ HeadsOf(u) = HeadsOf(tree)
      /\ \A n \in DOMAIN tree : /\ PrioritiesOf(tree)[n] = tree[n].priority
                                /\ PrioritiesOf(u)[n] = u[n].priority
      /\ \A hole, p : LabelsOf(u, hole, p) = LabelsOf(tree, hole, p)
  BY <1>5, RisenFacts
<1>7. Counted(KidsOf(tree), HeadsOf(tree), PrioritiesOf(u), 1)
  <2>1. /\ PrioritiesOf(u)[1] = PrioritiesOf(tree)[1] + 1
        /\ \A n \in DOMAIN KidsOf(tree) \ {1} : PrioritiesOf(u)[n] = PrioritiesOf(tree)[n]
    BY <1>2, <1>5, <1>6 DEF Risen
  <2> QED BY <1>2, <2>1, CountRoot
<1>8. r[1] = "/" /\ "/" \notin Wildcards
  BY RadixTreeAssumption DEF Wildcards
<1>9. First(tree[1]) = "/"
  <2>1. LabelsOf(tree, Hole, path)[1] = First(tree[1])
    BY <1>2, PlainLabels
  <2> QED BY <1>2, <2>1 DEF LabelInv
<1>10. Hole' \in {0, 1} /\ At' = 1
  BY <1>1 DEF Hole, At
<1>11. LabelsOf(u, Hole', r) = LabelsOf(tree, Hole, path)
  <2>1. LabelsOf(tree, Hole', r) = [c \in DOMAIN tree |-> First(tree[c])]
    BY <1>2, <1>8, <1>9, <1>10 DEF LabelsOf
  <2> QED BY <1>2, <1>6, <2>1, PlainLabels
<1>12. LabelInv(u, LabelsOf(tree, Hole, path))
  BY <1>2, <1>5, LabelsKept
<1>13. PlaceInv(tree', LabelsOf(tree', Hole', path'), At')
  BY <1>1, <1>2, <1>5, <1>6, <1>7, <1>10, <1>11, <1>12 DEF PlaceInv, u
<1>14. First(AtNode') = path'[1]
  <2>1. tree'[1].path = tree[1].path
    BY <1>3 DEF RaisedAt
  <2> QED BY <1>1, <1>8, <1>9, <2>1 DEF First, AtNode
<1> QED BY <1>13, <1>14 DEF ExactInv

\* A wildcard goes below the node: its label stays.
LEMMA WildHereExact ==
    ASSUME RadixInv, ExactInv, WildHere
    PROVE  ExactInv'
<1>1. /\ pc = "add" /\ Rest[1] \in Wildcards
      /\ pc' = "insert" /\ path' = Rest /\ tree' = tree /\ node' = node
  BY DEF WildHere, NoWayDown, Descending
<1>2. Hole = 0 /\ At = node /\ Hole' = node /\ At' = node
  BY <1>1 DEF Hole, At
<1>3. PlaceInv(tree, LabelsOf(tree, Hole, path), At) /\ 0 \notin DOMAIN tree
  BY <1>1, PlaceFacts
<1>4. LabelsOf(tree, node, Rest) = LabelsOf(tree, Hole, path)
  <2>1. LabelsOf(tree, node, Rest) = [c \in DOMAIN tree |-> First(tree[c])]
    BY <1>1 DEF LabelsOf
  <2> QED BY <1>2, <1>3, <2>1, PlainLabels
<1> QED BY <1>1, <1>2, <1>3, <1>4 DEF ExactInv

\* Nothing is said of the label of a node that holds a wildcard.
LEMMA LabelsButWild ==
    ASSUME NEW t, IsTree(t), NEW hole, TreeInv(t, hole), NEW L, LabelInv(t, L), NEW M,
           \A c \in DOMAIN t : ~Holds(t[c]) => M[c] = L[c]
    PROVE  LabelInv(t, M)
<1>1. M[1] = "/"
  BY RootHoldsNone, TreeDomain DEF LabelInv
<1>2. ASSUME NEW n \in DOMAIN t PROVE Labelled(t[n], M)
  <2>1. /\ Labelled(t[n], L) /\ NodeInv(t[n], n = hole)
        /\ \A c \in Range(t[n].children) : Holds(t[c]) <=> t[n].wild
    BY DEF LabelInv, TreeInv, LinkInv
  <2>2. /\ t[n].children \in Seq(2 .. Len(t)) /\ DOMAIN t = 1 .. Len(t) /\ Len(t) \in Nat
    BY TreeDomain DEF NodeSet
  <2>3. \A k \in 1 .. Len(t[n].children) :
            t[n].children[k] \in Range(t[n].children) /\ t[n].children[k] \in DOMAIN t
    <3> SUFFICES ASSUME NEW k \in 1 .. Len(t[n].children)
                 PROVE  t[n].children[k] \in Range(t[n].children)
                        /\ t[n].children[k] \in DOMAIN t
      OBVIOUS
    <3>1. k \in DOMAIN t[n].children /\ t[n].children[k] \in 2 .. Len(t)
      BY <2>2
    <3> QED BY <2>2, <3>1 DEF Range
  <2>4. ~t[n].wild => \A k \in 1 .. Len(t[n].children) :
                         M[t[n].children[k]] = L[t[n].children[k]]
    BY <2>1, <2>3
  <2>5. ~t[n].wild => \A c \in Range(t[n].children) : M[c] = L[c]
    <3>1. \A c \in Range(t[n].children) : c \in DOMAIN t
      BY <2>2, <2>3 DEF Range
    <3> QED BY <2>1, <3>1
  <2>6. t[n].type = "param" => ~t[n].wild
    BY <2>1 DEF NodeInv
  <2> QED BY <2>1, <2>4, <2>5, <2>6 DEF Labelled
<1> QED BY <1>1, <1>2 DEF LabelInv

\* A route ends at a node that had no handler.
Ended(t, u, at) ==
    /\ DOMAIN u = DOMAIN t
    /\ t[at].handler = None /\ u[at].handler # None
    /\ \A n \in DOMAIN t :
          /\ u[n].wild = t[n].wild /\ u[n].type = t[n].type /\ u[n].priority = t[n].priority
          /\ u[n].children = t[n].children /\ u[n].indices = t[n].indices
          /\ n # at => u[n].handler = t[n].handler

LEMMA EndExact ==
    ASSUME NEW t, NEW u, IsTree(t), NEW hole, TreeInv(t, hole), NEW at \in DOMAIN t,
           Ended(t, u, at), NEW L, PlaceInv(t, L, at), NEW M,
           \A c \in DOMAIN t : ~Holds(t[c]) => M[c] = L[c]
    PROVE  PlaceInv(u, M, 0)
<1>1. /\ Graph(KidsOf(t)) /\ OrderInv(t) /\ LabelInv(t, L)
      /\ Counted(KidsOf(t), HeadsOf(t), PrioritiesOf(t), at)
      /\ DOMAIN KidsOf(t) = DOMAIN t /\ 0 \notin DOMAIN t
  BY TreeDomain DEF PlaceInv, KidsOf
<1>2. KidsOf(u) = KidsOf(t) /\ PrioritiesOf(u) = PrioritiesOf(t)
  BY DEF Ended, KidsOf, PrioritiesOf
<1>3. HeadsOf(u) = HeadsOf(t) \cup {at} /\ at \notin HeadsOf(t)
  BY DEF Ended, HeadsOf
<1>4. Counted(KidsOf(t), HeadsOf(t) \cup {at}, PrioritiesOf(t), 0)
  BY <1>1, <1>3, CountEnd
<1>5. LabelInv(u, M)
  <2>1. LabelInv(t, M)
    BY <1>1, LabelsButWild
  <2> QED BY <2>1 DEF LabelInv, Labelled, Ended
<1>6. OrderInv(u)
  <2>1. ASSUME NEW n \in DOMAIN t PROVE Ordered(u, u[n].children)
    <3>1. Ordered(t, t[n].children) /\ u[n].children = t[n].children
      BY <1>1 DEF OrderInv, Ended
    <3>2. \A i \in 1 .. Len(t[n].children) :
              u[t[n].children[i]].priority = t[t[n].children[i]].priority
      BY <1>1, ListFrom DEF Ended
    <3> QED BY <3>1, <3>2 DEF Ordered
  <2> QED BY <2>1 DEF OrderInv, Ended
<1> QED BY <1>1, <1>2, <1>3, <1>4, <1>5, <1>6 DEF PlaceInv

LEMMA SetLeafExact ==
    ASSUME RadixInv, ExactInv, SetLeaf
    PROVE  ExactInv'
<1> SUFFICES ASSUME AtNode.handler = None PROVE ExactInv'
  BY DEF SetLeaf, ExactInv
<1>1. /\ pc = "add" /\ tree' = [tree EXCEPT ![node].handler = route]
      /\ pc' = "idle" /\ path' = path /\ AtNode = tree[node]
  BY DEF SetLeaf, AtNode
<1>2. /\ IsTree(tree) /\ node \in DOMAIN tree /\ TreeInv(tree, Hole)
      /\ \A n \in DOMAIN tree : tree[n] \in NodeSet(Len(tree))
  BY InvFacts
<1>3. Hole = 0 /\ At = node /\ Hole' = 0 /\ At' = 0
  BY <1>1 DEF Hole, At
<1>4. route # None
  BY <1>1, RadixTreeAssumption DEF RadixInv, AddInv, None
<1>5. /\ DOMAIN tree' = DOMAIN tree /\ \A n \in DOMAIN tree \ {node} : tree'[n] = tree[n]
      /\ tree'[node] = [tree[node] EXCEPT !.handler = route]
  BY <1>1, <1>2
<1>6. /\ tree'[node].path = tree[node].path /\ tree'[node].handler = route
      /\ tree'[node].wild = tree[node].wild /\ tree'[node].type = tree[node].type
      /\ tree'[node].priority = tree[node].priority
      /\ tree'[node].children = tree[node].children
      /\ tree'[node].indices = tree[node].indices
  BY <1>2, <1>5 DEF NodeSet
<1>7. Ended(tree, tree', node)
  BY <1>1, <1>4, <1>5, <1>6 DEF Ended
<1>8. PlaceInv(tree, LabelsOf(tree, 0, path), node) /\ 0 \notin DOMAIN tree
  BY <1>1, <1>3, PlaceFacts
<1>9. \A c \in DOMAIN tree :
          ~Holds(tree[c]) => LabelsOf(tree', 0, path)[c] = LabelsOf(tree, 0, path)[c]
  <2>1. \A c \in DOMAIN tree : First(tree'[c]) = First(tree[c])
    BY <1>5, <1>6 DEF First
  <2> QED BY <1>5, <1>8, <2>1, PlainLabels
<1>10. PlaceInv(tree', LabelsOf(tree', 0, path), 0)
  BY <1>2, <1>7, <1>8, <1>9, EndExact
<1> QED BY <1>1, <1>3, <1>10 DEF ExactInv

LEMMA InsertRestExact ==
    ASSUME RadixInv, ExactInv, InsertRest
    PROVE  ExactInv'
<1>1. /\ pc = "insert" /\ left = 0
      /\ tree' = [tree EXCEPT ![node].path = path, ![node].handler = route]
      /\ pc' = "idle" /\ path' = path /\ AtNode = tree[node]
  BY NoneLeft DEF InsertRest, AtNode
<1>2. /\ IsTree(tree) /\ node \in DOMAIN tree /\ TreeInv(tree, Hole) /\ DOMAIN tree = 1 .. Len(tree)
      /\ \A n \in DOMAIN tree : tree[n] \in NodeSet(Len(tree))
      /\ path \in Seq(STRING)
  BY InvFacts
<1>3. Hole = node /\ At = node /\ Hole' = 0 /\ At' = 0
  BY <1>1 DEF Hole, At
<1>4. /\ route # None /\ AtNode.handler = None /\ path # <<>> /\ InsertInv
  BY <1>1, InsertFacts, RadixTreeAssumption DEF InsertInv, None
<1>5. /\ DOMAIN tree' = DOMAIN tree /\ \A n \in DOMAIN tree \ {node} : tree'[n] = tree[n]
      /\ tree'[node] = [tree[node] EXCEPT !.path = path, !.handler = route]
  BY <1>1, <1>2
<1>6. /\ tree'[node].path = path /\ tree'[node].handler = route
      /\ tree'[node].wild = tree[node].wild /\ tree'[node].type = tree[node].type
      /\ tree'[node].priority = tree[node].priority
      /\ tree'[node].children = tree[node].children
      /\ tree'[node].indices = tree[node].indices
  BY <1>2, <1>5 DEF NodeSet
<1>7. Ended(tree, tree', node)
  BY <1>1, <1>4, <1>5, <1>6 DEF Ended
<1>8. PlaceInv(tree, LabelsOf(tree, node, path), node) /\ 0 \notin DOMAIN tree
  BY <1>1, <1>3, PlaceFacts
<1>9. ~Holds(tree[node]) => path[1] \notin Wildcards
  <2> SUFFICES ASSUME ~Holds(tree[node]) PROVE path[1] \notin Wildcards
    OBVIOUS
  <2>1. WildCount(path) = 0
    BY <1>1, <1>4 DEF InsertInv, Holds
  <2>2. 1 \in 1 .. Len(path)
    <3>1. Len(path) \in Nat /\ Len(path) > 0
      BY <1>1, InsertFacts
    <3> QED BY <3>1
  <2> QED BY <1>2, <2>1, <2>2, CountSome
<1>10. ASSUME NEW c \in DOMAIN tree, ~Holds(tree[c])
       PROVE  LabelsOf(tree', 0, path)[c] = LabelsOf(tree, node, path)[c]
  <2>1. LabelsOf(tree', 0, path)[c] = First(tree'[c])
    BY <1>5, <1>8, PlainLabels
  <2>2. CASE c = node
    <3>1. First(tree'[c]) = path[1]
      BY <1>4, <1>6, <2>2 DEF First
    <3> QED BY <1>9, <1>10, <2>1, <2>2, <3>1 DEF LabelsOf
  <2>3. CASE c # node
    BY <1>5, <2>1, <2>3 DEF LabelsOf
  <2> QED BY <2>2, <2>3
<1>11. PlaceInv(tree', LabelsOf(tree', 0, path), 0)
  BY <1>2, <1>7, <1>8, <1>10, EndExact
<1> QED BY <1>1, <1>3, <1>11 DEF ExactInv

\* A new leaf, counted once, below the node to which the route has come.
Sprouted(t, u, at, x) ==
    /\ DOMAIN u = DOMAIN t \cup {x} /\ x \notin DOMAIN t
    /\ Range(u[at].children) = Range(t[at].children) \cup {x}
    /\ Range(u[x].children) = {} /\ u[x].handler = None /\ u[x].priority = 1
    /\ \A n \in DOMAIN t :
          /\ u[n].handler = t[n].handler /\ u[n].priority = t[n].priority
          /\ n # at => Range(u[n].children) = Range(t[n].children)

LEMMA SproutExact ==
    ASSUME NEW t, NEW u, NEW at \in DOMAIN t, NEW x, Sprouted(t, u, at, x), Graph(KidsOf(t)),
           Counted(KidsOf(t), HeadsOf(t), PrioritiesOf(t), at)
    PROVE  /\ Graph(KidsOf(u))
           /\ Counted(KidsOf(u), HeadsOf(u), PrioritiesOf(u), x)
<1>1. DOMAIN KidsOf(t) = DOMAIN t /\ x \notin DOMAIN t
  BY DEF KidsOf, Sprouted
<1>2. KidsOf(u) = Leaf(KidsOf(t), at, x)
  <2>1. KidsOf(u) = [n \in DOMAIN t \cup {x} |-> Range(u[n].children)]
    BY DEF KidsOf, Sprouted
  <2>2. ASSUME NEW n \in DOMAIN t \cup {x}
        PROVE  Range(u[n].children) = IF n = x THEN {}
                                      ELSE IF n = at THEN KidsOf(t)[at] \cup {x}
                                      ELSE KidsOf(t)[n]
    BY <1>1 DEF KidsOf, Sprouted
  <2> QED BY <1>1, <2>1, <2>2 DEF Leaf
<1>3. HeadsOf(u) = HeadsOf(t)
  BY DEF HeadsOf, Sprouted
<1>4. PrioritiesOf(u)[x] = 1 /\ \A n \in DOMAIN t : PrioritiesOf(u)[n] = PrioritiesOf(t)[n]
  BY DEF PrioritiesOf, Sprouted
<1>5. Counted(KidsOf(u), HeadsOf(t), PrioritiesOf(u), x)
  BY <1>1, <1>2, <1>4, CountLeaf
<1>6. LeafBelow(KidsOf(t), at, x, KidsOf(u))
  BY <1>1, <1>2, LeafFacts
<1> QED BY <1>3, <1>5, <1>6 DEF LeafBelow

\* Every child of an old node is an old node.
LEMMA OldChild ==
    ASSUME NEW t, IsTree(t), NEW n \in DOMAIN t
    PROVE  /\ t[n].children \in Seq(DOMAIN t) /\ t[n].indices \in Seq(STRING)
           /\ \A k \in 1 .. Len(t[n].children) : t[n].children[k] \in DOMAIN t
           /\ DOMAIN t[n].children = 1 .. Len(t[n].children)
           /\ Range(t[n].children) \subseteq DOMAIN t
<1>1. t[n] \in NodeSet(Len(t)) /\ DOMAIN t = 1 .. Len(t) /\ Len(t) \in Nat
  BY TreeDomain
<1>2. t[n].children \in Seq(2 .. Len(t)) /\ t[n].indices \in Seq(STRING)
  BY <1>1 DEF NodeSet
<1>3. 2 .. Len(t) \subseteq DOMAIN t
  BY <1>1
<1>4. t[n].children \in Seq(DOMAIN t)
  BY <1>2, <1>3, LargerSeq
<1>5. \A k \in 1 .. Len(t[n].children) : t[n].children[k] \in DOMAIN t
  BY <1>4
<1>6. DOMAIN t[n].children = 1 .. Len(t[n].children)
  BY <1>2
<1> QED BY <1>2, <1>4, <1>5, <1>6 DEF Range

LEMMA AppendAt ==
    ASSUME NEW S, NEW s \in Seq(S), NEW y
    PROVE  /\ Len(Append(s, y)) = Len(s) + 1 /\ Append(s, y)[Len(s) + 1] = y
           /\ \A k \in 1 .. Len(s) : Append(s, y)[k] = s[k]
  OBVIOUS

LEMMA AppendChildExact ==
    ASSUME RadixInv, ExactInv, AppendChild
    PROVE  ExactInv'
<1> DEFINE x == Len(tree) + 1
           v == AppendMid
           u == tree'
           pos == Len(AppendGrown.indices)
           n == Len(AtNode.children)
<1>1. /\ pc = "add" /\ Descending /\ ~AtNode.wild /\ ~SlashBelowParam
      /\ pc' = "insert" /\ path' = Rest /\ node' = x /\ Rest[1] \notin Wildcards
      /\ AtNode = tree[node]
  BY DEF AppendChild, NoWayDown, Descending, AtNode
<1>2. /\ IsTree(tree) /\ DOMAIN tree = 1 .. Len(tree) /\ Len(tree) \in Nat
      /\ node \in DOMAIN tree /\ 1 \in DOMAIN tree
      /\ Graph(KidsOf(tree)) /\ OrderInv(tree) /\ DOMAIN KidsOf(tree) = DOMAIN tree
      /\ LabelInv(tree, LabelsOf(tree, Hole, path))
      /\ Counted(KidsOf(tree), HeadsOf(tree), PrioritiesOf(tree), node)
  <2>1. At = node
    BY <1>1 DEF At
  <2>2. 1 \in DOMAIN tree
    BY InvFacts
  <2> QED BY <1>1, <2>1, <2>2, PlaceFacts
<1>3. /\ Hole' = x /\ At' = x /\ x \notin DOMAIN tree
      /\ DOMAIN tree \cup {x} = 1 .. Len(tree) + 1
  BY <1>1, <1>2 DEF Hole, At
<1> HIDE DEF x
<1>4. /\ AppendGrown.children = Append(AtNode.children, x)
      /\ AppendGrown.indices = Append(AtNode.indices, Rest[1])
      /\ AppendGrown.wild = AtNode.wild /\ AppendGrown.type = AtNode.type
      /\ AppendGrown.path = AtNode.path /\ AppendGrown.handler = AtNode.handler
      /\ AppendGrown.priority = AtNode.priority
      /\ IsTree(v) /\ DOMAIN v = DOMAIN tree \cup {x}
      /\ v[node] = AppendGrown /\ v[x] = Blank
      /\ \A k \in DOMAIN tree \ {node} : v[k] = tree[k]
      /\ u = Raise(v, node, pos)
  BY <1>3, AppendFacts DEF x
<1>5. /\ Blank.children = <<>> /\ Blank.indices = <<>> /\ Blank.handler = None
      /\ Blank.wild = FALSE /\ Blank.type = "static" /\ Blank.priority = 0
      /\ Range(Blank.children) = {} /\ Len(Blank.children) = 0 /\ Len(Blank.indices) = 0
  BY DEF Blank, Range
<1>6. /\ AtNode.children \in Seq(DOMAIN tree) /\ AtNode.indices \in Seq(STRING)
      /\ n \in Nat /\ Len(AtNode.indices) \in Nat
      /\ \A k \in 1 .. n : AtNode.children[k] \in DOMAIN tree
  <2>1. AtNode.children \in Seq(DOMAIN tree) /\ AtNode.indices \in Seq(STRING)
        /\ \A k \in 1 .. n : AtNode.children[k] \in DOMAIN tree
    BY <1>1, <1>2, OldChild
  <2> QED BY <2>1
\* Both lists are of one length, and a parameter has no child yet.
<1>7. /\ Len(AtNode.indices) = n
      /\ AtNode.type = "param" => n = 0 /\ Rest[1] = "/"
      /\ AtNode.type # "param" =>
            \A k \in 1 .. n : AtNode.indices[k] = First(tree[AtNode.children[k]])
  <2>1. CASE AtNode.type = "param"
    <3>1. Rest[1] = "/" /\ n <= 1
      BY <1>1, <1>2, <2>1, DescendFacts, ListLabels DEF Holds
    <3>2. n # 1
      BY <1>1, <2>1, <3>1 DEF SlashBelowParam
    <3>3. Len(AtNode.indices) <= n
      BY InvFacts DEF NodeInv
    <3> HIDE DEF n
    <3> QED BY <1>6, <2>1, <3>1, <3>2, <3>3
  <2>2. CASE AtNode.type # "param"
    BY <1>1, <1>2, <2>2, ListLabels
  <2> QED BY <2>1, <2>2
<1>8. /\ Len(v[node].children) = n + 1 /\ Len(v[node].indices) = n + 1 /\ pos = n + 1
      /\ v[node].children[n + 1] = x /\ v[node].indices[n + 1] = Rest[1]
      /\ \A k \in 1 .. n : v[node].children[k] = AtNode.children[k]
                           /\ v[node].indices[k] = AtNode.indices[k]
  <2> DEFINE kids == AtNode.children
             ix == AtNode.indices
  <2>1. /\ Len(Append(kids, x)) = Len(kids) + 1 /\ Append(kids, x)[Len(kids) + 1] = x
        /\ \A k \in 1 .. Len(kids) : Append(kids, x)[k] = kids[k]
    BY <1>6, AppendAt
  <2>2. /\ Len(Append(ix, Rest[1])) = Len(ix) + 1 /\ Append(ix, Rest[1])[Len(ix) + 1] = Rest[1]
        /\ \A k \in 1 .. Len(ix) : Append(ix, Rest[1])[k] = ix[k]
    BY <1>6, AppendAt
  <2>3. /\ v[node].children = Append(kids, x) /\ v[node].indices = Append(ix, Rest[1])
        /\ AppendGrown.indices = Append(ix, Rest[1])
    BY <1>4
  <2>4. Len(ix) = n /\ Len(kids) = n
    BY <1>7
  <2> HIDE DEF kids, ix, v, n
  <2>5. /\ Len(v[node].children) = n + 1 /\ Len(v[node].indices) = n + 1 /\ pos = n + 1
        /\ v[node].children[n + 1] = x /\ v[node].indices[n + 1] = Rest[1]
        /\ \A k \in 1 .. n : v[node].children[k] = kids[k] /\ v[node].indices[k] = ix[k]
    BY <2>1, <2>2, <2>3, <2>4
  <2> QED BY <2>5 DEF kids, ix
<1>9. Range(v[node].children) = Range(tree[node].children) \cup {x}
  <2> DEFINE S == DOMAIN tree \cup {x}
             kids == AtNode.children
  <2>1. kids \in Seq(S) /\ x \in S
    BY <1>6, LargerSeq
  <2> HIDE DEF S, kids
  <2>2. Range(Append(kids, x)) = Range(kids) \cup {x}
    BY <2>1, AppendRange
  <2> QED BY <1>1, <1>4, <2>2 DEF kids
<1>10. /\ \A c \in DOMAIN tree : /\ v[c].priority = tree[c].priority /\ v[c].path = tree[c].path
                                 /\ v[c].handler = tree[c].handler
                                 /\ v[c].wild = tree[c].wild /\ v[c].type = tree[c].type
       /\ v[x].priority = 0
  BY <1>1, <1>4, <1>5
<1> HIDE DEF v, pos, n
<1>11. Graph(KidsOf(v))
  <2>1. KidsOf(v) = Leaf(KidsOf(tree), node, x)
    <3>1. KidsOf(v) = [k \in DOMAIN tree \cup {x} |-> Range(v[k].children)]
      BY <1>4 DEF KidsOf
    <3>2. ASSUME NEW k \in DOMAIN tree \cup {x}
          PROVE  Range(v[k].children) = IF k = x THEN {}
                                        ELSE IF k = node THEN KidsOf(tree)[node] \cup {x}
                                        ELSE KidsOf(tree)[k]
      BY <1>2, <1>3, <1>4, <1>5, <1>9 DEF KidsOf
    <3> QED BY <1>2, <3>1, <3>2 DEF Leaf
  <2>2. LeafBelow(KidsOf(tree), node, x, KidsOf(v))
    BY <1>2, <1>3, <2>1, LeafFacts
  <2> QED BY <2>2 DEF LeafBelow
<1>12. \A c \in DOMAIN tree : tree[c].priority \in Nat
  <2> SUFFICES ASSUME NEW c \in DOMAIN tree PROVE tree[c].priority \in Nat
    OBVIOUS
  <2>1. Cardinality(SubOf(KidsOf(tree), c) \cap HeadsOf(tree)) \in Nat
    BY <1>2, HeadsFinite
  <2>2. PrioritiesOf(tree)[c] \in Nat
    BY <1>2, <2>1 DEF Counted
  <2> QED BY <2>2 DEF PrioritiesOf
<1>13. OrderInv(v)
  <2>1. ASSUME NEW k \in DOMAIN tree \ {node} PROVE Ordered(v, v[k].children)
    <3>1. /\ v[k].children = tree[k].children /\ Ordered(tree, tree[k].children)
          /\ \A i \in 1 .. Len(tree[k].children) : tree[k].children[i] \in DOMAIN tree
      BY <1>2, <1>4, OldChild DEF OrderInv
    <3> QED BY <1>10, <3>1 DEF Ordered
  <2>2. Ordered(v, v[node].children)
    <3> SUFFICES ASSUME NEW i \in 1 .. n + 1, NEW j \in 1 .. n + 1
                 PROVE  /\ i # j => v[node].children[i] # v[node].children[j]
                        /\ i <= j => v[v[node].children[i]].priority
                                       >= v[v[node].children[j]].priority
      BY <1>8 DEF Ordered
    <3> DEFINE a == v[node].children[i]
               b == v[node].children[j]
    <3>1. \A k \in 1 .. n + 1 :
              IF k = n + 1 THEN v[node].children[k] = x
              ELSE k \in 1 .. n /\ v[node].children[k] = AtNode.children[k]
                   /\ AtNode.children[k] \in DOMAIN tree
      BY <1>6, <1>8
    <3>2. CASE i = n + 1 /\ j = n + 1
      BY <1>10, <3>1, <3>2
    <3>3. CASE i # n + 1 /\ j = n + 1
      <4>1. a \in DOMAIN tree /\ b = x
        BY <3>1, <3>3
      <4>2. v[a].priority \in Nat /\ v[b].priority = 0
        BY <1>10, <1>12, <4>1
      <4> QED BY <1>3, <4>1, <4>2
    <3>4. CASE i = n + 1 /\ j # n + 1
      <4>1. a = x /\ b \in DOMAIN tree /\ ~(i <= j)
        BY <1>6, <3>1, <3>4
      <4> QED BY <1>3, <4>1
    <3>5. CASE i # n + 1 /\ j # n + 1
      <4>1. /\ i \in 1 .. n /\ j \in 1 .. n /\ a = AtNode.children[i] /\ b = AtNode.children[j]
            /\ a \in DOMAIN tree /\ b \in DOMAIN tree
        BY <3>1, <3>5
      <4>2. Ordered(tree, AtNode.children)
        BY <1>1, <1>2 DEF OrderInv
      <4>3. /\ i # j => a # b
            /\ i <= j => tree[a].priority >= tree[b].priority
        BY <4>1, <4>2 DEF Ordered, n
      <4> QED BY <1>10, <4>1, <4>3
    <3> QED BY <3>2, <3>3, <3>4, <3>5
  <2>3. Ordered(v, v[x].children)
    BY <1>4, <1>5 DEF Ordered
  <2> QED BY <1>4, <2>1, <2>2, <2>3 DEF OrderInv
<1>14. Risen(v, u, x) /\ OrderInv(u) /\ Relisted(v, u)
  <2>1. /\ node \in DOMAIN v /\ pos \in 1 .. Len(v[node].children)
        /\ Len(v[node].indices) = Len(v[node].children)
        /\ v[node].children[pos] = x /\ u = Raise(v, node, pos)
    BY <1>2, <1>4, <1>6, <1>8
  <2> HIDE DEF u
  <2> QED BY <1>4, <1>11, <1>13, <2>1, RaiseExact
<1> HIDE DEF u
<1>15. Graph(KidsOf(u)) /\ Counted(KidsOf(u), HeadsOf(u), PrioritiesOf(u), x)
  <2>1. Sprouted(tree, u, node, x)
    <3>1. DOMAIN u = DOMAIN tree \cup {x} /\ x \notin DOMAIN tree
      BY <1>3, <1>4, <1>14 DEF Risen
    <3>2. Range(u[node].children) = Range(tree[node].children) \cup {x}
      BY <1>2, <1>4, <1>9, <1>14 DEF Risen
    <3>3. Range(u[x].children) = {} /\ u[x].handler = None /\ u[x].priority = 1
      BY <1>4, <1>5, <1>14 DEF Risen
    <3>4. \A k \in DOMAIN tree :
              /\ u[k].handler = tree[k].handler /\ u[k].priority = tree[k].priority
              /\ k # node => Range(u[k].children) = Range(tree[k].children)
      BY <1>3, <1>4, <1>10, <1>14 DEF Risen
    <3> QED BY <3>1, <3>2, <3>3, <3>4 DEF Sprouted
  <2> QED BY <1>2, <2>1, SproutExact
<1> DEFINE M == LabelsOf(v, x, Rest)
<1>16. /\ M[x] = Rest[1] /\ \A c \in DOMAIN tree : M[c] = First(tree[c])
  <2>1. \A c \in DOMAIN tree : First(v[c]) = First(tree[c])
    BY <1>10 DEF First
  <2> QED BY <1>1, <1>3, <1>4, <2>1 DEF LabelsOf
<1> HIDE DEF M
<1>17. LabelInv(v, M)
  <2>0. Hole = 0 /\ 0 \notin DOMAIN tree
    BY <1>1, <1>2 DEF Hole
  <2>1. M[1] = "/"
    <3>1. LabelsOf(tree, Hole, path) = [c \in DOMAIN tree |-> First(tree[c])]
      BY <2>0, PlainLabels
    <3>2. LabelsOf(tree, Hole, path)[1] = First(tree[1])
      BY <1>2, <3>1
    <3> QED BY <1>2, <1>16, <3>2 DEF LabelInv
  <2>2. ASSUME NEW k \in DOMAIN tree \ {node} PROVE Labelled(v[k], M)
    <3>1. v[k] = tree[k]
      BY <1>4
    <3>2. /\ \A i \in 1 .. Len(tree[k].children) : tree[k].children[i] \in DOMAIN tree
          /\ Range(tree[k].children) \subseteq DOMAIN tree
      BY <1>2, OldChild
    <3>3. /\ \A i \in 1 .. Len(tree[k].children) :
                M[tree[k].children[i]] = First(tree[tree[k].children[i]])
          /\ \A c \in Range(tree[k].children) : M[c] = First(tree[c])
      BY <1>16, <3>2
    <3> QED BY <1>1, <3>1, <3>3, ListLabels DEF Labelled
  <2>3. Labelled(v[node], M)
    <3>1. v[node].type = AtNode.type /\ v[node].wild = AtNode.wild
      BY <1>1, <1>2, <1>10
    <3>2. ASSUME AtNode.type # "param", NEW k \in 1 .. n + 1
          PROVE  v[node].indices[k] = M[v[node].children[k]]
      <4>1. CASE k = n + 1
        BY <1>8, <1>16, <4>1
      <4>2. CASE k # n + 1
        <5>1. k \in 1 .. n
          BY <1>6, <4>2
        <5> QED BY <1>6, <1>7, <1>8, <1>16, <3>2, <5>1
      <4> QED BY <4>1, <4>2
    <3>3. ASSUME AtNode.type = "param"
          PROVE  Len(v[node].children) <= 1 /\ \A c \in Range(v[node].children) : M[c] = "/"
      <4>1. n = 0 /\ Rest[1] = "/"
        BY <1>7, <3>3
      <4>2. Range(AtNode.children) = {}
        BY <1>6, <4>1 DEF Range, n
      <4> QED BY <1>1, <1>8, <1>9, <1>16, <4>1, <4>2
    <3> QED BY <1>8, <3>1, <3>2, <3>3 DEF Labelled
  <2>4. Labelled(v[x], M)
    BY <1>4, <1>5 DEF Labelled
  <2> QED BY <1>4, <2>1, <2>2, <2>3, <2>4 DEF LabelInv
<1>18. LabelInv(u, LabelsOf(u, x, Rest))
  <2>1. LabelInv(u, M)
    BY <1>14, <1>17, LabelsKept
  <2>2. LabelsOf(u, x, Rest) = M
    BY <1>14, RisenFacts DEF M
  <2> QED BY <2>1, <2>2
<1>19. PlaceInv(u, LabelsOf(u, x, Rest), x)
  BY <1>14, <1>15, <1>18 DEF PlaceInv
<1> QED BY <1>1, <1>3, <1>19 DEF ExactInv, u

-----------------------------------------------------------------------------
(* Steps that add nodes below the node.                                    *)

\* A list of at most one child is in order.
LEMMA OneOrdered ==
    ASSUME NEW u, IsTree(u), NEW n \in DOMAIN u, Len(u[n].children) <= 1
    PROVE  Ordered(u, u[n].children)
<1> DEFINE s == u[n].children
<1>1. \A k \in 1 .. Len(s) : s[k] \in DOMAIN u
  BY OldChild
<1>2. s \in Seq(DOMAIN u) /\ Len(s) \in Nat
  BY OldChild
<1>3. \A c \in DOMAIN u : u[c].priority \in Int
  BY TreeDomain DEF NodeSet
<1> SUFFICES ASSUME NEW i \in 1 .. Len(s), NEW j \in 1 .. Len(s)
             PROVE  i = j /\ u[s[i]].priority >= u[s[j]].priority
  BY DEF Ordered
<1> HIDE DEF s
<1>4. i = j
  BY <1>2 DEF s
<1>5. u[s[i]].priority \in Int
  BY <1>1, <1>3
<1> QED BY <1>4, <1>5

LEMMA GrowOrder ==
    ASSUME NEW t, IsTree(t), OrderInv(t), NEW u, IsTree(u), NEW at \in DOMAIN t,
           DOMAIN t \subseteq DOMAIN u,
           \A k \in DOMAIN t : u[k].priority = t[k].priority,
           \A k \in DOMAIN t \ {at} : u[k] = t[k],
           \A k \in DOMAIN u : k \notin DOMAIN t \/ k = at
               => Len(u[k].children) <= 1 \/ u[k].children = t[at].children
    PROVE  OrderInv(u)
<1>1. ASSUME NEW k \in DOMAIN t PROVE Ordered(u, t[k].children)
  <2>1. Ordered(t, t[k].children) /\ \A i \in 1 .. Len(t[k].children) : t[k].children[i] \in DOMAIN t
    BY OldChild DEF OrderInv
  <2> QED BY <2>1 DEF Ordered
<1>2. ASSUME NEW k \in DOMAIN u PROVE Ordered(u, u[k].children)
  <2>1. CASE k \in DOMAIN t \ {at}
    BY <1>1, <2>1
  <2>2. CASE k \notin DOMAIN t \/ k = at
    BY <1>1, <2>2, OneOrdered
  <2> QED BY <2>1, <2>2
<1> QED BY <1>2 DEF OrderInv

LEMMA GrowLabels ==
    ASSUME NEW t, IsTree(t), NEW hole, TreeInv(t, hole), NEW L, LabelInv(t, L),
           NEW u, NEW at \in DOMAIN t,
           \A k \in DOMAIN t \ {at} : u[k] = t[k],
           NEW M, \A c \in DOMAIN t : ~Holds(t[c]) => M[c] = L[c],
           \A k \in DOMAIN u : k \notin DOMAIN t \/ k = at => Labelled(u[k], M)
    PROVE  LabelInv(u, M)
<1>1. LabelInv(t, M)
  BY LabelsButWild
<1> QED BY <1>1 DEF LabelInv

\* Two paths that begin alike have a character in common.
LEMMA CommonOne ==
    ASSUME NEW s \in Seq(STRING), NEW t \in Seq(STRING), s # <<>>, t # <<>>, s[1] = t[1]
    PROVE  Common(s, t) >= 1
<1> DEFINE m == Min({Len(s), Len(t)})
           same == {k \in 0 .. m : SubSeq(s, 1, k) = SubSeq(t, 1, k)}
<1>1. Len(s) \in Nat /\ Len(t) \in Nat /\ Len(s) >= 1 /\ Len(t) >= 1
  OBVIOUS
<1>2. m \in Nat /\ m >= 1
  <2>1. {Len(s), Len(t)} \subseteq Nat /\ {Len(s), Len(t)} # {}
    OBVIOUS
  <2>2. Min({Len(s), Len(t)}) \in {Len(s), Len(t)}
    BY <2>1, MinFacts
  <2> QED BY <1>1, <2>2
<1>3. 1 \in same
  <2>1. SubSeq(s, 1, 1) = SubSeq(t, 1, 1)
    BY <1>1
  <2> HIDE DEF m
  <2> QED BY <1>2, <2>1
<1>4. same \subseteq Nat /\ \A k \in same : k <= m
  <2> HIDE DEF m
  <2> QED BY <1>2
<1>5. Common(s, t) = Max(same)
  BY DEF Common
<1> HIDE DEF same, m
<1>6. \A k \in same : k <= Max(same)
  BY <1>2, <1>3, <1>4, MaxFacts
<1> QED BY <1>3, <1>5, <1>6

LEMMA SplitExact ==
    ASSUME RadixInv, ExactInv, Split
    PROVE  ExactInv'
<1> DEFINE x == Len(tree) + 1
           u == tree'
           upper == SplitUpper
           lower == SplitLower
<1>1. /\ pc = "add" /\ pc' = "add" /\ path' = path /\ node' = node /\ AtNode = tree[node]
      /\ Hole = 0 /\ Hole' = 0 /\ At = node /\ At' = node
  BY DEF Split, Splitting, AtNode, Hole, At
<1>2. /\ IsTree(tree) /\ DOMAIN tree = 1 .. Len(tree) /\ Len(tree) \in Nat
      /\ node \in DOMAIN tree /\ 0 \notin DOMAIN tree /\ DOMAIN KidsOf(tree) = DOMAIN tree
      /\ Graph(KidsOf(tree)) /\ OrderInv(tree)
      /\ LabelInv(tree, LabelsOf(tree, Hole, path))
      /\ Counted(KidsOf(tree), HeadsOf(tree), PrioritiesOf(tree), node)
      /\ TreeInv(tree, Hole) /\ First(AtNode) = path[1]
      /\ AtNode.path \in Seq(STRING) /\ path \in Seq(STRING) /\ path # <<>>
  <2>1. path # <<>>
    BY <1>1 DEF RadixInv, AddInv
  <2>2. First(AtNode) = path[1]
    BY <1>1 DEF ExactInv
  <2> QED BY <1>1, <2>1, <2>2, PlaceFacts, InvFacts
<1>3. x \notin DOMAIN tree /\ DOMAIN tree \cup {x} = 1 .. Len(tree) + 1 /\ 0 # x
  BY <1>2
<1> HIDE DEF x
<1>4. /\ IsTree(u) /\ DOMAIN u = DOMAIN tree \cup {x} /\ u[node] = upper /\ u[x] = lower
      /\ \A k \in DOMAIN tree \ {node} : u[k] = tree[k]
  BY <1>3, SplitTree DEF x
<1>5. /\ upper.path = SubSeq(path, 1, Shared) /\ upper.wild = FALSE
      /\ upper.handler = None /\ upper.children = <<x>>
      /\ upper.indices = <<AtNode.path[Shared + 1]>>
      /\ upper.type = AtNode.type /\ upper.priority = AtNode.priority
  BY UpperFacts DEF x
<1>6. /\ lower.path = Drop(AtNode.path, Shared) /\ lower.wild = AtNode.wild
      /\ lower.handler = AtNode.handler /\ lower.children = AtNode.children
      /\ lower.indices = AtNode.indices /\ lower.type = "static"
      /\ lower.priority = AtNode.priority - 1
  BY LowerFacts
<1>7. /\ Shared \in 0 .. Len(AtNode.path) /\ Shared < Len(AtNode.path)
      /\ ~Holds(AtNode) /\ AtNode.type \in {"static", "root"}
      /\ Len(SubSeq(path, 1, Shared)) = Shared
  BY SplitFacts DEF Split
<1> HIDE DEF u, upper, lower
<1>8. Shared >= 1 /\ First(upper) = path[1] /\ First(lower) = AtNode.path[Shared + 1]
  <2>1. AtNode.path # <<>>
    BY <1>2, <1>7
  <2>2. AtNode.path[1] = path[1]
    BY <1>2, <2>1 DEF First
  <2>3. Shared >= 1
    BY <1>2, <2>1, <2>2, CommonOne DEF Shared
  <2>4. upper.path # <<>> /\ upper.path[1] = path[1]
    <3>1. SubSeq(path, 1, Shared) # <<>> /\ SubSeq(path, 1, Shared)[1] = path[1]
      BY <1>2, <1>7, <2>3
    <3> QED BY <1>5, <3>1
  <2>5. lower.path # <<>> /\ lower.path[1] = AtNode.path[Shared + 1]
    <3> DEFINE p == AtNode.path
               k == Shared
    <3>1. p \in Seq(STRING) /\ k \in 0 .. Len(p) /\ k < Len(p)
      BY <1>2, <1>7
    <3> HIDE DEF p, k
    <3>2. Drop(p, k) # <<>> /\ Drop(p, k)[1] = p[k + 1]
      <4>1. Drop(p, k) \in Seq(STRING) /\ Len(Drop(p, k)) = Len(p) - k
        BY <3>1, DropPath
      <4>2. Len(p) - k >= 1
        BY <3>1
      <4>3. Drop(p, k) # <<>>
        BY <4>1, <4>2
      <4>4. Drop(p, k)[1] = p[k + 1]
        BY <3>1 DEF Drop
      <4> QED BY <4>3, <4>4
    <3> QED BY <1>6, <3>2 DEF p, k
  <2> QED BY <2>3, <2>4, <2>5 DEF First
<1>9. \A k \in DOMAIN tree : u[k].priority = tree[k].priority
  BY <1>1, <1>4, <1>5
<1>10. Range(upper.children) = {x} /\ Len(upper.children) = 1 /\ upper.children[1] = x
       /\ Len(upper.indices) = 1 /\ upper.indices[1] = AtNode.path[Shared + 1]
  BY <1>5 DEF Range
<1>11. OrderInv(u)
  <2>1. ASSUME NEW k \in DOMAIN u, k \notin DOMAIN tree \/ k = node
        PROVE  Len(u[k].children) <= 1 \/ u[k].children = tree[node].children
    <3>1. CASE k = node
      <4>1. u[k] = upper
        BY <1>4, <3>1
      <4>2. Len(u[k].children) = 1
        BY <1>10, <4>1
      <4> QED BY <4>2
    <3>2. CASE k # node
      <4>1. u[k] = lower
        BY <1>4, <2>1, <3>2
      <4> QED BY <1>1, <1>6, <4>1
    <3> QED BY <3>1, <3>2
  <2> QED BY <1>2, <1>4, <1>9, <2>1, GrowOrder
<1>12. Graph(KidsOf(u)) /\ Counted(KidsOf(u), HeadsOf(u), PrioritiesOf(u), node)
  <2>1. KidsOf(u) = Cut(KidsOf(tree), node, x)
    <3>1. KidsOf(u) = [k \in DOMAIN tree \cup {x} |-> Range(u[k].children)]
      BY <1>4 DEF KidsOf
    <3>2. ASSUME NEW k \in DOMAIN tree \cup {x}
          PROVE  Range(u[k].children) = IF k = x THEN KidsOf(tree)[node]
                                        ELSE IF k = node THEN {x} ELSE KidsOf(tree)[k]
      BY <1>1, <1>2, <1>3, <1>4, <1>6, <1>10 DEF KidsOf
    <3> QED BY <1>2, <3>1, <3>2 DEF Cut
  <2>2. HeadsOf(u) = (HeadsOf(tree) \ {node}) \cup (IF node \in HeadsOf(tree) THEN {x} ELSE {})
    BY <1>1, <1>2, <1>3, <1>4, <1>5, <1>6 DEF HeadsOf
  <2>3. /\ PrioritiesOf(u)[x] = PrioritiesOf(tree)[node] - 1
        /\ \A k \in DOMAIN tree : PrioritiesOf(u)[k] = PrioritiesOf(tree)[k]
    BY <1>1, <1>2, <1>4, <1>6, <1>9 DEF PrioritiesOf
  <2>4. CutBelow(KidsOf(tree), node, x, KidsOf(u))
    BY <1>2, <1>3, <2>1, CutGraph
  <2>5. Counted(KidsOf(u), HeadsOf(u), PrioritiesOf(u), node)
    <3> DEFINE K == KidsOf(tree)
               H == HeadsOf(tree)
               P == PrioritiesOf(tree)
               Q == PrioritiesOf(u)
    <3>1. /\ Graph(K) /\ node \in DOMAIN K /\ x \notin DOMAIN K /\ Counted(K, H, P, node)
          /\ KidsOf(u) = Cut(K, node, x) /\ Q[x] = P[node] - 1 /\ \A k \in DOMAIN K : Q[k] = P[k]
          /\ HeadsOf(u) = (H \ {node}) \cup (IF node \in H THEN {x} ELSE {})
      BY <1>2, <1>3, <2>1, <2>2, <2>3
    <3> HIDE DEF K, H, P, Q
    <3>2. Counted(KidsOf(u), HeadsOf(u), Q, node)
      BY <3>1, CountHalves
    <3> QED BY <3>2 DEF Q
  <2> QED BY <2>4, <2>5 DEF CutBelow
<1> DEFINE L == LabelsOf(tree, Hole, path)
           M == LabelsOf(u, 0, path)
<1>13. /\ \A c \in DOMAIN tree : L[c] = First(tree[c]) /\ M[c] = First(u[c])
       /\ M[x] = First(lower)
  BY <1>1, <1>2, <1>3, <1>4, PlainLabels DEF LabelsOf
<1>14. \A c \in DOMAIN tree : M[c] = L[c]
  BY <1>1, <1>2, <1>4, <1>8, <1>13
<1>15. LabelInv(tree, L)
  BY <1>2
<1> HIDE DEF L, M
<1>16. Labelled(upper, M)
  BY <1>5, <1>7, <1>8, <1>10, <1>13 DEF Labelled
<1>17. Labelled(lower, M)
  <2>1. Labelled(tree[node], L)
    BY <1>2, <1>15 DEF LabelInv
  <2>2. \A i \in 1 .. Len(tree[node].children) : tree[node].children[i] \in DOMAIN tree
    BY <1>2, OldChild
  <2>3. AtNode.type # "param"
    BY <1>7
  <2> QED BY <1>1, <1>6, <1>14, <2>1, <2>2, <2>3 DEF Labelled
<1>18. LabelInv(u, M)
  <2>1. \A k \in DOMAIN u : k \notin DOMAIN tree \/ k = node => Labelled(u[k], M)
    BY <1>4, <1>16, <1>17
  <2>2. /\ IsTree(tree) /\ TreeInv(tree, Hole) /\ node \in DOMAIN tree
        /\ \A k \in DOMAIN tree \ {node} : u[k] = tree[k]
    BY <1>2, <1>4
  <2> QED BY <1>14, <1>15, <2>1, <2>2, GrowLabels
<1>19. PlaceInv(u, LabelsOf(u, 0, path), node)
  BY <1>11, <1>12, <1>18 DEF PlaceInv, M
<1>20. First(AtNode') = path'[1]
  BY <1>1, <1>4, <1>8 DEF AtNode, u
<1> QED BY <1>1, <1>19, <1>20 DEF ExactInv, u

\* Two new nodes below the node, one below the other.
SproutedTwo(t, u, at, x, y) ==
    /\ DOMAIN u = DOMAIN t \cup {x, y} /\ x \notin DOMAIN t /\ y \notin DOMAIN t /\ x # y
    /\ Range(u[at].children) = Range(t[at].children) \cup {x}
    /\ Range(u[x].children) = {y} /\ Range(u[y].children) = {}
    /\ u[x].priority = 1 /\ u[y].priority = 1
    /\ \A n \in DOMAIN t :
          /\ u[n].priority = t[n].priority
          /\ n # at => Range(u[n].children) = Range(t[n].children)

LEMMA SproutTwoExact ==
    ASSUME NEW t, NEW u, NEW at \in DOMAIN t, NEW x, NEW y, SproutedTwo(t, u, at, x, y),
           Graph(KidsOf(t)), Counted(KidsOf(t), HeadsOf(t), PrioritiesOf(t), at)
    PROVE  /\ Graph(KidsOf(u)) /\ DOMAIN KidsOf(u) = DOMAIN t \cup {x, y}
           /\ Counted(KidsOf(u), HeadsOf(t), PrioritiesOf(u), y)
<1> DEFINE K == KidsOf(t)
           G == Leaf(K, at, x)
           F == KidsOf(u)
           H == HeadsOf(t)
           P == PrioritiesOf(t)
           Q == PrioritiesOf(u)
<1>1. /\ DOMAIN K = DOMAIN t /\ DOMAIN G = DOMAIN t \cup {x} /\ DOMAIN F = DOMAIN t \cup {x, y}
      /\ x \notin DOMAIN K /\ y \notin DOMAIN G
  BY DEF KidsOf, SproutedTwo, Leaf
<1>2. F = Leaf(G, x, y)
  <2>1. F = [n \in DOMAIN t \cup {x, y} |-> Range(u[n].children)]
    BY DEF KidsOf, SproutedTwo
  <2>2. ASSUME NEW n \in DOMAIN t \cup {x, y}
        PROVE  Range(u[n].children) = IF n = y THEN {} ELSE IF n = x THEN G[x] \cup {y} ELSE G[n]
    BY DEF KidsOf, SproutedTwo, Leaf
  <2>3. DOMAIN t \cup {x, y} = DOMAIN G \cup {y}
    BY <1>1
  <2> HIDE DEF F, G
  <2> QED BY <2>1, <2>2, <2>3 DEF Leaf
<1>3. /\ Q[x] = 1 /\ Q[y] = 1 /\ \A n \in DOMAIN K : Q[n] = P[n]
  BY <1>1 DEF PrioritiesOf, SproutedTwo
<1>4. Graph(K) /\ Counted(K, H, P, at) /\ at \in DOMAIN K
  BY <1>1
<1> HIDE DEF K, F, H, P, Q
<1>5. Counted(G, H, Q, x)
  BY <1>1, <1>3, <1>4, CountLeaf
<1>6. Graph(G) /\ x \in DOMAIN G
  <2>1. LeafBelow(K, at, x, G)
    BY <1>1, <1>4, LeafFacts
  <2> QED BY <2>1 DEF LeafBelow
<1> HIDE DEF G
<1>7. Counted(F, H, Q, y)
  BY <1>1, <1>2, <1>3, <1>5, <1>6, CountLeaf
<1>8. Graph(F)
  <2>1. LeafBelow(G, x, y, F)
    BY <1>1, <1>2, <1>6, LeafFacts
  <2> QED BY <2>1 DEF LeafBelow
<1> QED BY <1>1, <1>7, <1>8 DEF F, H, Q

\* The place of pgrest_rtree_child_insert at a wildcard.
LEMMA InsertPlace ==
    ASSUME RadixInv, ExactInv, Inserting, WildFits
    PROVE  /\ pc = "insert" /\ Hole = node /\ At = node /\ AtNode = tree[node]
           /\ IsTree(tree) /\ DOMAIN tree = 1 .. Len(tree) /\ Len(tree) \in Nat
           /\ node \in DOMAIN tree /\ 0 \notin DOMAIN tree /\ DOMAIN KidsOf(tree) = DOMAIN tree
           /\ Graph(KidsOf(tree)) /\ OrderInv(tree) /\ TreeInv(tree, node)
           /\ LabelInv(tree, LabelsOf(tree, node, path))
           /\ Counted(KidsOf(tree), HeadsOf(tree), PrioritiesOf(tree), node)
           /\ Range(tree[node].children) = {}
           /\ path \in Seq(STRING) /\ path # <<>>
<1>1. pc = "insert" /\ AtNode = tree[node] /\ Hole = node /\ At = node
  BY DEF Inserting, AtNode, Hole, At
<1>2. Range(AtNode.children) = {} /\ path # <<>>
  BY WildFitsFacts DEF InsertInv
<1> QED BY <1>1, <1>2, PlaceFacts, InvFacts

LEMMA InsertPriorities ==
    ASSUME RadixInv
    PROVE  /\ ParamAbove.priority = AtNode.priority
           /\ CatchAbove.priority = AtNode.priority
           /\ CatchEmpty.priority = 1 /\ CatchHolder.priority = 1
           /\ \A type : FreshNode(type).priority = 1
           /\ CatchAbove.indices = <<"/">>
<1>1. AtNode \in NodeSet(Len(tree))
  BY InvFacts
<1>2. ParamAbove.priority = AtNode.priority
  BY <1>1 DEF ParamAbove, OnlyChild, NodeSet
<1>3. CatchAbove.priority = AtNode.priority /\ CatchAbove.indices = <<"/">>
  BY <1>1 DEF CatchAbove, OnlyChild, NodeSet
<1>4. CatchEmpty.priority = 1
  BY DEF CatchEmpty, OnlyChild, Blank
<1>5. CatchHolder.priority = 1
  BY DEF CatchHolder, Blank
<1>6. \A type : FreshNode(type).priority = 1
  BY DEF FreshNode, Blank
<1> QED BY <1>2, <1>3, <1>4, <1>5, <1>6

\* The labels of the old nodes stay: that of the node is now the beginning of the
\* path it has got.
LEMMA InsertLabels ==
    ASSUME RadixInv, Inserting, NEW u, NEW hole, hole \notin DOMAIN tree, NEW p,
           node \in DOMAIN tree, DOMAIN tree \subseteq DOMAIN u,
           \A k \in DOMAIN tree \ {node} : u[k] = tree[k],
           First(u[node]) = IF path[1] \in Wildcards THEN First(tree[node]) ELSE path[1]
    PROVE  \A c \in DOMAIN tree : LabelsOf(u, hole, p)[c] = LabelsOf(tree, node, path)[c]
  BY DEF LabelsOf

LEMMA ParamFirst ==
    ASSUME RadixInv, Inserting, WildFits
    PROVE  First(ParamAbove) = IF path[1] \in Wildcards THEN First(AtNode) ELSE path[1]
<1>1. /\ path \in Seq(STRING) /\ Wild \in 1 .. Len(path) /\ path[Wild] \in Wildcards
      /\ \A k \in 1 .. Wild - 1 : path[k] \notin Wildcards
  BY WildFitsFacts, InvFacts
<1>2. AtNode \in NodeSet(Len(tree))
  BY InvFacts
<1>3. ParamAbove.path = IF Wild > 1 THEN SubSeq(path, 1, Wild - 1) ELSE AtNode.path
  BY <1>2 DEF ParamAbove, OnlyChild, NodeSet
<1>4. CASE Wild > 1
  <2>1. Wild - 1 \in 0 .. Len(path) /\ 1 \in 1 .. Wild - 1
    BY <1>1, <1>4
  <2> DEFINE a == SubSeq(path, 1, Wild - 1)
  <2>2. Len(a) = Wild - 1 /\ a[1] = path[1] /\ a \in Seq(STRING)
    BY <1>1, <2>1, TakePath
  <2>3. a # <<>> /\ path[1] \notin Wildcards
    BY <1>1, <2>1, <2>2
  <2> QED BY <1>3, <1>4, <2>2, <2>3 DEF First
<1>5. CASE Wild = 1
  BY <1>1, <1>3, <1>5 DEF First
<1> QED BY <1>1, <1>4, <1>5

\* A wild node, or one that has no children, says nothing of them.
LEMMA Unlabelled ==
    ASSUME NEW nd, NEW L,
           \/ nd.wild /\ nd.type # "param"
           \/ Len(nd.indices) = 0 /\ Len(nd.children) = 0 /\ Range(nd.children) = {}
    PROVE  Labelled(nd, L)
  BY DEF Labelled

LEMMA ParamLastExact ==
    ASSUME RadixInv, ExactInv, InsertParam, End > Len(path)
    PROVE  ExactInv'
<1> DEFINE x == Len(tree) + 1
           u == tree'
           below == FreshNode("param")
<1>1. /\ Inserting /\ WildFits /\ pc' = "insert" /\ node' = x
      /\ IsTree(u) /\ DOMAIN u = 1 .. x
      /\ u[node] = ParamAbove /\ u[x] = below
      /\ \A k \in DOMAIN tree \ {node} : u[k] = tree[k]
  BY ParamLastTree DEF Inserting
<1>2. /\ pc = "insert" /\ AtNode = tree[node] /\ IsTree(tree)
      /\ DOMAIN tree = 1 .. Len(tree) /\ Len(tree) \in Nat /\ node \in DOMAIN tree
      /\ Graph(KidsOf(tree)) /\ OrderInv(tree) /\ TreeInv(tree, node)
      /\ LabelInv(tree, LabelsOf(tree, node, path))
      /\ Counted(KidsOf(tree), HeadsOf(tree), PrioritiesOf(tree), node)
      /\ Range(tree[node].children) = {}
  BY <1>1, InsertPlace
<1>3. /\ Hole' = x /\ At' = x /\ x \notin DOMAIN tree /\ DOMAIN u = DOMAIN tree \cup {x}
      /\ x \in Nat
  BY <1>1, <1>2 DEF Hole, At
<1>4. /\ ParamAbove.children = <<x>> /\ ParamAbove.wild = TRUE
      /\ ParamAbove.handler = AtNode.handler /\ ParamAbove.type # "param"
  <2>1. x \in Nat /\ Len(tree) + 1 <= x
    BY <1>3
  <2>2. AtNode.type # "param"
    BY <1>1, WildFitsFacts
  <2> QED BY <1>1, <2>1, <2>2, ParamAboveFacts
<1>5. /\ below.handler = None /\ Len(below.indices) = 0 /\ Len(below.children) = 0
      /\ Range(below.children) = {}
  BY <1>3, FreshFacts
<1>6. ParamAbove.priority = AtNode.priority /\ below.priority = 1
  BY InsertPriorities
<1>7. First(ParamAbove) = IF path[1] \in Wildcards THEN First(tree[node]) ELSE path[1]
  BY <1>1, <1>2, ParamFirst
<1> HIDE DEF x, u, below
<1>8. Range(ParamAbove.children) = {x} /\ Len(ParamAbove.children) = 1
  BY <1>4 DEF Range
<1>9. \A k \in DOMAIN tree : u[k].priority = tree[k].priority /\ u[k].handler = tree[k].handler
  BY <1>1, <1>2, <1>4, <1>6
<1>10. OrderInv(u)
  <2>1. ASSUME NEW k \in DOMAIN u, k \notin DOMAIN tree \/ k = node
        PROVE  Len(u[k].children) <= 1
    <3>1. u[k] = ParamAbove \/ u[k] = below
      BY <1>1, <1>3, <2>1
    <3>2. CASE u[k] = ParamAbove
      <4>1. Len(u[k].children) = 1
        BY <1>8, <3>2
      <4> QED BY <4>1
    <3>3. CASE u[k] = below
      <4>1. Len(u[k].children) = 0
        BY <1>5, <3>3
      <4> QED BY <4>1
    <3> QED BY <3>1, <3>2, <3>3
  <2>2. DOMAIN tree \subseteq DOMAIN u
    BY <1>3
  <2> QED BY <1>1, <1>2, <1>9, <2>1, <2>2, GrowOrder
<1>11. Graph(KidsOf(u)) /\ Counted(KidsOf(u), HeadsOf(u), PrioritiesOf(u), x)
  <2>1. Range(u[node].children) = Range(tree[node].children) \cup {x}
    BY <1>1, <1>2, <1>8
  <2>2. Range(u[x].children) = {} /\ u[x].handler = None /\ u[x].priority = 1
    BY <1>1, <1>5, <1>6
  <2>3. \A k \in DOMAIN tree : k # node => Range(u[k].children) = Range(tree[k].children)
    BY <1>1
  <2>4. Sprouted(tree, u, node, x)
    BY <1>3, <1>9, <2>1, <2>2, <2>3 DEF Sprouted
  <2> QED BY <1>2, <2>4, SproutExact
<1> DEFINE L == LabelsOf(tree, node, path)
           M == LabelsOf(u, x, path')
<1>12. LabelInv(u, M)
  <2>1. \A c \in DOMAIN tree : M[c] = L[c]
    <3>1. DOMAIN tree \subseteq DOMAIN u /\ x \notin DOMAIN tree /\ node \in DOMAIN tree
          /\ Inserting /\ \A k \in DOMAIN tree \ {node} : u[k] = tree[k]
      BY <1>1, <1>2, <1>3
    <3>2. First(u[node]) = IF path[1] \in Wildcards THEN First(tree[node]) ELSE path[1]
      BY <1>1, <1>7
    <3> QED BY <3>1, <3>2, InsertLabels
  <2>2. LabelInv(tree, L)
    BY <1>2
  <2> HIDE DEF L, M
  <2>3. Labelled(ParamAbove, M) /\ Labelled(below, M)
    BY <1>4, <1>5, Unlabelled
  <2>4. \A k \in DOMAIN u : k \notin DOMAIN tree \/ k = node => Labelled(u[k], M)
    BY <1>1, <1>3, <2>3
  <2>5. IsTree(tree) /\ TreeInv(tree, node) /\ node \in DOMAIN tree
    BY <1>2
  <2>6. \A k \in DOMAIN tree \ {node} : u[k] = tree[k]
    BY <1>1
  <2> QED BY <2>1, <2>2, <2>4, <2>5, <2>6, GrowLabels
<1>13. PlaceInv(u, LabelsOf(u, x, path'), x)
  BY <1>10, <1>11, <1>12 DEF PlaceInv
<1> QED BY <1>1, <1>3, <1>13 DEF ExactInv, u

LEMMA ParamFollowedExact ==
    ASSUME RadixInv, ExactInv, InsertParam, End <= Len(path)
    PROVE  ExactInv'
<1> DEFINE x == Len(tree) + 1
           y == Len(tree) + 2
           u == tree'
           rest == FreshNode("static")
<1>1. /\ Inserting /\ WildFits /\ pc' = "insert" /\ node' = y /\ path'[1] = "/"
      /\ IsTree(u) /\ DOMAIN u = 1 .. y
      /\ u[node] = ParamAbove /\ u[x] = ParamHolder /\ u[y] = rest
      /\ \A k \in DOMAIN tree \ {node} : u[k] = tree[k]
  BY ParamFollowedTree DEF Inserting
<1>2. /\ pc = "insert" /\ AtNode = tree[node] /\ IsTree(tree)
      /\ DOMAIN tree = 1 .. Len(tree) /\ Len(tree) \in Nat /\ node \in DOMAIN tree
      /\ Graph(KidsOf(tree)) /\ OrderInv(tree) /\ TreeInv(tree, node)
      /\ LabelInv(tree, LabelsOf(tree, node, path))
      /\ Counted(KidsOf(tree), HeadsOf(tree), PrioritiesOf(tree), node)
      /\ Range(tree[node].children) = {}
  BY <1>1, InsertPlace
<1>3. /\ Hole' = y /\ At' = y /\ x \notin DOMAIN tree /\ y \notin DOMAIN tree /\ x # y
      /\ DOMAIN u = DOMAIN tree \cup {x, y} /\ y \in Nat
  BY <1>1, <1>2 DEF Hole, At
<1>4. /\ ParamAbove.children = <<x>> /\ ParamAbove.wild = TRUE
      /\ ParamAbove.handler = AtNode.handler /\ ParamAbove.type # "param"
  <2>1. y \in Nat /\ Len(tree) + 1 <= y
    BY <1>2
  <2>2. AtNode.type # "param"
    BY <1>1, WildFitsFacts
  <2> QED BY <1>1, <2>1, <2>2, ParamAboveFacts
<1>5. /\ rest.handler = None /\ Len(rest.indices) = 0 /\ Len(rest.children) = 0
      /\ Range(rest.children) = {}
  BY <1>3, FreshFacts
<1>6. ParamHolder.type = "param" /\ ParamHolder.children = <<y>> /\ ParamHolder.priority = 1
  BY ParamHolderFacts
<1>7. ParamAbove.priority = AtNode.priority /\ rest.priority = 1
  BY InsertPriorities
<1>8. First(ParamAbove) = IF path[1] \in Wildcards THEN First(tree[node]) ELSE path[1]
  BY <1>1, <1>2, ParamFirst
<1>9. ParamHolder.handler = None
  BY ParamHolderFacts
<1> HIDE DEF x, y, u, rest
<1>10. /\ Range(ParamAbove.children) = {x} /\ Len(ParamAbove.children) = 1
       /\ Range(ParamHolder.children) = {y} /\ Len(ParamHolder.children) = 1
  <2>1. \A c : Range(<<c>>) = {c} /\ Len(<<c>>) = 1
    BY DEF Range
  <2> QED BY <1>4, <1>6, <2>1
<1>11. \A k \in DOMAIN tree : u[k].priority = tree[k].priority /\ u[k].handler = tree[k].handler
  BY <1>1, <1>2, <1>4, <1>7
<1>12. OrderInv(u)
  <2>1. ASSUME NEW k \in DOMAIN u, k \notin DOMAIN tree \/ k = node
        PROVE  Len(u[k].children) <= 1
    <3>1. CASE k = node \/ k = x
      <4>1. u[k] = ParamAbove \/ u[k] = ParamHolder
        BY <1>1, <3>1
      <4>2. Len(u[k].children) = 1
        BY <1>10, <4>1
      <4> QED BY <4>2
    <3>2. CASE k = y
      <4>1. u[k] = rest
        BY <1>1, <3>2
      <4>2. Len(u[k].children) = 0
        BY <1>5, <4>1
      <4> QED BY <4>2
    <3> QED BY <1>3, <2>1, <3>1, <3>2
  <2>2. DOMAIN tree \subseteq DOMAIN u
    BY <1>3
  <2> QED BY <1>1, <1>2, <1>11, <2>1, <2>2, GrowOrder
<1>13. Graph(KidsOf(u)) /\ Counted(KidsOf(u), HeadsOf(u), PrioritiesOf(u), y)
  <2>1. Range(u[node].children) = Range(tree[node].children) \cup {x}
    BY <1>1, <1>2, <1>10
  <2>2. /\ Range(u[x].children) = {y} /\ Range(u[y].children) = {}
        /\ u[x].priority = 1 /\ u[y].priority = 1
    BY <1>1, <1>5, <1>6, <1>7, <1>10
  <2>3. \A k \in DOMAIN tree : k # node => Range(u[k].children) = Range(tree[k].children)
    BY <1>1
  <2>4. SproutedTwo(tree, u, node, x, y)
    BY <1>3, <1>11, <2>1, <2>2, <2>3 DEF SproutedTwo
  <2>5. HeadsOf(u) = HeadsOf(tree)
    <3>1. u[x].handler = None /\ u[y].handler = None
      BY <1>1, <1>5, <1>9
    <3> QED BY <1>3, <1>11, <3>1 DEF HeadsOf
  <2> QED BY <1>2, <2>4, <2>5, SproutTwoExact
<1> DEFINE L == LabelsOf(tree, node, path)
           M == LabelsOf(u, y, path')
<1>14. LabelInv(u, M)
  <2>1. \A c \in DOMAIN tree : M[c] = L[c]
    <3>1. DOMAIN tree \subseteq DOMAIN u /\ y \notin DOMAIN tree /\ node \in DOMAIN tree
          /\ Inserting /\ \A k \in DOMAIN tree \ {node} : u[k] = tree[k]
      BY <1>1, <1>2, <1>3
    <3>2. First(u[node]) = IF path[1] \in Wildcards THEN First(tree[node]) ELSE path[1]
      BY <1>1, <1>8
    <3> QED BY <3>1, <3>2, InsertLabels
  <2>2. LabelInv(tree, L)
    BY <1>2
  <2>3. M[y] = "/"
    BY <1>1, <1>3 DEF LabelsOf, Wildcards
  <2> HIDE DEF L, M
  <2>4. Labelled(ParamAbove, M) /\ Labelled(rest, M)
    BY <1>4, <1>5, Unlabelled
  <2>5. Labelled(ParamHolder, M)
    BY <1>6, <1>10, <2>3 DEF Labelled
  <2>6. \A k \in DOMAIN u : k \notin DOMAIN tree \/ k = node => Labelled(u[k], M)
    BY <1>1, <1>3, <2>4, <2>5
  <2>7. IsTree(tree) /\ TreeInv(tree, node) /\ node \in DOMAIN tree
    BY <1>2
  <2>8. \A k \in DOMAIN tree \ {node} : u[k] = tree[k]
    BY <1>1
  <2> QED BY <2>1, <2>2, <2>6, <2>7, <2>8, GrowLabels
<1>15. PlaceInv(u, LabelsOf(u, y, path'), y)
  BY <1>12, <1>13, <1>14 DEF PlaceInv
<1> QED BY <1>1, <1>3, <1>15 DEF ExactInv, u

LEMMA InsertParamExact ==
    ASSUME RadixInv, ExactInv, InsertParam
    PROVE  ExactInv'
<1>1. End \in Int /\ Len(path) \in Int
  <2>1. Inserting /\ WildFits
    BY DEF InsertParam
  <2>2. End \in Wild + 2 .. Len(path) + 1 /\ Wild \in 1 .. Len(path)
    BY <2>1, WildFitsFacts
  <2> QED BY <2>2
<1>2. End > Len(path) \/ End <= Len(path)
  BY <1>1
<1> QED BY <1>2, ParamLastExact, ParamFollowedExact

LEMMA CatchFirst ==
    ASSUME RadixInv, InsertCatchAll
    PROVE  /\ First(CatchAbove) = path[1] /\ path[1] \notin Wildcards
           /\ First(CatchEmpty) = "/"
<1> DEFINE k == Wild - 2
           a == SubSeq(path, 1, k)
<1>1. /\ Inserting /\ WildFits /\ Wild > 1 /\ path[Wild - 1] = "/"
  BY DEF InsertCatchAll, CatchAllFits
<1>2. /\ path \in Seq(STRING) /\ Wild \in 1 .. Len(path)
      /\ \A j \in 1 .. Wild - 1 : path[j] \notin Wildcards
  BY <1>1, WildFitsFacts, InvFacts
<1>3. k \in 0 .. Len(path) /\ 1 \in 1 .. Wild - 1
  BY <1>1, <1>2
<1>4. CatchAbove.path = a /\ CatchEmpty.path = <<>>
  BY CatchNodes
<1>5. a \in Seq(STRING) /\ Len(a) = k /\ \A i \in 1 .. k : a[i] = path[i]
  BY <1>2, <1>3, TakePath
<1> HIDE DEF a
<1>6. CASE k = 0
  <2>1. a = <<>> /\ Wild - 1 = 1
    BY <1>2, <1>5, <1>6
  <2> QED BY <1>1, <1>2, <1>3, <1>4, <2>1 DEF First
<1>7. CASE k # 0
  <2>1. 1 \in 1 .. k
    <3> HIDE DEF k
    <3> QED BY <1>2, <1>3, <1>7
  <2>2. a[1] = path[1] /\ a # <<>>
    <3>1. Len(a) # 0
      BY <1>5, <1>7
    <3> QED BY <1>5, <2>1, <3>1
  <2> QED BY <1>2, <1>3, <1>4, <2>2 DEF First
<1> QED BY <1>6, <1>7

LEMMA InsertCatchAllExact ==
    ASSUME RadixInv, ExactInv, InsertCatchAll
    PROVE  ExactInv'
<1> DEFINE x == Len(tree) + 1
           y == Len(tree) + 2
           u == tree'
<1>1. /\ Inserting /\ WildFits /\ pc' = "idle"
      /\ IsTree(u) /\ DOMAIN u = 1 .. y
      /\ u[node] = CatchAbove /\ u[x] = CatchEmpty /\ u[y] = CatchHolder
      /\ \A k \in DOMAIN tree \ {node} : u[k] = tree[k]
  BY CatchTree
<1>2. /\ pc = "insert" /\ AtNode = tree[node] /\ IsTree(tree)
      /\ DOMAIN tree = 1 .. Len(tree) /\ Len(tree) \in Nat /\ node \in DOMAIN tree
      /\ Graph(KidsOf(tree)) /\ OrderInv(tree) /\ TreeInv(tree, node)
      /\ LabelInv(tree, LabelsOf(tree, node, path))
      /\ Counted(KidsOf(tree), HeadsOf(tree), PrioritiesOf(tree), node)
      /\ Range(tree[node].children) = {}
  BY <1>1, InsertPlace
<1>3. /\ Hole' = 0 /\ At' = 0 /\ x \notin DOMAIN tree /\ y \notin DOMAIN tree /\ x # y
      /\ DOMAIN u = DOMAIN tree \cup {x, y} /\ 0 \notin DOMAIN tree /\ 0 \notin DOMAIN u
  BY <1>1, <1>2 DEF Hole, At
<1>4. /\ CatchAbove.children = <<x>> /\ CatchAbove.handler = AtNode.handler
      /\ CatchAbove.type # "param" /\ CatchEmpty.children = <<y>>
      /\ CatchEmpty.handler = None /\ CatchEmpty.type # "param" /\ CatchEmpty.wild = TRUE
      /\ Range(CatchHolder.children) = {} /\ Len(CatchHolder.children) = 0
      /\ Len(CatchHolder.indices) = 0 /\ CatchHolder.handler # None
  <2>1. AtNode.type # "param"
    BY <1>1, WildFitsFacts
  <2>2. route # None
    BY CatchFacts, RadixTreeAssumption DEF None
  <2> QED BY <2>1, <2>2, CatchNodes
<1>5. /\ CatchAbove.priority = AtNode.priority /\ CatchEmpty.priority = 1
      /\ CatchHolder.priority = 1 /\ CatchAbove.indices = <<"/">>
  BY InsertPriorities
<1>6. First(CatchAbove) = path[1] /\ path[1] \notin Wildcards /\ First(CatchEmpty) = "/"
  BY CatchFirst
<1> HIDE DEF x, y, u
<1>7. /\ Range(CatchAbove.children) = {x} /\ Len(CatchAbove.children) = 1
      /\ CatchAbove.children[1] = x /\ Len(CatchAbove.indices) = 1
      /\ CatchAbove.indices[1] = "/"
      /\ Range(CatchEmpty.children) = {y} /\ Len(CatchEmpty.children) = 1
  <2>1. \A c : Range(<<c>>) = {c} /\ Len(<<c>>) = 1 /\ <<c>>[1] = c
    BY DEF Range
  <2> QED BY <1>4, <1>5, <2>1
<1>8. \A k \in DOMAIN tree : u[k].priority = tree[k].priority /\ u[k].handler = tree[k].handler
  BY <1>1, <1>2, <1>4, <1>5
<1>9. OrderInv(u)
  <2>1. ASSUME NEW k \in DOMAIN u, k \notin DOMAIN tree \/ k = node
        PROVE  Len(u[k].children) <= 1
    <3>1. CASE k = node \/ k = x
      <4>1. u[k] = CatchAbove \/ u[k] = CatchEmpty
        BY <1>1, <3>1
      <4>2. Len(u[k].children) = 1
        BY <1>7, <4>1
      <4> QED BY <4>2
    <3>2. CASE k = y
      <4>1. Len(u[k].children) = 0
        BY <1>1, <1>4, <3>2
      <4> QED BY <4>1
    <3> QED BY <1>3, <2>1, <3>1, <3>2
  <2>2. DOMAIN tree \subseteq DOMAIN u
    BY <1>3
  <2> QED BY <1>1, <1>2, <1>8, <2>1, <2>2, GrowOrder
<1>10. Graph(KidsOf(u)) /\ Counted(KidsOf(u), HeadsOf(u), PrioritiesOf(u), 0)
  <2>1. Range(u[node].children) = Range(tree[node].children) \cup {x}
    BY <1>1, <1>2, <1>7
  <2>2. /\ Range(u[x].children) = {y} /\ Range(u[y].children) = {}
        /\ u[x].priority = 1 /\ u[y].priority = 1
    BY <1>1, <1>4, <1>5, <1>7
  <2>3. \A k \in DOMAIN tree : k # node => Range(u[k].children) = Range(tree[k].children)
    BY <1>1
  <2>4. SproutedTwo(tree, u, node, x, y)
    BY <1>3, <1>8, <2>1, <2>2, <2>3 DEF SproutedTwo
  <2>5. HeadsOf(u) = HeadsOf(tree) \cup {y} /\ y \notin HeadsOf(tree)
    <3>1. u[x].handler = None /\ u[y].handler # None
      BY <1>1, <1>4
    <3> QED BY <1>3, <1>8, <3>1 DEF HeadsOf
  <2>6. /\ Graph(KidsOf(u)) /\ DOMAIN KidsOf(u) = DOMAIN tree \cup {x, y}
        /\ Counted(KidsOf(u), HeadsOf(tree), PrioritiesOf(u), y)
    BY <1>2, <2>4, SproutTwoExact
  <2>7. y \in DOMAIN KidsOf(u) /\ 0 \notin DOMAIN KidsOf(u)
    BY <1>3, <2>6
  <2> QED BY <2>5, <2>6, <2>7, CountEnd
<1> DEFINE L == LabelsOf(tree, node, path)
           M == LabelsOf(u, 0, path')
<1>11. LabelInv(u, M)
  <2>1. \A c \in DOMAIN tree : M[c] = L[c]
    <3>1. DOMAIN tree \subseteq DOMAIN u /\ 0 \notin DOMAIN tree /\ node \in DOMAIN tree
          /\ Inserting /\ \A k \in DOMAIN tree \ {node} : u[k] = tree[k]
      BY <1>1, <1>2, <1>3
    <3>2. First(u[node]) = IF path[1] \in Wildcards THEN First(tree[node]) ELSE path[1]
      BY <1>1, <1>6
    <3> QED BY <3>1, <3>2, InsertLabels
  <2>2. LabelInv(tree, L)
    BY <1>2
  <2>3. M[x] = "/"
    BY <1>1, <1>3, <1>6 DEF LabelsOf
  <2> HIDE DEF L, M
  <2>4. Labelled(CatchEmpty, M) /\ Labelled(CatchHolder, M)
    BY <1>4, Unlabelled
  <2>5. Labelled(CatchAbove, M)
    <3>1. \A j \in 1 .. Len(CatchAbove.children) : j = 1
      BY <1>7
    <3>2. CatchAbove.indices[1] = M[CatchAbove.children[1]]
      BY <1>7, <2>3
    <3>3. Len(CatchAbove.indices) = Len(CatchAbove.children)
      BY <1>7
    <3> QED BY <1>4, <3>1, <3>2, <3>3 DEF Labelled
  <2>6. \A k \in DOMAIN u : k \notin DOMAIN tree \/ k = node => Labelled(u[k], M)
    BY <1>1, <1>3, <2>4, <2>5
  <2>7. IsTree(tree) /\ TreeInv(tree, node) /\ node \in DOMAIN tree
    BY <1>2
  <2>8. \A k \in DOMAIN tree \ {node} : u[k] = tree[k]
    BY <1>1
  <2> QED BY <2>1, <2>2, <2>6, <2>7, <2>8, GrowLabels
<1>12. PlaceInv(u, LabelsOf(u, 0, path'), 0)
  BY <1>9, <1>10, <1>11 DEF PlaceInv
<1> QED BY <1>1, <1>3, <1>12 DEF ExactInv, u

-----------------------------------------------------------------------------
(* The other steps.                                                        *)

LEMMA InitExact ==
    ASSUME Init, RadixInv
    PROVE  ExactInv
<1> DEFINE one == <<Blank>>
           K == KidsOf(tree)
<1>1. /\ pc = "idle" /\ tree = one /\ Hole = 0 /\ At = 0
  BY DEF Init, Hole, At
<1>2. one[1] = Blank /\ DOMAIN one = 1 .. 1 /\ 1 .. 1 = {1} /\ 0 \notin 1 .. 1
  OBVIOUS
<1>3. /\ Blank.handler = None /\ Blank.priority = 0 /\ Blank.path = <<>>
      /\ Len(Blank.indices) = 0 /\ Len(Blank.children) = 0 /\ Range(Blank.children) = {}
  BY DEF Blank, Range
<1> HIDE DEF one
<1>4. /\ DOMAIN tree = {1} /\ tree[1] = Blank /\ 0 \notin DOMAIN tree
  BY <1>1, <1>2
<1>5. DOMAIN K = {1} /\ K[1] = {}
  BY <1>3, <1>4 DEF KidsOf
<1>6. HeadsOf(tree) = {} /\ PrioritiesOf(tree)[1] = 0
  BY <1>3, <1>4 DEF HeadsOf, PrioritiesOf
<1> HIDE DEF K
<1>7. Graph(K)
  <2>1. IsFiniteSet({1})
    BY FS_Singleton
  <2> QED BY <1>5, <2>1 DEF Graph
<1>8. Counted(K, HeadsOf(tree), PrioritiesOf(tree), 0)
  <2>1. Cardinality({}) = 0
    BY FS_EmptySet
  <2>2. SubOf(K, 1) \cap {} = {} /\ 0 \notin SubOf(K, 1)
    BY <1>5 DEF SubOf
  <2> QED BY <1>5, <1>6, <2>1, <2>2 DEF Counted
<1>9. OrderInv(tree)
  <2>1. Ordered(tree, Blank.children)
    BY <1>3 DEF Ordered
  <2> QED BY <1>4, <2>1 DEF OrderInv
<1>10. LabelInv(tree, LabelsOf(tree, 0, path))
  <2> DEFINE L == LabelsOf(tree, 0, path)
  <2>1. L[1] = "/"
    BY <1>3, <1>4 DEF LabelsOf, First
  <2> HIDE DEF L
  <2>2. Labelled(Blank, L)
    BY <1>3, Unlabelled
  <2>3. LabelInv(tree, L)
    BY <1>4, <2>1, <2>2 DEF LabelInv
  <2> QED BY <2>3 DEF L
<1> QED BY <1>1, <1>7, <1>8, <1>9, <1>10 DEF ExactInv, PlaceInv, K

LEMMA StepExact ==
    ASSUME RadixInv, ExactInv, [Next]_vars
    PROVE  ExactInv'
<1>1. ASSUME NEW r \in Routes, Add(r) PROVE ExactInv'
  BY <1>1, AddExact
<1>2. CASE Split
  BY <1>2, SplitExact
<1>3. CASE SplitAborts \/ AppendAborts \/ InsertRefused \/ Walk
  <2>1. pc' \notin {"idle", "add", "insert"}
    BY <1>3 DEF SplitAborts, AppendAborts, InsertRefused, Walk
  <2> QED BY <2>1 DEF ExactInv
<1>4. CASE DescendWild
  BY <1>4, DescendWildExact
<1>5. CASE DescendParam
  BY <1>5, DescendParamExact
<1>6. CASE DescendIndex
  BY <1>6, DescendIndexExact
<1>7. CASE AppendChild
  BY <1>7, AppendChildExact
<1>8. CASE WildHere
  BY <1>8, WildHereExact
<1>9. CASE SetLeaf
  BY <1>9, SetLeafExact
<1>10. CASE InsertParam
  BY <1>10, InsertParamExact
<1>11. CASE InsertCatchAll
  BY <1>11, InsertCatchAllExact
<1>12. CASE InsertRest
  BY <1>12, InsertRestExact
<1>13. CASE UNCHANGED vars
  <2>1. UNCHANGED <<pc, tree, node, path>>
    BY <1>13 DEF vars
  <2>2. AtNode' = AtNode /\ Hole' = Hole /\ At' = At
    BY <2>1 DEF AtNode, Hole, At
  <2> QED BY <2>1, <2>2 DEF ExactInv
<1> QED BY <1>1, <1>2, <1>3, <1>4, <1>5, <1>6, <1>7, <1>8, <1>9, <1>10, <1>11, <1>12,
           <1>13 DEF Next

\* A node and the nodes below it.
LEMMA BelowSub ==
    ASSUME RadixInv, Graph(KidsOf(tree)), NEW n \in DOMAIN tree
    PROVE  Below(n) \cup {n} = SubOf(KidsOf(tree), n)
<1> DEFINE K == KidsOf(tree)
           B == Below(n)
           S == SubOf(K, n)
<1>1. /\ B \subseteq DOMAIN tree /\ Kids(n) \subseteq B /\ Closed(tree, B)
      /\ \A T \in SUBSET DOMAIN tree : Kids(n) \subseteq T /\ Closed(tree, T) => B \subseteq T
  BY BelowFacts
<1>2. DOMAIN K = DOMAIN tree /\ \A k \in DOMAIN tree : K[k] = Range(tree[k].children)
  BY DEF KidsOf
<1>3. /\ S \in SUBSET DOMAIN K /\ n \in S /\ Shut(K, S)
      /\ \A T \in SUBSET DOMAIN K : n \in T /\ Shut(K, T) => S \subseteq T
  BY <1>2, SubFacts
<1> HIDE DEF K, B, S
<1>4. S \subseteq B \cup {n}
  <2>1. Shut(K, B \cup {n})
    BY <1>1, <1>2 DEF Closed, Shut, Kids
  <2> QED BY <1>1, <1>2, <1>3, <2>1
<1>5. B \subseteq S
  <2>1. Closed(tree, S) /\ Kids(n) \subseteq S
    BY <1>2, <1>3 DEF Closed, Shut, Kids
  <2> QED BY <1>1, <1>2, <1>3, <2>1
<1>6. B \cup {n} = S
  BY <1>3, <1>4, <1>5
<1> QED BY <1>6 DEF B, S, K

LEMMA ExactGivesPriorities ==
    ASSUME RadixInv, ExactInv
    PROVE  PrioritiesExact
<1> SUFFICES ASSUME pc = "idle", NEW n \in DOMAIN tree
             PROVE  LET kids == tree[n].children
                        first(c) == IF tree[c].path = <<>> THEN "/" ELSE tree[c].path[1]
                    IN /\ tree[n].priority =
                             Cardinality({m \in Below(n) \cup {n} : tree[m].handler # None})
                       /\ \A k \in 1 .. Len(kids) - 1 :
                             tree[kids[k]].priority >= tree[kids[k + 1]].priority
                       /\ ~tree[n].wild /\ tree[n].type # "param" =>
                             tree[n].indices = [k \in DOMAIN kids |-> first(kids[k])]
  BY DEF PrioritiesExact
<1> DEFINE kids == tree[n].children
           K == KidsOf(tree)
<1>1. /\ At = 0 /\ 0 \notin DOMAIN tree /\ IsTree(tree) /\ DOMAIN K = DOMAIN tree
      /\ Graph(K) /\ OrderInv(tree)
      /\ Counted(K, HeadsOf(tree), PrioritiesOf(tree), 0)
  <2>1. At = 0
    BY DEF At
  <2> QED BY <2>1, PlaceFacts
<1>2. kids \in Seq(DOMAIN tree) /\ tree[n].indices \in Seq(STRING)
  BY <1>1, OldChild
<1>3. tree[n].priority = Cardinality({m \in Below(n) \cup {n} : tree[m].handler # None})
  <2>1. SubOf(K, n) \subseteq DOMAIN tree
    BY <1>1, SubFacts
  <2>2. PrioritiesOf(tree)[n] = Cardinality(SubOf(K, n) \cap HeadsOf(tree))
    <3>1. 0 \notin SubOf(K, n)
      BY <1>1, <2>1
    <3>2. PrioritiesOf(tree)[n]
            = Cardinality(SubOf(K, n) \cap HeadsOf(tree)) + (IF 0 \in SubOf(K, n) THEN 1 ELSE 0)
      BY <1>1 DEF Counted
    <3>3. Cardinality(SubOf(K, n) \cap HeadsOf(tree)) \in Nat
      BY <1>1, HeadsFinite
    <3> QED BY <3>1, <3>2, <3>3
  <2>3. SubOf(K, n) \cap HeadsOf(tree) = {m \in Below(n) \cup {n} : tree[m].handler # None}
    <3>1. Below(n) \cup {n} = SubOf(K, n)
      BY <1>1, BelowSub
    <3> HIDE DEF K
    <3> QED BY <2>1, <3>1 DEF HeadsOf
  <2> QED BY <2>2, <2>3 DEF PrioritiesOf
<1>4. ASSUME NEW k \in 1 .. Len(kids) - 1
      PROVE  tree[kids[k]].priority >= tree[kids[k + 1]].priority
  <2>1. Ordered(tree, kids)
    BY <1>1 DEF OrderInv
  <2>2. k \in 1 .. Len(kids) /\ k + 1 \in 1 .. Len(kids) /\ k <= k + 1
    <3>1. Len(kids) \in Nat
      BY <1>2
    <3> HIDE DEF kids
    <3> QED BY <3>1
  <2> QED BY <2>1, <2>2 DEF Ordered
<1>5. ASSUME ~tree[n].wild, tree[n].type # "param"
      PROVE  tree[n].indices = [k \in DOMAIN kids |-> First(tree[kids[k]])]
  <2> DEFINE ix == tree[n].indices
  <2>1. Len(ix) = Len(kids) /\ \A k \in 1 .. Len(kids) : ix[k] = First(tree[kids[k]])
    BY <1>5, ListLabels
  <2>2. DOMAIN ix = 1 .. Len(ix) /\ DOMAIN kids = 1 .. Len(kids)
    BY <1>2
  <2>3. ix = [k \in DOMAIN ix |-> ix[k]]
    BY <1>2
  <2> HIDE DEF ix, kids
  <2> QED BY <2>1, <2>2, <2>3 DEF ix
<1> QED BY <1>3, <1>4, <1>5 DEF First

-----------------------------------------------------------------------------
(* The theorems.                                                           *)

LEMMA InitHolds ==
    ASSUME Init
    PROVE  RadixInv
<1> DEFINE one == <<Blank>>
<1>1. /\ pc = "idle" /\ tree = one /\ node = 1 /\ path = <<>> /\ left = 0 /\ route = <<>>
      /\ added = <<>> /\ inited = {}
  BY DEF Init
<1>2. Blank \in NodeSet(1) /\ ~Holds(Blank) /\ WildCount(Blank.path) = 0
  <2>1. 1 \in Nat
    OBVIOUS
  <2> QED BY <2>1, BlankNode
<1>3. one \in Seq(NodeSet(1)) /\ Len(one) = 1 /\ one # <<>> /\ one[1] = Blank /\ DOMAIN one = 1 .. 1
  BY <1>2
<1>4. /\ Blank.handler = None /\ Blank.type = "static" /\ Blank.wild = FALSE
      /\ Len(Blank.indices) = 0 /\ Len(Blank.children) = 0 /\ Range(Blank.children) = {}
  BY DEF Blank, Range
<1> HIDE DEF one
<1>5. TypeInv
  BY <1>1, <1>3 DEF TypeInv
<1>6. Hole = 0 /\ 1 .. 1 = {1} /\ 2 .. 1 = {}
  BY <1>1 DEF Hole
<1>7. TreeInv(tree, Hole)
  <2>1. NodeInv(Blank, FALSE)
    BY <1>2, <1>4 DEF NodeInv
  <2>2. HandlerInv(tree)
    BY <1>1, <1>3, <1>4, <1>6 DEF HandlerInv
  <2>3. LinkInv(tree)
    BY <1>1, <1>3, <1>4, <1>6 DEF LinkInv
  <2>4. ReachInv(tree)
    BY <1>1, <1>3, <1>6 DEF ReachInv
  <2>5. \A n \in DOMAIN tree : NodeInv(tree[n], n = Hole)
    BY <1>1, <1>3, <1>6, <2>1
  <2> QED BY <1>1, <1>3, <1>4, <2>2, <2>3, <2>4, <2>5 DEF TreeInv
<1>8. Range(added) = HandlersOf(tree)
  <2>1. Range(added) = {}
    BY <1>1 DEF Range
  <2>2. HandlersOf(tree) = {}
    BY <1>1, <1>3, <1>4, <1>6 DEF HandlersOf
  <2> QED BY <2>1, <2>2
<1> QED BY <1>1, <1>5, <1>7, <1>8 DEF RadixInv, WalkerVisitsAll

LEMMA StepHolds ==
    ASSUME RadixInv, RoutesFit, [Next]_vars
    PROVE  RadixInv'
<1>1. ASSUME NEW r \in Routes, Add(r) PROVE RadixInv'
  BY <1>1, AddStep
<1>2. CASE Split
  BY <1>2, SplitStep
<1>3. CASE SplitAborts \/ AppendAborts
  BY <1>3, AbortStep
<1>4. CASE DescendWild
  BY <1>4, DescendWildStep
<1>5. CASE DescendParam
  BY <1>5, DescendParamStep
<1>6. CASE DescendIndex
  BY <1>6, DescendIndexStep
<1>7. CASE AppendChild
  BY <1>7, AppendChildStep
<1>8. CASE WildHere
  BY <1>8, WildHereStep
<1>9. CASE SetLeaf
  BY <1>9, SetLeafStep
<1>10. CASE InsertParam
  BY <1>10, InsertParamStep
<1>11. CASE InsertCatchAll
  BY <1>11, InsertCatchAllStep
<1>12. CASE InsertRefused
  BY <1>12, InsertRefusedStep
<1>13. CASE InsertRest
  BY <1>13, InsertRestStep
<1>14. CASE Walk
  BY <1>14, WalkStep
<1>15. CASE UNCHANGED vars
  <2>1. UNCHANGED <<pc, tree, node, path, left, route, added, inited>>
    BY <1>15 DEF vars
  <2>2. AtNode' = AtNode /\ Hole' = Hole
    BY <2>1 DEF AtNode, Hole
  <2>3. TypeInv' /\ TreeInv(tree', Hole') /\ Range(added') = HandlersOf(tree')
    BY <2>1, <2>2 DEF RadixInv, TypeInv
  <2>4. /\ AddInv' <=> AddInv
        /\ InsertInv' <=> InsertInv
        /\ WalkerVisitsAll' <=> WalkerVisitsAll
    BY <2>1, <2>2 DEF AddInv, InsertInv, WalkerVisitsAll
  <2> QED BY <2>1, <2>3, <2>4 DEF RadixInv
<1> QED BY <1>1, <1>2, <1>3, <1>4, <1>5, <1>6, <1>7, <1>8, <1>9, <1>10, <1>11, <1>12,
           <1>13, <1>14, <1>15 DEF Next

\* In every state the nodes are well formed and all below the root, the handlers in
\* them are those of the accepted routes, and num_params is what is left to place, for
\* routes whose wildcards pgrest_count_params counts (string.c:57-59).
THEOREM RadixInvariant == ASSUME RoutesFit PROVE Spec => []RadixInv
<1>1. Init => RadixInv
  BY InitHolds
<1>2. RadixInv /\ [Next]_vars => RadixInv'
  BY StepHolds
<1> QED BY <1>1, <1>2, PTL DEF Spec

LEMMA MaxWithZero ==
    ASSUME NEW a \in Int
    PROVE  Max({0, a}) = IF a > 0 THEN a ELSE 0
<1> DEFINE S == {0, a}
           m == IF a > 0 THEN a ELSE 0
<1>1. m \in S /\ \A y \in S : m >= y
  OBVIOUS
<1>2. \A x \in S : (\A y \in S : x >= y) => x = m
  OBVIOUS
<1> HIDE DEF m, S
<1>3. Max(S) \in S /\ \A y \in S : Max(S) >= y
  BY <1>1 DEF Max
<1>4. Max(S) = m
  BY <1>2, <1>3
<1> QED BY <1>4 DEF S, m

\* The loop of pgrest_rtree_child_insert counts exactly the wildcards that are left,
\* for routes whose wildcards pgrest_count_params counts.
THEOREM RadixWildcardsCounted == ASSUME RoutesFit PROVE Spec => []WildcardsCounted
<1>1. RadixInv => WildcardsCounted
  <2> SUFFICES ASSUME RadixInv, pc = "insert" PROVE WildcardsCounted
    BY DEF WildcardsCounted
  <2> DEFINE own == IF AtNode.type = "param" THEN 1 ELSE 0
             over == WildCount(route) - ParamLimit
             exact == WildCount(path) - own - 0
  <2>1. InsertInv /\ WildCount(path) \in Nat /\ left = exact
    <3>1. InsertInv /\ WildCount(path) \in Nat
      BY InvFacts DEF RadixInv
    <3> QED BY <3>1 DEF InsertInv
  <2>2. over \in Int /\ over <= 0
    <3>1. route \in Routes /\ route \in Seq(STRING)
      BY <2>1, RadixTreeAssumption DEF InsertInv
    <3> QED BY <3>1, CountType, RadixTreeAssumption DEF RoutesFit
  <2>3. left \in Nat
    BY <2>1 DEF InsertInv
  <2> HIDE DEF own, over
  <2>4. Max({0, over}) = 0
    BY <2>2, MaxWithZero
  <2>5. left = Max({0, left})
    BY <2>3, MaxWithZero
  <2> QED BY <2>1, <2>4, <2>5 DEF WildcardsCounted, own, over
<1> QED BY <1>1, RadixInvariant, PTL

\* The walker initializes the handlers of every accepted route, except one at the
\* root node, for routes whose wildcards pgrest_count_params counts.
THEOREM RadixWalkerVisitsAll == ASSUME RoutesFit PROVE Spec => []WalkerVisitsAll
<1>1. RadixInv => WalkerVisitsAll
  BY DEF RadixInv
<1> QED BY <1>1, RadixInvariant, PTL

\* The variables have their types, and every child is a node behind the root,
\* for routes whose wildcards pgrest_count_params counts.
THEOREM RadixTypeOK == ASSUME RoutesFit PROVE Spec => []TypeOK
<1>1. RadixInv => TypeOK
  <2> SUFFICES ASSUME RadixInv PROVE TypeOK
    OBVIOUS
  <2>1. TypeInv /\ \A n \in DOMAIN tree : tree[n] \in NodeSet(Len(tree))
    BY InvFacts
  <2>2. Range(added) \subseteq Routes
    BY <2>1 DEF TypeInv, Range
  <2>3. ASSUME NEW n \in DOMAIN tree PROVE Range(tree[n].children) \subseteq 2 .. Len(tree)
    <3>1. tree[n].children \in Seq(2 .. Len(tree))
      BY <2>1 DEF NodeSet
    <3> QED BY <3>1 DEF Range
  <2>4. \A n \in DOMAIN tree : /\ tree[n].type \in {"static", "root", "param", "catchall"}
                               /\ tree[n].handler \in Routes \cup {None}
    BY <2>1 DEF NodeSet
  <2> QED BY <2>1, <2>2, <2>3, <2>4 DEF TypeInv, TypeOK
<1> QED BY <1>1, RadixInvariant, PTL

\* Through all splits, exchanges and insertions the priority of a node is the number of
\* routes at and below it, its children come in falling order of theirs, and each index
\* character is the first of the child it stands for (rtree.c:123-155, 287-345), for
\* routes whose wildcards pgrest_count_params counts.
THEOREM RadixTreeExact == ASSUME RoutesFit PROVE Spec => []TreeExact
<1>1. Init => RadixInv /\ ExactInv
  BY InitHolds, InitExact
<1>2. (RadixInv /\ ExactInv) /\ [Next]_vars => (RadixInv /\ ExactInv)'
  BY StepHolds, StepExact
<1>3. RadixInv /\ ExactInv => PrioritiesExact
  BY ExactGivesPriorities
<1>4. Spec => [](RadixInv /\ ExactInv)
  BY <1>1, <1>2, PTL DEF Spec
<1>5. Spec => []TypeOK
  BY RadixTypeOK
<1>6. TypeOK /\ PrioritiesExact => TreeExact
  BY DEF TreeExact
<1> QED BY <1>3, <1>4, <1>5, <1>6, PTL

=============================================================================
