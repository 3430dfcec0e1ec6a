--------------------------- MODULE HttpConnProofs ---------------------------
(***************************************************************************)
(* Proofs about HttpConn, for any number of connection slots and lingering *)
(* in each of its settings. What is proved of the free list, the pools and *)
(* the events holds whether event_add() fails or not; what is proved of    *)
(* the reusable list holds until it fails for an idle connection (failed). *)
(***************************************************************************)
EXTENDS HttpConn, ListFacts

Links == [Nodes -> Nodes \cup {Null}]

\* The nodes are the slots and the anchor.
LEMMA NodeFacts ==
    /\ \A c \in Conns : c \in Nodes /\ c # List
    /\ List \in Nodes /\ Null \notin Nodes /\ Conns \subseteq Nodes
<1>1. List # Null
  BY DEF List, Null
<1> QED BY <1>1, HttpConnAssumption DEF Nodes

\* Everything but the links and the mark of c is the same.
OnlyLinks(m, u) ==
    /\ u.free = m.free /\ u.no = m.no /\ u.fd = m.fd /\ u.close = m.close
    /\ u.handler = m.handler /\ u.armed = m.armed /\ u.pool = m.pool

-----------------------------------------------------------------------------
(* The two operations on the list, and what they do to a ring.             *)

\* dlist_delete writes the links of the two neighbours.
LEMMA DeleteFields ==
    ASSUME NEW m \in Memory, NEW c \in Conns, m.prev[c] \in Nodes, m.next[c] \in Nodes
    PROVE  LET u == Delete(m, c) IN
           /\ u \in Memory /\ OnlyLinks(m, u) /\ u.reusable = m.reusable
           /\ \A y \in Nodes : u.next[y] = IF y = m.prev[c] THEN m.next[c] ELSE m.next[y]
           /\ \A y \in Nodes : u.prev[y] = IF y = m.next[c] THEN m.prev[c] ELSE m.prev[y]
<1> DEFINE u == Delete(m, c)
           f == [m.next EXCEPT ![m.prev[c]] = m.next[c]]
           g == [m.prev EXCEPT ![m.next[c]] = m.prev[c]]
<1>1. m.next \in Links /\ m.prev \in Links
  BY DEF Memory, Links
<1>2. u = [[m EXCEPT !.next = f] EXCEPT !.prev = g]
  BY DEF Delete, Memory
<1>3. /\ f \in Links /\ \A y \in Nodes : f[y] = IF y = m.prev[c] THEN m.next[c] ELSE m.next[y]
      /\ g \in Links /\ \A y \in Nodes : g[y] = IF y = m.next[c] THEN m.prev[c] ELSE m.prev[y]
  BY <1>1 DEF Links
<1> HIDE DEF u, f, g
<1>4. u \in Memory /\ u.next = f /\ u.prev = g /\ u.reusable = m.reusable /\ OnlyLinks(m, u)
  BY <1>2, <1>3 DEF Memory, Links, OnlyLinks
<1> QED BY <1>3, <1>4 DEF u

\* dlist_push_head writes the links of the node, the anchor and the first node.
LEMMA PushFields ==
    ASSUME NEW m \in Memory, NEW c \in Conns, m.next[List] \in Nodes
    PROVE  LET u == PushHead(m, c) IN
           /\ u \in Memory /\ OnlyLinks(m, u) /\ u.reusable = m.reusable
           /\ \A y \in Nodes : u.next[y] = IF y = List THEN c
                                           ELSE IF y = c THEN m.next[List] ELSE m.next[y]
           /\ \A y \in Nodes : u.prev[y] = IF y = m.next[List] THEN c
                                           ELSE IF y = c THEN List ELSE m.prev[y]
<1> DEFINE u == PushHead(m, c)
           f == [[m.next EXCEPT ![c] = m.next[List]] EXCEPT ![List] = c]
           g == [[m.prev EXCEPT ![c] = List] EXCEPT ![m.next[List]] = c]
<1>0. c \in Nodes /\ List \in Nodes
  BY NodeFacts
<1>1. m.next \in Links /\ m.prev \in Links
  BY DEF Memory, Links
<1>2. u = [[m EXCEPT !.next = f] EXCEPT !.prev = g]
  BY DEF PushHead, Memory
<1>3. /\ f \in Links
      /\ \A y \in Nodes : f[y] = IF y = List THEN c ELSE IF y = c THEN m.next[List] ELSE m.next[y]
      /\ g \in Links
      /\ \A y \in Nodes : g[y] = IF y = m.next[List] THEN c ELSE IF y = c THEN List ELSE m.prev[y]
  BY <1>0, <1>1 DEF Links
<1> HIDE DEF u, f, g
<1>4. u \in Memory /\ u.next = f /\ u.prev = g /\ u.reusable = m.reusable /\ OnlyLinks(m, u)
  BY <1>2, <1>3 DEF Memory, Links, OnlyLinks
<1> QED BY <1>3, <1>4 DEF u

\* A ring depends on the links of its nodes only.
LEMMA RingFrame ==
    ASSUME NEW m, NEW u, NEW L \in SUBSET Conns, Ring(m, L),
           \A x \in L \cup {List} : u.next[x] = m.next[x] /\ u.prev[x] = m.prev[x]
    PROVE  Ring(u, L)
<1>1. \A x \in L \cup {List} :
         /\ m.next[x] \in L \cup {List} /\ m.prev[m.next[x]] = x
         /\ m.prev[x] \in L \cup {List} /\ m.next[m.prev[x]] = x
  BY DEF Ring
<1>2. ASSUME NEW S \in SUBSET (L \cup {List}), List \in S, \A x \in S : u.next[x] \in S
      PROVE  S = L \cup {List}
  BY <1>2 DEF Ring
<1> QED BY <1>1, <1>2 DEF Ring

\* Taking a member out of a ring leaves a ring of the others.
LEMMA RingDelete ==
    ASSUME NEW m, NEW u, NEW L \in SUBSET Conns, Ring(m, L), NEW c \in L,
           \A y \in Nodes : u.next[y] = IF y = m.prev[c] THEN m.next[c] ELSE m.next[y],
           \A y \in Nodes : u.prev[y] = IF y = m.next[c] THEN m.prev[c] ELSE m.prev[y]
    PROVE  Ring(u, L \ {c})
<1> DEFINE N == L \cup {List}
           R == (L \ {c}) \cup {List}
<1>1. \A x \in N : /\ m.next[x] \in N /\ m.prev[m.next[x]] = x
                   /\ m.prev[x] \in N /\ m.next[m.prev[x]] = x
  BY DEF Ring
<1>2. \A S \in SUBSET N : List \in S /\ (\A x \in S : m.next[x] \in S) => S = N
  BY DEF Ring
<1>3. N \subseteq Nodes /\ R = N \ {c} /\ c \in N /\ List \in R /\ c # List
  BY NodeFacts
<1> HIDE DEF N
<1>4. m.next[c] # c /\ m.prev[c] # c
  <2>1. m.next[c] # c
    <3>1. ASSUME m.next[c] = c PROVE FALSE
      <4>1. \A x \in N \ {c} : m.next[x] \in N \ {c}
        BY <1>1, <1>3, <3>1
      <4>2. N \ {c} = N
        BY <1>2, <1>3, <4>1
      <4> QED BY <1>3, <4>2
    <3> QED BY <3>1
  <2> QED BY <1>1, <1>3, <2>1
<1>5. ASSUME NEW x \in R
      PROVE  /\ u.next[x] \in R /\ u.prev[u.next[x]] = x
             /\ u.prev[x] \in R /\ u.next[u.prev[x]] = x
  <2>1. x \in N /\ x # c /\ x \in Nodes
    BY <1>3
  <2>2. u.next[x] \in R /\ u.prev[u.next[x]] = x
    <3>1. CASE x = m.prev[c]
      BY <1>1, <1>3, <1>4, <2>1, <3>1
    <3>2. CASE x # m.prev[c]
      <4>1. u.next[x] = m.next[x] /\ m.next[x] # c /\ m.next[x] # m.next[c]
        BY <1>1, <1>3, <2>1, <3>2
      <4>2. u.prev[m.next[x]] = m.prev[m.next[x]]
        BY <1>1, <1>3, <2>1, <4>1
      <4> QED BY <1>1, <1>3, <2>1, <4>1, <4>2
    <3> QED BY <3>1, <3>2
  <2>3. u.prev[x] \in R /\ u.next[u.prev[x]] = x
    <3>1. CASE x = m.next[c]
      BY <1>1, <1>3, <1>4, <2>1, <3>1
    <3>2. CASE x # m.next[c]
      <4>1. u.prev[x] = m.prev[x] /\ m.prev[x] # c /\ m.prev[x] # m.prev[c]
        BY <1>1, <1>3, <2>1, <3>2
      <4>2. u.next[m.prev[x]] = m.next[m.prev[x]]
        BY <1>1, <1>3, <2>1, <4>1
      <4> QED BY <1>1, <1>3, <2>1, <4>1, <4>2
    <3> QED BY <3>1, <3>2
  <2> QED BY <2>2, <2>3
<1>6. ASSUME NEW S \in SUBSET R, List \in S, \A x \in S : u.next[x] \in S
      PROVE  S = R
  <2> DEFINE T == S \cup {x \in {c} : m.prev[c] \in S}
  <2>1. T \in SUBSET N /\ List \in T
    BY <1>3, <1>6
  <2>2. ASSUME NEW x \in T PROVE m.next[x] \in T
    <3>1. CASE x = c
      <4>1. m.prev[c] \in S
        BY <1>3, <2>2, <3>1
      <4>2. u.next[m.prev[c]] = m.next[c]
        BY <1>1, <1>3
      <4> QED BY <1>6, <3>1, <4>1, <4>2
    <3>2. CASE x # c /\ x = m.prev[c]
      <4>1. m.next[x] = c /\ x \in S
        BY <1>1, <1>3, <2>2, <3>2
      <4> QED BY <3>2, <4>1
    <3>3. CASE x # c /\ x # m.prev[c]
      <4>1. x \in S /\ u.next[x] = m.next[x]
        BY <1>3, <2>2, <3>3
      <4> QED BY <1>6, <4>1
    <3> QED BY <3>1, <3>2, <3>3
  <2>3. T = N
    BY <1>2, <2>1, <2>2
  <2> QED BY <1>3, <2>3
<1> QED BY <1>5, <1>6 DEF Ring

\* Pushing a node on a ring it is not on adds it.
LEMMA RingPush ==
    ASSUME NEW m, NEW u, NEW L \in SUBSET Conns, Ring(m, L), NEW c \in Conns \ L,
           \A y \in Nodes : u.next[y] = IF y = List THEN c
                                        ELSE IF y = c THEN m.next[List] ELSE m.next[y],
           \A y \in Nodes : u.prev[y] = IF y = m.next[List] THEN c
                                        ELSE IF y = c THEN List ELSE m.prev[y]
    PROVE  Ring(u, L \cup {c})
<1> DEFINE N == L \cup {List}
           R == (L \cup {c}) \cup {List}
<1>1. \A x \in N : /\ m.next[x] \in N /\ m.prev[m.next[x]] = x
                   /\ m.prev[x] \in N /\ m.next[m.prev[x]] = x
  BY DEF Ring
<1>2. \A S \in SUBSET N : List \in S /\ (\A x \in S : m.next[x] \in S) => S = N
  BY DEF Ring
<1>3. R \subseteq Nodes /\ R = N \cup {c} /\ c \notin N /\ List \in N /\ c # List
  BY NodeFacts
<1> HIDE DEF N
<1>5. ASSUME NEW x \in R
      PROVE  /\ u.next[x] \in R /\ u.prev[u.next[x]] = x
             /\ u.prev[x] \in R /\ u.next[u.prev[x]] = x
  <2>1. x \in Nodes /\ (x = c \/ x \in N)
    BY <1>3
  <2>2. u.next[x] \in R /\ u.prev[u.next[x]] = x
    <3>1. CASE x = List \/ x = c
      BY <1>1, <1>3, <2>1, <3>1
    <3>2. CASE x # List /\ x # c
      <4>1. u.next[x] = m.next[x] /\ m.next[x] # m.next[List] /\ m.next[x] # c
        BY <1>1, <1>3, <2>1, <3>2
      <4>2. u.prev[m.next[x]] = m.prev[m.next[x]]
        BY <1>1, <1>3, <2>1, <3>2, <4>1
      <4> QED BY <1>1, <1>3, <2>1, <3>2, <4>1, <4>2
    <3> QED BY <3>1, <3>2
  <2>3. u.prev[x] \in R /\ u.next[u.prev[x]] = x
    <3>1. CASE x = m.next[List] \/ x = c
      BY <1>1, <1>3, <2>1, <3>1
    <3>2. CASE x # m.next[List] /\ x # c
      <4>1. u.prev[x] = m.prev[x] /\ m.prev[x] # List /\ m.prev[x] # c
        BY <1>1, <1>3, <2>1, <3>2
      <4>2. u.next[m.prev[x]] = m.next[m.prev[x]]
        BY <1>1, <1>3, <2>1, <3>2, <4>1
      <4> QED BY <1>1, <1>3, <2>1, <3>2, <4>1, <4>2
    <3> QED BY <3>1, <3>2
  <2> QED BY <2>2, <2>3
<1>6. ASSUME NEW S \in SUBSET R, List \in S, \A x \in S : u.next[x] \in S
      PROVE  S = R
  <2> DEFINE T == S \ {c}
  <2>1. T \in SUBSET N /\ List \in T
    BY <1>3, <1>6
  <2>2. c \in S
    <3>1. u.next[List] = c
      BY <1>3
    <3> QED BY <1>6, <3>1
  <2>3. ASSUME NEW x \in T PROVE m.next[x] \in T
    <3>1. CASE x = List
      <4>1. u.next[c] = m.next[List]
        BY <1>3
      <4> QED BY <1>1, <1>3, <1>6, <2>2, <3>1, <4>1
    <3>2. CASE x # List
      <4>1. u.next[x] = m.next[x]
        BY <1>3, <2>1, <3>2
      <4> QED BY <1>1, <1>3, <1>6, <2>1, <4>1
    <3> QED BY <3>1, <3>2
  <2>4. T = N
    BY <1>2, <2>1, <2>3
  <2> QED BY <1>3, <2>2, <2>4
<1> QED BY <1>5, <1>6 DEF Ring

-----------------------------------------------------------------------------
(* What the functions of pg_rest_conn.c and its callers do to a memory.    *)

\* pgrest_conn_reusable follows no NULL link, and keeps a list that is a ring of
\* L a ring: with c if it is asked to, else without.
LEMMA ReusableFacts ==
    ASSUME NEW m \in Memory, Followed(m), NEW c \in Conns, NEW on \in BOOLEAN
    PROVE  LET u == Reusable(m, c, on) IN
           /\ u \in Memory /\ Followed(u) /\ OnlyLinks(m, u)
           /\ u.reusable = [m.reusable EXCEPT ![c] = on]
           /\ \A L \in SUBSET Conns :
                 Ring(m, L) /\ m.reusable[c] = (c \in L)
                    => Ring(u, IF on THEN L \cup {c} ELSE L \ {c})
<1> DEFINE off == IF m.reusable[c] THEN Delete(m, c) ELSE m
           set == [off EXCEPT !.reusable[c] = on]
           u   == IF on THEN PushHead(set, c) ELSE set
           Gone(L) == Ring(m, L) /\ m.reusable[c] = (c \in L)
<1>u. Reusable(m, c, on) = u
  BY DEF Reusable
<1>n. /\ c \in Nodes /\ List \in Nodes /\ Null \notin Nodes /\ c # List
      /\ \A x \in Conns : x \in Nodes
  BY NodeFacts
<1>m. /\ m.next \in Links /\ m.prev \in Links /\ m.reusable \in [Conns -> BOOLEAN]
      /\ m.next[List] \in Nodes /\ m.prev[List] \in Nodes
      /\ \A x \in Conns : m.reusable[x] => m.next[x] \in Nodes /\ m.prev[x] \in Nodes
  BY <1>n DEF Memory, Links, Followed
<1>1. /\ off \in Memory /\ OnlyLinks(m, off) /\ off.reusable = m.reusable
      /\ Followed(off)
      /\ \A L \in SUBSET Conns : Gone(L) => Ring(off, L \ {c})
  <2>1. CASE m.reusable[c]
    <3>1. /\ off = Delete(m, c) /\ m.prev[c] \in Nodes /\ m.next[c] \in Nodes
      BY <1>m, <2>1
    <3>2. /\ off \in Memory /\ OnlyLinks(m, off) /\ off.reusable = m.reusable
          /\ \A y \in Nodes : off.next[y] = IF y = m.prev[c] THEN m.next[c] ELSE m.next[y]
          /\ \A y \in Nodes : off.prev[y] = IF y = m.next[c] THEN m.prev[c] ELSE m.prev[y]
      BY <3>1, DeleteFields
    <3> HIDE DEF off
    <3>3. Followed(off)
      BY <1>n, <1>m, <3>1, <3>2 DEF Followed
    <3>4. ASSUME NEW L \in SUBSET Conns, Gone(L) PROVE Ring(off, L \ {c})
      <4>1. Ring(m, L) /\ c \in L
        BY <2>1, <3>4
      <4> QED BY <3>2, <4>1, RingDelete
    <3> QED BY <3>2, <3>3, <3>4
  <2>2. CASE ~m.reusable[c]
    <3>1. off = m
      BY <2>2
    <3>2. ASSUME NEW L \in SUBSET Conns, Gone(L) PROVE Ring(off, L \ {c})
      <4>1. c \notin L /\ Ring(m, L)
        BY <2>2, <3>2
      <4>2. L \ {c} = L
        BY <4>1
      <4> QED BY <3>1, <4>1, <4>2
    <3> QED BY <3>1, <3>2 DEF OnlyLinks
  <2> QED BY <2>1, <2>2
<1> HIDE DEF off
<1>2. /\ set \in Memory /\ OnlyLinks(m, set) /\ set.reusable = [m.reusable EXCEPT ![c] = on]
      /\ set.next = off.next /\ set.prev = off.prev
  BY <1>1 DEF Memory, OnlyLinks
<1>o. /\ off.next \in Links /\ off.prev \in Links
      /\ off.next[List] \in Nodes /\ off.prev[List] \in Nodes
      /\ \A x \in Conns : off.reusable[x] => off.next[x] \in Nodes /\ off.prev[x] \in Nodes
  BY <1>n, <1>1 DEF Memory, Links, Followed
<1> HIDE DEF set, Gone
<1>3. \A L \in SUBSET Conns : Gone(L) => Ring(set, L \ {c})
  BY <1>1, <1>2, RingFrame
<1>4. CASE on
  <2>1. /\ u \in Memory /\ OnlyLinks(set, u) /\ u.reusable = set.reusable
        /\ \A y \in Nodes : u.next[y] = IF y = List THEN c
                                        ELSE IF y = c THEN set.next[List] ELSE set.next[y]
        /\ \A y \in Nodes : u.prev[y] = IF y = set.next[List] THEN c
                                        ELSE IF y = c THEN List ELSE set.prev[y]
    BY <1>2, <1>o, <1>4, PushFields
  <2> HIDE DEF u
  <2>2. Followed(u)
    BY <1>n, <1>m, <1>1, <1>2, <1>o, <2>1 DEF Followed
  <2>3. ASSUME NEW L \in SUBSET Conns, Gone(L) PROVE Ring(u, L \cup {c})
    <3> DEFINE K == L \ {c}
    <3>1. K \in SUBSET Conns /\ c \in Conns \ K /\ Ring(set, K) /\ K \cup {c} = L \cup {c}
      BY <1>3, <2>3
    <3> HIDE DEF K
    <3>2. Ring(u, K \cup {c})
      BY <2>1, <3>1, RingPush
    <3> QED BY <3>1, <3>2
  <2>4. OnlyLinks(m, u)
    BY <1>2, <2>1 DEF OnlyLinks
  <2> QED BY <1>u, <1>2, <1>4, <2>1, <2>2, <2>3, <2>4 DEF Gone
<1>5. CASE ~on
  <2>1. u = set
    BY <1>5
  <2>2. Followed(u)
    BY <1>m, <1>1, <1>2, <1>5, <2>1 DEF Followed
  <2> QED BY <1>u, <1>2, <1>3, <1>5, <2>1, <2>2 DEF Gone
<1> QED BY <1>4, <1>5

\* A step that is about connection c leaves the others alone.
Others(m, u, c) ==
    \A x \in Conns \ {c} :
       /\ u.fd[x] = m.fd[x] /\ u.pool[x] = m.pool[x] /\ u.armed[x] = m.armed[x]
       /\ u.reusable[x] = m.reusable[x] /\ u.handler[x] = m.handler[x]
       /\ u.close[x] = m.close[x]

\* pgrest_conn_get takes the head of the free list, whatever is linked to it.
\* A ring that the slot is not on stays a ring.
LEMMA GetFacts ==
    ASSUME NEW m \in Memory, Followed(m), m.free # <<>>,
           NEW c \in Conns, c = Head(m.free), m.no - 1 \in Nat
    PROVE  LET u == Get(m, c) IN
           /\ u \in Memory /\ Followed(u) /\ Others(m, u, c)
           /\ u.free = Tail(m.free) /\ u.no = m.no - 1
           /\ u.fd[c] /\ ~u.reusable[c] /\ ~u.close[c]
           /\ u.pool = m.pool /\ u.armed = m.armed
           /\ \A L \in SUBSET Conns : c \notin L /\ Ring(m, L) => Ring(u, L)
<1> DEFINE u == Get(m, c)
<1>n. c \in Nodes /\ List \in Nodes /\ c # List /\ Conns \subseteq Nodes
  BY NodeFacts
<1>t. Tail(m.free) \in Seq(Conns)
  BY PopFacts DEF Memory
<1> DEFINE v == [m EXCEPT !.free = Tail(m.free), !.no = m.no - 1]
           w == [v EXCEPT !.next[c] = Null, !.prev[c] = Null]
           y == [w EXCEPT !.reusable[c] = FALSE, !.close[c] = FALSE]
           z == [y EXCEPT !.handler[c] = "none"]
<1>u. u = [z EXCEPT !.fd[c] = TRUE]
  BY DEF Get, Rest, Memory
<1> HIDE DEF u
<1>v. /\ v \in Memory /\ v.free = Tail(m.free) /\ v.no = m.no - 1
      /\ v.next = m.next /\ v.prev = m.prev /\ v.fd = m.fd /\ v.reusable = m.reusable
      /\ v.close = m.close /\ v.handler = m.handler /\ v.pool = m.pool /\ v.armed = m.armed
  BY <1>t DEF Memory
<1> HIDE DEF v
<1>w. /\ w \in Memory /\ w.free = v.free /\ w.no = v.no
      /\ w.next = [m.next EXCEPT ![c] = Null] /\ w.prev = [m.prev EXCEPT ![c] = Null]
      /\ w.fd = m.fd /\ w.reusable = m.reusable
      /\ w.close = m.close /\ w.handler = m.handler /\ w.pool = m.pool /\ w.armed = m.armed
  BY <1>v DEF Memory
<1> HIDE DEF w
<1>y. /\ y \in Memory /\ y.free = v.free /\ y.no = v.no
      /\ y.next = w.next /\ y.prev = w.prev /\ y.fd = m.fd
      /\ y.reusable = [m.reusable EXCEPT ![c] = FALSE]
      /\ y.close = [m.close EXCEPT ![c] = FALSE]
      /\ y.handler = m.handler /\ y.pool = m.pool /\ y.armed = m.armed
  BY <1>w DEF Memory
<1> HIDE DEF y
<1>z. /\ z \in Memory /\ z.free = v.free /\ z.no = v.no
      /\ z.next = w.next /\ z.prev = w.prev /\ z.fd = m.fd
      /\ z.reusable = y.reusable /\ z.close = y.close
      /\ z.handler = [m.handler EXCEPT ![c] = "none"] /\ z.pool = m.pool /\ z.armed = m.armed
  BY <1>y DEF Memory, Handlers
<1> HIDE DEF z
<1>1. /\ u \in Memory /\ u.free = v.free /\ u.no = v.no
      /\ u.next = w.next /\ u.prev = w.prev /\ u.fd = [m.fd EXCEPT ![c] = TRUE]
      /\ u.reusable = y.reusable /\ u.close = y.close
      /\ u.handler = z.handler /\ u.pool = m.pool /\ u.armed = m.armed
  BY <1>z, <1>u DEF Memory
<1>0. /\ u.free = Tail(m.free) /\ u.no = m.no - 1 /\ u.pool = m.pool /\ u.armed = m.armed
      /\ u.next = [m.next EXCEPT ![c] = Null] /\ u.prev = [m.prev EXCEPT ![c] = Null]
      /\ u.fd = [m.fd EXCEPT ![c] = TRUE] /\ u.reusable = [m.reusable EXCEPT ![c] = FALSE]
      /\ u.close = [m.close EXCEPT ![c] = FALSE]
      /\ u.handler = [m.handler EXCEPT ![c] = "none"]
  BY <1>v, <1>w, <1>y, <1>z, <1>1
<1>2. Others(m, u, c)
  BY <1>0 DEF Others, Memory
<1>5. u.fd[c] = TRUE /\ u.reusable[c] = FALSE /\ u.close[c] = FALSE
  BY <1>0 DEF Memory
<1>3. Followed(u)
  BY <1>n, <1>0 DEF Followed, Memory
<1>4. ASSUME NEW L \in SUBSET Conns, c \notin L, Ring(m, L) PROVE Ring(u, L)
  <2>1. \A x \in L \cup {List} : u.next[x] = m.next[x] /\ u.prev[x] = m.prev[x]
    BY <1>n, <1>0, <1>4 DEF Memory
  <2> QED BY <1>4, <2>1, RingFrame
<1> QED BY <1>0, <1>1, <1>2, <1>3, <1>4, <1>5 DEF u

\* The slot and its socket go back; the links and marks stay.
LEMMA GiveBackFacts ==
    ASSUME NEW m \in Memory, NEW c \in Conns
    PROVE  LET u == GiveBack(m, c) IN
           /\ u \in Memory /\ Others(m, u, c)
           /\ u.free = <<c>> \o m.free /\ u.no = m.no + 1 /\ ~u.fd[c]
           /\ u.next = m.next /\ u.prev = m.prev /\ u.reusable = m.reusable
           /\ u.pool = m.pool /\ u.armed = m.armed /\ u.handler = m.handler /\ u.close = m.close
<1> DEFINE u == GiveBack(m, c)
<1> DEFINE f == <<c>> \o m.free
           d == [m.fd EXCEPT ![c] = FALSE]
           v == [m EXCEPT !.free = f]
           w == [v EXCEPT !.no = m.no + 1]
<1>0. f \in Seq(Conns) /\ d \in [Conns -> BOOLEAN] /\ m.no + 1 \in Nat
  BY PushFacts DEF Memory
<1>u. u = [w EXCEPT !.fd = d]
  BY DEF GiveBack, Memory
<1> HIDE DEF u, f, d
<1>v. /\ v \in Memory /\ v.free = f /\ v.no = m.no /\ v.fd = m.fd
      /\ v.next = m.next /\ v.prev = m.prev /\ v.reusable = m.reusable
      /\ v.pool = m.pool /\ v.armed = m.armed /\ v.handler = m.handler /\ v.close = m.close
  BY <1>0 DEF Memory
<1> HIDE DEF v
<1>w. /\ w \in Memory /\ w.free = f /\ w.no = m.no + 1 /\ w.fd = m.fd
      /\ w.next = m.next /\ w.prev = m.prev /\ w.reusable = m.reusable
      /\ w.pool = m.pool /\ w.armed = m.armed /\ w.handler = m.handler /\ w.close = m.close
  BY <1>0, <1>v DEF Memory
<1> HIDE DEF w
<1>1. /\ u \in Memory /\ u.free = f /\ u.no = m.no + 1 /\ u.fd = d
      /\ u.next = m.next /\ u.prev = m.prev /\ u.reusable = m.reusable
      /\ u.pool = m.pool /\ u.armed = m.armed /\ u.handler = m.handler /\ u.close = m.close
  BY <1>0, <1>u, <1>w DEF Memory
<1>2. Others(m, u, c) /\ ~u.fd[c]
  BY <1>1 DEF Others, Memory, d
<1> QED BY <1>1, <1>2 DEF u, f

\* What a close, whichever function does it, leaves of connection c.
Closed(m, u, c) ==
    /\ u \in Memory /\ Followed(u) /\ Others(m, u, c)
    /\ u.free = <<c>> \o m.free /\ u.no = m.no + 1
    /\ ~u.fd[c] /\ ~u.pool[c] /\ ~u.armed[c]

\* pgrest_http_conn_close of an open connection gives back everything, and takes
\* it off the list if it is marked.
LEMMA HttpCloseFacts ==
    ASSUME NEW m \in Memory, Followed(m), NEW c \in Conns, m.fd[c]
    PROVE  LET u == HttpClose(m, c) IN
           /\ Closed(m, u, c)
           /\ ~u.reusable[c]
           /\ \A L \in SUBSET Conns :
                 Ring(m, L) /\ m.reusable[c] = (c \in L) => Ring(u, L \ {c})
<1> DEFINE n == [m EXCEPT !.armed[c] = FALSE]
           r == Reusable(n, c, FALSE)
           g == GiveBack(r, c)
           u == [g EXCEPT !.pool[c] = FALSE]
<1>u. HttpClose(m, c) = u
  BY DEF HttpClose, ConnClose
<1>1. /\ n \in Memory /\ n.armed = [m.armed EXCEPT ![c] = FALSE]
      /\ n.free = m.free /\ n.no = m.no /\ n.next = m.next /\ n.prev = m.prev
      /\ n.fd = m.fd /\ n.reusable = m.reusable /\ n.close = m.close
      /\ n.handler = m.handler /\ n.pool = m.pool
  BY DEF Memory
<1> HIDE DEF n
<1>2. Followed(n) /\ ~n.armed[c] /\ Others(m, n, c)
  BY <1>1 DEF Followed, Others, Memory
<1>3. \A L \in SUBSET Conns : Ring(m, L) => Ring(n, L)
  BY <1>1, RingFrame
<1>4. /\ r \in Memory /\ Followed(r) /\ OnlyLinks(n, r)
      /\ r.reusable = [n.reusable EXCEPT ![c] = FALSE]
      /\ \A L \in SUBSET Conns : Ring(n, L) /\ n.reusable[c] = (c \in L) => Ring(r, L \ {c})
  BY <1>1, <1>2, ReusableFacts
<1> HIDE DEF r
<1>5. Others(n, r, c) /\ ~r.reusable[c]
  BY <1>1, <1>4 DEF Others, OnlyLinks, Memory
<1>6. /\ g \in Memory /\ Others(r, g, c)
      /\ g.free = <<c>> \o r.free /\ g.no = r.no + 1 /\ ~g.fd[c]
      /\ g.next = r.next /\ g.prev = r.prev /\ g.reusable = r.reusable
      /\ g.pool = r.pool /\ g.armed = r.armed /\ g.handler = r.handler /\ g.close = r.close
  BY <1>4, GiveBackFacts
<1> HIDE DEF g
<1>7. /\ u \in Memory /\ u.pool = [g.pool EXCEPT ![c] = FALSE]
      /\ u.free = g.free /\ u.no = g.no /\ u.next = g.next /\ u.prev = g.prev
      /\ u.fd = g.fd /\ u.reusable = g.reusable /\ u.close = g.close
      /\ u.handler = g.handler /\ u.armed = g.armed
  BY <1>6 DEF Memory
<1> HIDE DEF u
<1>8. Others(g, u, c) /\ ~u.pool[c] /\ ~u.armed[c] /\ ~u.fd[c] /\ ~u.reusable[c]
  BY <1>2, <1>4, <1>5, <1>6, <1>7 DEF Others, OnlyLinks, Memory
<1>9. Others(m, u, c) /\ u.free = <<c>> \o m.free /\ u.no = m.no + 1 /\ Followed(u)
  BY <1>1, <1>2, <1>4, <1>5, <1>6, <1>7, <1>8 DEF Others, OnlyLinks, Followed
<1>10. ASSUME NEW L \in SUBSET Conns, Ring(m, L), m.reusable[c] = (c \in L)
       PROVE  Ring(u, L \ {c})
  <2>1. Ring(r, L \ {c})
    BY <1>1, <1>3, <1>4, <1>10
  <2> QED BY <1>6, <1>7, <2>1, RingFrame
<1> QED BY <1>u, <1>7, <1>8, <1>9, <1>10 DEF Closed

\* pgrest_acceptor_close_conn of a connection without a pending event.
LEMMA AcceptorCloseFacts ==
    ASSUME NEW m \in Memory, Followed(m), NEW c \in Conns, ~m.armed[c]
    PROVE  LET u == AcceptorClose(m, c) IN
           /\ Closed(m, u, c)
           /\ \A L \in SUBSET Conns : Ring(m, L) => Ring(u, L)
<1> DEFINE g == GiveBack(m, c)
           u == [g EXCEPT !.pool[c] = FALSE]
<1>1. /\ g \in Memory /\ Others(m, g, c)
      /\ g.free = <<c>> \o m.free /\ g.no = m.no + 1 /\ ~g.fd[c]
      /\ g.next = m.next /\ g.prev = m.prev /\ g.reusable = m.reusable
      /\ g.pool = m.pool /\ g.armed = m.armed /\ g.handler = m.handler /\ g.close = m.close
  BY GiveBackFacts
<1> HIDE DEF g
<1>2. /\ u \in Memory /\ u.pool = [g.pool EXCEPT ![c] = FALSE]
      /\ u.free = g.free /\ u.no = g.no /\ u.next = g.next /\ u.prev = g.prev
      /\ u.fd = g.fd /\ u.reusable = g.reusable /\ u.close = g.close
      /\ u.handler = g.handler /\ u.armed = g.armed
  BY <1>1 DEF Memory
<1>u. AcceptorClose(m, c) = u
  BY DEF AcceptorClose, g
<1> HIDE DEF u
<1>3. Others(m, u, c) /\ ~u.pool[c] /\ ~u.armed[c] /\ ~u.fd[c] /\ Followed(u)
  BY <1>1, <1>2 DEF Others, Followed, Memory
<1>4. \A L \in SUBSET Conns : Ring(m, L) => Ring(u, L)
  BY <1>1, <1>2, RingFrame
<1> QED BY <1>u, <1>1, <1>2, <1>3, <1>4 DEF Closed

-----------------------------------------------------------------------------
(* The inductive invariant. PoolSound alone is not inductive: only         *)
(* NoneForgotten and the armed events say that a callback runs on an open  *)
(* connection. What the list holds is no part of it, since neither the     *)
(* pool nor the events depend on it.                                       *)

ConnInv == TypeOK /\ PoolSound /\ NoneForgotten

\* The list after a step about connection c, which is where its handler says.
LEMMA DrainStep ==
    ASSUME ListExact, NEW c \in Conns, Others(mem, mem', c),
           mem'.fd[c] \in BOOLEAN, mem'.reusable[c] \in BOOLEAN,
           mem'.fd[c] => mem'.reusable[c] = (mem'.handler[c] = "init"),
           Ring(mem', IF mem'.fd[c] /\ mem'.handler[c] = "init"
                      THEN Idle \cup {c} ELSE Idle \ {c})
    PROVE  ListExact'
<1>1. Idle' = IF mem'.fd[c] /\ mem'.handler[c] = "init" THEN Idle \cup {c} ELSE Idle \ {c}
  BY DEF Idle, Others
<1>2. Ring(mem', Idle')
  BY <1>1
<1>3. ASSUME NEW x \in Conns, mem'.fd[x] PROVE mem'.reusable[x] = (x \in Idle')
  <2>1. CASE x = c
    BY <1>1, <1>3, <2>1
  <2>2. CASE x # c
    <3>1. mem.fd[x] /\ mem'.reusable[x] = mem.reusable[x]
      BY <1>3, <2>2 DEF Others
    <3>2. mem.reusable[x] = (x \in Idle)
      BY <3>1 DEF ListExact
    <3>3. (x \in Idle) = (x \in Idle')
      BY <1>1, <2>2
    <3> QED BY <3>1, <3>2, <3>3
  <2> QED BY <2>1, <2>2
<1> QED BY <1>2, <1>3 DEF ListExact

\* A close, seen from a state where its slot is out of the pool.
LEMMA GivenBack ==
    ASSUME TypeOK, NoneForgotten, failed' \in BOOLEAN, NEW c \in Conns, NEW f \in Seq(Conns), IsInjective(f),
           c \notin ToSet(f),
           \A x \in Conns \ {c} : mem.fd[x] = mem.pool[x] /\ mem.fd[x] = (x \notin ToSet(f)),
           mem'.free = <<c>> \o f, mem'.no = Len(f) + 1,
           mem' \in Memory, Followed(mem'), Others(mem, mem', c),
           ~mem'.fd[c], ~mem'.pool[c], ~mem'.armed[c]
    PROVE  ConnInv' /\ Free' = ToSet(f) \cup {c}
<1>1. Len(mem'.free) = Len(f) + 1 /\ ToSet(mem'.free) = ToSet(f) \cup {c} /\ IsInjective(mem'.free)
  BY PushFacts
<1>2. \A x \in Conns : mem'.fd[x] \in BOOLEAN /\ mem'.pool[x] \in BOOLEAN
  BY DEF Memory
<1>3. PoolSound'
  <2>1. mem'.fd[c] = mem'.pool[c] /\ mem'.fd[c] = (c \notin ToSet(mem'.free))
    BY <1>1, <1>2
  <2>2. ASSUME NEW x \in Conns \ {c}
        PROVE  mem'.fd[x] = mem'.pool[x] /\ mem'.fd[x] = (x \notin ToSet(mem'.free))
    BY <1>1 DEF Others
  <2> QED BY <1>1, <2>1, <2>2 DEF PoolSound, Free
<1>4. NoneForgotten'
  BY DEF NoneForgotten, Others
<1> QED BY <1>1, <1>3, <1>4 DEF ConnInv, TypeOK, Free

\* The close of an open connection.
LEMMA CloseKeeps ==
    ASSUME ConnInv, failed' \in BOOLEAN, NEW c \in Conns, mem.fd[c], Closed(mem, mem', c)
    PROVE  ConnInv' /\ c \notin Free /\ Free' = Free \cup {c}
<1>1. /\ mem.free \in Seq(Conns) /\ IsInjective(mem.free) /\ c \notin ToSet(mem.free)
      /\ TypeOK /\ NoneForgotten /\ mem.no = Len(mem.free)
      /\ \A x \in Conns \ {c} :
            mem.fd[x] = mem.pool[x] /\ mem.fd[x] = (x \notin ToSet(mem.free))
  BY DEF ConnInv, TypeOK, PoolSound, Memory, Free
<1>2. /\ mem' \in Memory /\ Followed(mem') /\ Others(mem, mem', c)
      /\ mem'.free = <<c>> \o mem.free /\ mem'.no = Len(mem.free) + 1
      /\ ~mem'.fd[c] /\ ~mem'.pool[c] /\ ~mem'.armed[c]
  BY <1>1 DEF Closed
<1>3. ConnInv' /\ Free' = ToSet(mem.free) \cup {c}
  BY <1>1, <1>2, GivenBack
<1> QED BY <1>1, <1>3 DEF Free

\* What pgrest_conn_get hands out: a slot without a socket, a pool or a pending
\* event, on no ring of open connections.
LEMMA TakeFacts ==
    ASSUME ConnInv, NEW c \in Conns, Taking(c)
    PROVE  LET g == Get(mem, c) IN
           /\ c \in Free /\ ~mem.fd[c]
           /\ Tail(mem.free) \in Seq(Conns) /\ IsInjective(Tail(mem.free))
           /\ ToSet(Tail(mem.free)) = Free \ {c} /\ Len(Tail(mem.free)) = mem.no - 1
           /\ g \in Memory /\ Followed(g) /\ Others(mem, g, c)
           /\ g.free = Tail(mem.free) /\ g.no = mem.no - 1
           /\ g.fd[c] /\ ~g.reusable[c] /\ ~g.close[c] /\ ~g.pool[c] /\ ~g.armed[c]
           /\ \A L \in SUBSET Conns : c \notin L /\ Ring(mem, L) => Ring(g, L)
<1> DEFINE g == Get(mem, c)
<1>1. /\ mem \in Memory /\ Followed(mem) /\ mem.free # <<>> /\ c = Head(mem.free)
      /\ mem.free \in Seq(Conns) /\ IsInjective(mem.free)
  BY DEF ConnInv, TypeOK, PoolSound, Taking, Memory
<1>2. /\ c \in ToSet(mem.free) /\ Tail(mem.free) \in Seq(Conns) /\ IsInjective(Tail(mem.free))
      /\ ToSet(Tail(mem.free)) = ToSet(mem.free) \ {c}
      /\ Len(Tail(mem.free)) = Len(mem.free) - 1
  BY <1>1, PopFacts
<1>3. mem.no = Len(mem.free) /\ Len(Tail(mem.free)) \in Nat /\ mem.no - 1 \in Nat
  <2>1. mem.no = Len(mem.free)
    BY DEF ConnInv, PoolSound
  <2>2. Len(Tail(mem.free)) \in Nat
    BY <1>2, LenProperties
  <2> QED BY <1>2, <2>1, <2>2
<1>4. ~mem.fd[c] /\ ~mem.pool[c] /\ ~mem.armed[c]
  <2>1. mem.fd[c] = mem.pool[c] /\ mem.fd[c] = (c \notin ToSet(mem.free))
    BY DEF ConnInv, PoolSound, Free
  <2> QED BY <1>2, <2>1 DEF ConnInv, NoneForgotten
<1>5. /\ g \in Memory /\ Followed(g) /\ Others(mem, g, c)
      /\ g.free = Tail(mem.free) /\ g.no = mem.no - 1
      /\ g.fd[c] /\ ~g.reusable[c] /\ ~g.close[c]
      /\ g.pool = mem.pool /\ g.armed = mem.armed
      /\ \A L \in SUBSET Conns : c \notin L /\ Ring(mem, L) => Ring(g, L)
  BY <1>1, <1>3, GetFacts
<1> HIDE DEF g
<1> QED BY <1>2, <1>3, <1>4, <1>5 DEF g, Free

\* The memory of a new connection, before and after it is put on the list.
LEMMA NewFacts ==
    ASSUME ConnInv, NEW c \in Conns, Taking(c)
    PROVE  /\ \A m \in {Accepted(c), Reused(c)} :
                 /\ m \in Memory /\ Followed(m) /\ Others(mem, m, c)
                 /\ m.free = Tail(mem.free) /\ m.no = mem.no - 1
                 /\ m.fd[c] /\ m.pool[c] /\ ~m.close[c] /\ ~m.armed[c]
           /\ ~Accepted(c).reusable[c]
           /\ Reused(c).reusable[c] /\ Reused(c).handler[c] = "init"
           /\ \A L \in SUBSET Conns : c \notin L /\ Ring(mem, L)
                 => Ring(Accepted(c), L) /\ Ring(Reused(c), L \cup {c})
<1> DEFINE g == Get(mem, c)
           a == [g EXCEPT !.pool[c] = TRUE]
           h == [a EXCEPT !.handler[c] = "init"]
           r == Reusable(h, c, TRUE)
<1>d. Accepted(c) = a /\ Reused(c) = r
  BY DEF Accepted, Reused
<1>1. /\ g \in Memory /\ Followed(g) /\ Others(mem, g, c)
      /\ g.free = Tail(mem.free) /\ g.no = mem.no - 1
      /\ g.fd[c] /\ ~g.reusable[c] /\ ~g.close[c] /\ ~g.pool[c] /\ ~g.armed[c]
      /\ \A L \in SUBSET Conns : c \notin L /\ Ring(mem, L) => Ring(g, L)
  BY TakeFacts
<1> HIDE DEF g
<1>2. /\ a \in Memory /\ a.pool = [g.pool EXCEPT ![c] = TRUE]
      /\ a.free = g.free /\ a.no = g.no /\ a.next = g.next /\ a.prev = g.prev
      /\ a.fd = g.fd /\ a.reusable = g.reusable /\ a.close = g.close
      /\ a.handler = g.handler /\ a.armed = g.armed
  BY <1>1 DEF Memory
<1> HIDE DEF a
<1>3. Others(mem, a, c) /\ a.pool[c] /\ Followed(a)
  BY <1>1, <1>2 DEF Others, Followed, Memory
<1>4. \A L \in SUBSET Conns : Ring(g, L) => Ring(a, L)
  BY <1>2, RingFrame
<1>5. /\ h \in Memory /\ h.handler = [a.handler EXCEPT ![c] = "init"]
      /\ h.free = a.free /\ h.no = a.no /\ h.next = a.next /\ h.prev = a.prev
      /\ h.fd = a.fd /\ h.reusable = a.reusable /\ h.close = a.close
      /\ h.pool = a.pool /\ h.armed = a.armed
  BY <1>2 DEF Memory, Handlers
<1> HIDE DEF h
<1>6. Others(mem, h, c) /\ h.handler[c] = "init" /\ Followed(h)
  BY <1>2, <1>3, <1>5 DEF Others, Followed, Memory
<1>7. \A L \in SUBSET Conns : Ring(a, L) => Ring(h, L)
  BY <1>5, RingFrame
<1>8. /\ r \in Memory /\ Followed(r) /\ OnlyLinks(h, r)
      /\ r.reusable = [h.reusable EXCEPT ![c] = TRUE]
      /\ \A L \in SUBSET Conns : Ring(h, L) /\ h.reusable[c] = (c \in L) => Ring(r, L \cup {c})
  BY <1>5, <1>6, ReusableFacts
<1> HIDE DEF r
<1>9. Others(mem, r, c) /\ r.reusable[c]
  BY <1>5, <1>6, <1>8 DEF Others, OnlyLinks, Memory
<1>10. h.reusable[c] = FALSE
  BY <1>1, <1>2, <1>5 DEF Memory
<1>11. ASSUME NEW L \in SUBSET Conns, c \notin L, Ring(mem, L)
       PROVE  Ring(a, L) /\ Ring(r, L \cup {c})
  <2>1. Ring(a, L) /\ Ring(h, L)
    BY <1>1, <1>4, <1>7, <1>11
  <2>2. h.reusable[c] = (c \in L)
    <3>1. (c \in L) = FALSE
      BY <1>11
    <3> QED BY <1>10, <3>1
  <2> QED BY <1>8, <2>1, <2>2
<1>12. /\ a.free = Tail(mem.free) /\ a.no = mem.no - 1
       /\ a.fd[c] /\ a.pool[c] /\ ~a.close[c] /\ ~a.armed[c] /\ ~a.reusable[c]
  BY <1>1, <1>2, <1>3
<1>13. /\ r.free = Tail(mem.free) /\ r.no = mem.no - 1
       /\ r.fd[c] /\ r.pool[c] /\ ~r.close[c] /\ ~r.armed[c] /\ r.handler[c] = "init"
  BY <1>5, <1>6, <1>8, <1>12 DEF OnlyLinks
<1>14. \A m \in {a, r} :
          /\ m \in Memory /\ Followed(m) /\ Others(mem, m, c)
          /\ m.free = Tail(mem.free) /\ m.no = mem.no - 1
          /\ m.fd[c] /\ m.pool[c] /\ ~m.close[c] /\ ~m.armed[c]
  BY <1>2, <1>3, <1>8, <1>9, <1>12, <1>13
<1> QED BY <1>d, <1>9, <1>11, <1>12, <1>13, <1>14

\* Other connections are the same after two steps about c.
LEMMA OthersTwice ==
    ASSUME NEW m, NEW n, NEW u, NEW c, Others(m, n, c), Others(n, u, c)
    PROVE  Others(m, u, c)
  BY DEF Others

\* Wherever an accept fails, the slot goes back as it came, with what the
\* function that fails has given it by then (acceptor.c:234-276,
\* http_request.c:60-79, 153-170).
LEMMA AcceptFailsKeeps ==
    ASSUME ConnInv, failed' \in BOOLEAN, NEW c \in Conns,
           AcceptNoPool(c) \/ AcceptNoMemory(c) \/ InitNoMemory(c) \/ InitNoEvent(c)
    PROVE  /\ ConnInv' /\ Free' = Free
           /\ Others(mem, mem', c) /\ ~mem'.fd[c]
           /\ ListExact => ListExact'
<1> DEFINE g == Get(mem, c)
           a == Accepted(c)
           r == Reused(c)
           t == Tail(mem.free)
<1>1. Taking(c)
  BY DEF AcceptNoPool, AcceptNoMemory, InitNoMemory, InitNoEvent
<1>2. /\ c \in Free /\ ~mem.fd[c]
      /\ t \in Seq(Conns) /\ IsInjective(t) /\ ToSet(t) = Free \ {c} /\ Len(t) = mem.no - 1
      /\ g \in Memory /\ Followed(g) /\ Others(mem, g, c)
      /\ g.free = t /\ g.no = mem.no - 1 /\ ~g.armed[c]
      /\ \A L \in SUBSET Conns : c \notin L /\ Ring(mem, L) => Ring(g, L)
  BY <1>1, TakeFacts
<1>3. /\ a \in Memory /\ Followed(a) /\ Others(mem, a, c)
      /\ a.free = t /\ a.no = mem.no - 1 /\ a.fd[c] /\ ~a.armed[c] /\ ~a.reusable[c]
      /\ r \in Memory /\ Followed(r) /\ Others(mem, r, c)
      /\ r.free = t /\ r.no = mem.no - 1 /\ r.fd[c] /\ r.reusable[c]
      /\ \A L \in SUBSET Conns : c \notin L /\ Ring(mem, L) => Ring(a, L) /\ Ring(r, L \cup {c})
  BY <1>1, NewFacts
<1>4. mem.no \in Nat /\ mem.no - 1 = Len(t) /\ (mem.no - 1) + 1 = mem.no
  BY <1>2 DEF ConnInv, TypeOK, Memory
<1> HIDE DEF g, a, r, t
<1>5. /\ mem' \in Memory /\ Followed(mem') /\ Others(mem, mem', c)
      /\ mem'.free = <<c>> \o t /\ mem'.no = (mem.no - 1) + 1
      /\ ~mem'.fd[c] /\ ~mem'.pool[c] /\ ~mem'.armed[c]
      /\ \A L \in SUBSET Conns : c \notin L /\ Ring(mem, L) => Ring(mem', L)
  <2>1. CASE AcceptNoPool(c)
    <3>1. mem' = AcceptorClose(g, c)
      BY <2>1 DEF AcceptNoPool, g
    <3>2. Closed(g, mem', c) /\ \A L \in SUBSET Conns : Ring(g, L) => Ring(mem', L)
      BY <1>2, <3>1, AcceptorCloseFacts
    <3>3. Others(mem, mem', c)
      BY <1>2, <3>2, OthersTwice DEF Closed
    <3> QED BY <1>2, <3>2, <3>3 DEF Closed
  <2>2. CASE AcceptNoMemory(c)
    <3>1. mem' = AcceptorClose(a, c)
      BY <2>2 DEF AcceptNoMemory, a
    <3>2. Closed(a, mem', c) /\ \A L \in SUBSET Conns : Ring(a, L) => Ring(mem', L)
      BY <1>3, <3>1, AcceptorCloseFacts
    <3>3. Others(mem, mem', c)
      BY <1>3, <3>2, OthersTwice DEF Closed
    <3> QED BY <1>3, <3>2, <3>3 DEF Closed
  <2>3. CASE InitNoMemory(c)
    <3>1. mem' = HttpClose(a, c)
      BY <2>3 DEF InitNoMemory, a
    <3>2. /\ Closed(a, mem', c)
          /\ \A L \in SUBSET Conns : Ring(a, L) /\ a.reusable[c] = (c \in L) => Ring(mem', L \ {c})
      BY <1>3, <3>1, HttpCloseFacts
    <3>3. Others(mem, mem', c)
      BY <1>3, <3>2, OthersTwice DEF Closed
    <3>4. ASSUME NEW L \in SUBSET Conns, c \notin L, Ring(mem, L) PROVE Ring(mem', L)
      <4>1. a.reusable[c] = (c \in L) /\ L \ {c} = L
        BY <1>3, <3>4 DEF Memory
      <4>2. Ring(a, L)
        BY <1>3, <3>4
      <4>3. Ring(mem', L \ {c})
        BY <3>2, <4>1, <4>2
      <4> QED BY <4>1, <4>3
    <3> QED BY <1>3, <3>2, <3>3, <3>4 DEF Closed
  <2>4. CASE InitNoEvent(c)
    <3>1. mem' = HttpClose(r, c)
      BY <2>4 DEF InitNoEvent, r
    <3>2. /\ Closed(r, mem', c)
          /\ \A L \in SUBSET Conns : Ring(r, L) /\ r.reusable[c] = (c \in L) => Ring(mem', L \ {c})
      BY <1>3, <3>1, HttpCloseFacts
    <3>3. Others(mem, mem', c)
      BY <1>3, <3>2, OthersTwice DEF Closed
    <3>4. ASSUME NEW L \in SUBSET Conns, c \notin L, Ring(mem, L) PROVE Ring(mem', L)
      <4> DEFINE K == L \cup {c}
      <4>1. r.reusable[c] = (c \in K) /\ K \ {c} = L /\ K \in SUBSET Conns
        BY <1>3, <3>4 DEF Memory
      <4>2. Ring(r, K)
        BY <1>3, <3>4
      <4> HIDE DEF K
      <4>3. Ring(mem', K \ {c})
        BY <3>2, <4>1, <4>2
      <4> QED BY <4>1, <4>3
    <3> QED BY <1>3, <3>2, <3>3, <3>4 DEF Closed
  <2> QED BY <2>1, <2>2, <2>3, <2>4
<1>6. ConnInv' /\ Free' = Free
  <2>1. \A x \in Conns \ {c} : mem.fd[x] = mem.pool[x] /\ mem.fd[x] = (x \notin ToSet(t))
    BY <1>2 DEF ConnInv, PoolSound
  <2>2. TypeOK /\ NoneForgotten /\ c \notin ToSet(t)
    BY <1>2 DEF ConnInv
  <2>3. ConnInv' /\ Free' = ToSet(t) \cup {c}
    BY <1>2, <1>4, <1>5, <2>1, <2>2, GivenBack
  <2> QED BY <1>2, <2>3
<1>7. ASSUME ListExact PROVE ListExact'
  <2>1. Idle \in SUBSET Conns /\ c \notin Idle /\ Ring(mem, Idle)
    BY <1>2, <1>7 DEF Idle, ListExact
  <2>2. Ring(mem', Idle \ {c})
    <3>1. Idle \ {c} = Idle
      BY <2>1
    <3> QED BY <1>5, <2>1, <3>1
  <2>3. mem'.fd[c] = FALSE /\ mem'.reusable[c] \in BOOLEAN
    BY <1>5 DEF Memory
  <2> QED BY <1>5, <1>7, <2>2, <2>3, DrainStep
<1> QED BY <1>5, <1>6, <1>7

\* A new connection has the head of the free list, is armed, and can be reused.
LEMMA AcceptInitKeeps ==
    ASSUME ConnInv, failed' \in BOOLEAN, NEW c \in Conns, AcceptInit(c)
    PROVE  /\ ConnInv' /\ c \in Free /\ Free' = Free \ {c}
           /\ Others(mem, mem', c) /\ ~mem'.close[c] /\ ~mem.fd[c]
           /\ ListExact => ListExact'
<1> DEFINE r == Reused(c)
           t == Tail(mem.free)
<1>1. Taking(c) /\ mem' = [r EXCEPT !.armed[c] = TRUE]
  BY DEF AcceptInit
<1>2. /\ c \in Free /\ ~mem.fd[c]
      /\ t \in Seq(Conns) /\ IsInjective(t) /\ ToSet(t) = Free \ {c} /\ Len(t) = mem.no - 1
  BY <1>1, TakeFacts
<1>3. /\ r \in Memory /\ Followed(r) /\ Others(mem, r, c)
      /\ r.free = t /\ r.no = mem.no - 1 /\ r.fd[c] /\ r.pool[c] /\ ~r.close[c]
      /\ r.reusable[c] /\ r.handler[c] = "init"
      /\ \A L \in SUBSET Conns : c \notin L /\ Ring(mem, L) => Ring(r, L \cup {c})
  BY <1>1, NewFacts
<1> HIDE DEF r, t
<1>4. /\ mem' \in Memory /\ mem'.armed = [r.armed EXCEPT ![c] = TRUE]
      /\ mem'.free = r.free /\ mem'.no = r.no /\ mem'.next = r.next /\ mem'.prev = r.prev
      /\ mem'.fd = r.fd /\ mem'.reusable = r.reusable /\ mem'.close = r.close
      /\ mem'.handler = r.handler /\ mem'.pool = r.pool
  BY <1>1, <1>3 DEF Memory
<1>5. Others(mem, mem', c) /\ mem'.armed[c] /\ Followed(mem')
  BY <1>3, <1>4 DEF Others, Followed, Memory
<1>6. Free' = Free \ {c}
  BY <1>2, <1>3, <1>4 DEF Free
<1>7. PoolSound'
  <2>1. mem'.no = Len(mem'.free) /\ IsInjective(mem'.free)
    BY <1>2, <1>3, <1>4
  <2>2. mem'.fd[c] = mem'.pool[c] /\ mem'.fd[c] = (c \notin Free')
    <3>1. mem'.fd[c] = TRUE /\ mem'.pool[c] = TRUE
      BY <1>3, <1>4 DEF Memory
    <3> QED BY <1>6, <3>1
  <2>3. \A x \in Conns \ {c} : mem'.fd[x] = mem'.pool[x] /\ mem'.fd[x] = (x \notin Free')
    BY <1>5, <1>6 DEF Others, ConnInv, PoolSound
  <2> QED BY <2>1, <2>2, <2>3 DEF PoolSound
<1>8. NoneForgotten'
  BY <1>3, <1>4, <1>5 DEF NoneForgotten, ConnInv, Others
<1>9. ASSUME ListExact PROVE ListExact'
  <2>1. Idle \in SUBSET Conns /\ c \notin Idle /\ Ring(mem, Idle)
    BY <1>2, <1>9 DEF Idle, ListExact
  <2>2. Ring(mem', Idle \cup {c})
    BY <1>3, <1>4, <2>1, RingFrame
  <2>3. mem'.fd[c] = TRUE /\ mem'.reusable[c] = TRUE /\ mem'.handler[c] = "init"
    BY <1>3, <1>4 DEF Memory
  <2> QED BY <1>5, <1>9, <2>2, <2>3, DrainStep
<1> QED BY <1>2, <1>3, <1>4, <1>5, <1>6, <1>7, <1>8, <1>9 DEF ConnInv, TypeOK

\* What the callbacks of a connection do to it, and to the list unless event_add()
\* fails for an idle connection.
LEMMA EventKeeps ==
    ASSUME ConnInv, NEW c \in Conns, Event(c)
    PROVE  /\ ConnInv' /\ Others(mem, mem', c) /\ mem.fd[c] /\ mem.armed[c]
           /\ \/ Free' = Free
              \/ c \notin Free /\ Free' = Free \cup {c}
           /\ \/ ~mem'.fd[c]
              \/ mem'.close[c] = mem.close[c]
                 /\ (mem'.handler[c] = mem.handler[c] \/ ~mem.close[c] \/ Fires(c, "header"))
           /\ ListExact => ListExact' \/ failed'
           /\ failed' \in BOOLEAN /\ (failed => failed')
<1>0. failed' \in BOOLEAN /\ (failed => failed') /\ (failed' \/ ~InitAgainFails(c))
  BY DEF Event, InitAgainFails, ConnInv, TypeOK
<1>1. TypeOK /\ PoolSound /\ NoneForgotten /\ mem \in Memory /\ Followed(mem)
  BY DEF ConnInv, TypeOK
<1>2. mem.armed[c] /\ mem.fd[c]
  BY <1>1 DEF Event, InitCloses, InitAgain, InitAgainFails, InitData, InitReads, HeaderData,
              HeaderCloses, LingerCloses, Closes, Fires, NoneForgotten
<1>3. CASE InitCloses(c) \/ HeaderCloses(c) \/ LingerCloses(c)
  <2>1. mem' = HttpClose(mem, c)
    BY <1>3 DEF InitCloses, HeaderCloses, LingerCloses, Closes
  <2>2. /\ Closed(mem, mem', c) /\ ~mem'.reusable[c]
        /\ \A L \in SUBSET Conns :
              Ring(mem, L) /\ mem.reusable[c] = (c \in L) => Ring(mem', L \ {c})
    BY <1>1, <1>2, <2>1, HttpCloseFacts
  <2>3. ConnInv' /\ c \notin Free /\ Free' = Free \cup {c}
    BY <1>0, <1>2, <2>2, CloseKeeps
  <2>4. ASSUME ListExact PROVE ListExact'
    <3>1. Idle \in SUBSET Conns /\ Ring(mem, Idle) /\ mem.reusable[c] = (c \in Idle)
      BY <1>2, <2>4 DEF Idle, ListExact
    <3>2. Ring(mem', Idle \ {c})
      BY <2>2, <3>1
    <3>3. mem'.fd[c] = FALSE /\ mem'.reusable[c] \in BOOLEAN /\ Others(mem, mem', c)
      BY <2>2 DEF Closed, Memory
    <3> QED BY <2>4, <3>2, <3>3, DrainStep
  <2> QED BY <1>0, <1>2, <2>2, <2>3, <2>4 DEF Closed
<1>4. CASE InitAgain(c)
  <2>1. mem' = Reusable(mem, c, TRUE) /\ mem.handler[c] = "init"
    BY <1>4 DEF InitAgain, InitReads, Fires
  <2>2. /\ mem' \in Memory /\ Followed(mem') /\ OnlyLinks(mem, mem')
        /\ mem'.reusable = [mem.reusable EXCEPT ![c] = TRUE]
        /\ \A L \in SUBSET Conns :
              Ring(mem, L) /\ mem.reusable[c] = (c \in L) => Ring(mem', L \cup {c})
    BY <1>1, <2>1, ReusableFacts
  <2>3. Others(mem, mem', c)
    BY <1>1, <2>2 DEF Others, OnlyLinks, Memory
  <2>4. ConnInv' /\ Free' = Free
    BY <1>0, <1>1, <2>2 DEF ConnInv, TypeOK, PoolSound, NoneForgotten, Free, OnlyLinks
  <2>5. ASSUME ListExact PROVE ListExact'
    <3>1. Idle \in SUBSET Conns /\ Ring(mem, Idle) /\ mem.reusable[c] = (c \in Idle)
      BY <1>2, <2>5 DEF Idle, ListExact
    <3>2. Ring(mem', Idle \cup {c})
      BY <2>2, <3>1
    <3>3. mem'.fd[c] \in BOOLEAN /\ mem'.reusable[c] = TRUE /\ mem'.handler[c] = "init"
          /\ mem'.fd[c]
      BY <1>1, <1>2, <2>1, <2>2 DEF OnlyLinks, Memory
    <3> QED BY <2>3, <2>5, <3>2, <3>3, DrainStep
  <2> QED BY <1>0, <1>2, <2>2, <2>3, <2>4, <2>5 DEF OnlyLinks
<1>5. CASE InitAgainFails(c)
  <2> DEFINE n == HttpClose(mem, c)
  <2>1. mem' = Reusable(n, c, TRUE) /\ failed'
    BY <1>5 DEF InitAgainFails
  <2>2. Closed(mem, n, c)
    BY <1>1, <1>2, HttpCloseFacts
  <2> HIDE DEF n
  <2>3. /\ mem' \in Memory /\ Followed(mem') /\ OnlyLinks(n, mem')
        /\ mem'.reusable = [n.reusable EXCEPT ![c] = TRUE]
    BY <2>1, <2>2, ReusableFacts DEF Closed
  <2>4. Others(n, mem', c)
    BY <2>2, <2>3 DEF Closed, Others, OnlyLinks, Memory
  <2>5. Closed(mem, mem', c)
    <3>1. Others(mem, mem', c)
      BY <2>2, <2>4, OthersTwice DEF Closed
    <3> QED BY <2>2, <2>3, <3>1 DEF Closed, OnlyLinks
  <2>6. ConnInv' /\ c \notin Free /\ Free' = Free \cup {c}
    BY <1>0, <1>2, <2>5, CloseKeeps
  <2> QED BY <1>0, <1>2, <2>1, <2>5, <2>6 DEF Closed
<1>6. CASE InitData(c) \/ HeaderData(c)
  <2> DEFINE n == IF InitData(c) THEN Reusable(mem, c, FALSE) ELSE mem
  <2>1. /\ n \in Memory /\ Followed(n) /\ OnlyLinks(mem, n) /\ Others(mem, n, c)
        /\ ListExact => Ring(n, Idle \ {c}) /\ ~n.reusable[c]
        /\ ~mem.close[c] \/ Fires(c, "header")
        /\ HandlesHead(n, c)
    <3>1. CASE InitData(c)
      <4>1. n = Reusable(mem, c, FALSE) /\ HandlesHead(n, c) /\ ~mem.close[c]
        BY <3>1 DEF InitData, InitReads
      <4> HIDE DEF n
      <4>2. /\ n \in Memory /\ Followed(n) /\ OnlyLinks(mem, n)
            /\ n.reusable = [mem.reusable EXCEPT ![c] = FALSE]
            /\ \A L \in SUBSET Conns :
                  Ring(mem, L) /\ mem.reusable[c] = (c \in L) => Ring(n, L \ {c})
        BY <1>1, <4>1, ReusableFacts
      <4>3. Others(mem, n, c) /\ ~n.reusable[c]
        BY <1>1, <4>2 DEF Others, OnlyLinks, Memory
      <4>4. ASSUME ListExact PROVE Ring(n, Idle \ {c})
        <5>1. Idle \in SUBSET Conns /\ Ring(mem, Idle) /\ mem.reusable[c] = (c \in Idle)
          BY <1>2, <4>4 DEF Idle, ListExact
        <5> QED BY <4>2, <5>1
      <4> QED BY <4>1, <4>2, <4>3, <4>4
    <3>2. CASE ~InitData(c)
      <4>1. n = mem /\ HandlesHead(mem, c) /\ Fires(c, "header")
        BY <1>6, <3>2 DEF HeaderData
      <4>2. ASSUME ListExact PROVE Ring(mem, Idle \ {c}) /\ ~mem.reusable[c]
        <5>1. c \notin Idle
          BY <4>1 DEF Idle, Fires
        <5>2. Idle \ {c} = Idle
          BY <5>1
        <5> QED BY <1>2, <4>2, <5>1, <5>2 DEF ListExact
      <4> QED BY <1>1, <4>1, <4>2 DEF OnlyLinks, Others
    <3> QED BY <3>1, <3>2
  <2> HIDE DEF n
  <2>2. /\ mem' \in Memory
        /\ mem'.free = n.free /\ mem'.no = n.no /\ mem'.next = n.next /\ mem'.prev = n.prev
        /\ mem'.fd = n.fd /\ mem'.reusable = n.reusable /\ mem'.close = n.close
        /\ mem'.pool = n.pool
        /\ mem'.handler[c] # "init"
        /\ mem'.armed[c] = n.armed[c] \/ mem'.handler[c] = "request"
        /\ \A x \in Conns \ {c} : mem'.armed[x] = n.armed[x] /\ mem'.handler[x] = n.handler[x]
    <3>1. CASE mem' = ReadOn(n, c)
      BY <2>1, <3>1 DEF ReadOn, Memory, Handlers
    <3>2. CASE mem' = Complete(n, c)
      BY <2>1, <3>2 DEF Complete, Memory, Handlers
    <3>3. CASE mem' = Linger(n, c)
      BY <2>1, <3>3 DEF Linger, Memory, Handlers
    <3> QED BY <2>1, <3>1, <3>2, <3>3 DEF HandlesHead
  <2>3. Others(mem, mem', c) /\ Followed(mem')
    BY <2>1, <2>2 DEF Others, Followed
  <2>4. mem'.fd = mem.fd /\ mem'.free = mem.free /\ mem'.no = mem.no /\ mem'.pool = mem.pool
        /\ mem'.close = mem.close
    BY <2>1, <2>2 DEF OnlyLinks
  <2>5. PoolSound' /\ Free' = Free
    BY <1>1, <2>4 DEF PoolSound, Free
  <2>6. NoneForgotten'
    BY <1>1, <1>2, <2>1, <2>2, <2>3, <2>4 DEF NoneForgotten, Others, OnlyLinks
  <2>7. ASSUME ListExact PROVE ListExact'
    <3>1. Idle \in SUBSET Conns
      BY DEF Idle
    <3>2. Ring(mem', Idle \ {c})
      BY <2>1, <2>2, <2>7, <3>1, RingFrame
    <3>3. /\ mem'.fd[c] \in BOOLEAN /\ mem'.reusable[c] \in BOOLEAN
          /\ mem'.reusable[c] = (mem'.handler[c] = "init")
          /\ ~(mem'.handler[c] = "init")
      BY <2>1, <2>2, <2>7 DEF Memory
    <3> QED BY <2>3, <2>7, <3>2, <3>3, DrainStep
  <2> QED BY <1>0, <1>2, <2>1, <2>2, <2>3, <2>4, <2>5, <2>6, <2>7 DEF ConnInv, TypeOK
<1> QED BY <1>3, <1>4, <1>5, <1>6 DEF Event

\* A drain only marks: the tail of the list, if that is a slot.
LEMMA DrainKeeps ==
    ASSUME ConnInv, failed' \in BOOLEAN, AcceptDrain
    PROVE  /\ ConnInv' /\ Free' = Free
           /\ \A x \in Conns : mem'.fd[x] = mem.fd[x] /\ mem'.handler[x] = mem.handler[x]
           /\ \A x \in Conns \ {mem.prev[List]} : mem'.close[x] = mem.close[x]
           /\ ListExact => ListExact' /\ mem.prev[List] \in Idle
<1>1. mem \in Memory /\ Followed(mem) /\ PoolSound /\ NoneForgotten
  BY DEF ConnInv, TypeOK
<1>2. /\ mem' \in Memory /\ mem'.close = [mem.close EXCEPT ![mem.prev[List]] = TRUE]
      /\ mem'.free = mem.free /\ mem'.no = mem.no /\ mem'.next = mem.next
      /\ mem'.prev = mem.prev /\ mem'.fd = mem.fd /\ mem'.reusable = mem.reusable
      /\ mem'.handler = mem.handler /\ mem'.armed = mem.armed /\ mem'.pool = mem.pool
  BY <1>1 DEF AcceptDrain, Memory
<1>3. ConnInv' /\ Free' = Free
  BY <1>1, <1>2 DEF ConnInv, TypeOK, Followed, PoolSound, NoneForgotten, Free
<1>4. \A x \in Conns \ {mem.prev[List]} : mem'.close[x] = mem.close[x]
  BY <1>1, <1>2 DEF Memory
<1>5. ASSUME ListExact PROVE ListExact' /\ mem.prev[List] \in Idle
  <2>1. Ring(mem, Idle) /\ Idle \in SUBSET Conns
    BY <1>5 DEF ListExact, Idle
  <2>2. mem.prev[List] \in Idle \cup {List} /\ mem.next[mem.prev[List]] = List
    BY <2>1 DEF Ring
  <2>3. mem.prev[List] \in Idle
    BY <2>2 DEF AcceptDrain
  <2>4. Idle' = Idle
    BY <1>2 DEF Idle
  <2>5. Ring(mem', Idle)
    BY <1>2, <2>1, RingFrame
  <2> QED BY <1>2, <1>5, <2>3, <2>4, <2>5 DEF ListExact
<1> QED BY <1>2, <1>3, <1>4, <1>5

\* Before the first connection every slot is free and the list is empty.
LEMMA ConnInvInit == ASSUME Init PROVE ConnInv /\ Free = Conns /\ ListExact
<1> DEFINE f == SetToSeq(Conns)
<1>1. f \in Seq(Conns) /\ IsInjective(f) /\ ToSet(f) = Conns
  BY HttpConnAssumption, SetToSeqFacts
<1>2. Len(f) = Cardinality(Conns) /\ Cardinality(Conns) \in Nat
  <2>1. IsFiniteSet(Conns) /\ Cardinality(Conns) \in Nat /\ ExistsBijection(1 .. Cardinality(Conns), Conns)
    BY HttpConnAssumption, FS_CardinalityType
  <2>2. \E g \in [1 .. Cardinality(Conns) -> Conns] : IsInjective(g)
    BY <2>1 DEF ExistsBijection, Bijection, Injection, IsInjective
  <2>3. f \in [1 .. Cardinality(Conns) -> Conns]
    BY <2>2 DEF SetToSeq
  <2> HIDE DEF f
  <2> QED BY <2>1, <2>3
<1> HIDE DEF f
<1>n. /\ \A c \in Conns : c \in Nodes /\ c # List
      /\ List \in Nodes /\ Null \notin Nodes
  BY NodeFacts
<1>3. /\ mem.free = f /\ mem.no = Cardinality(Conns)
      /\ mem.next = [x \in Nodes |-> IF x = List THEN List ELSE Null]
      /\ mem.prev = [x \in Nodes |-> IF x = List THEN List ELSE Null]
      /\ mem.fd = [c \in Conns |-> FALSE] /\ mem.reusable = [c \in Conns |-> FALSE]
      /\ mem.armed = [c \in Conns |-> FALSE] /\ mem.pool = [c \in Conns |-> FALSE]
      /\ failed = FALSE
  BY DEF Init, f
<1>4. mem \in Memory
  BY <1>1, <1>2, <1>n DEF Init, Memory, Handlers, f
<1>5. Followed(mem) /\ PoolSound /\ NoneForgotten /\ Free = Conns
  BY <1>1, <1>2, <1>3, <1>n DEF Followed, PoolSound, NoneForgotten, Free
<1>6. Idle = {}
  BY <1>3 DEF Idle
<1>7. Ring(mem, {})
  BY <1>3, <1>n DEF Ring
<1> QED BY <1>3, <1>4, <1>5, <1>6, <1>7 DEF ConnInv, TypeOK, ListExact

\* Every step keeps the invariant, and the list exact unless event_add() fails for
\* an idle connection; that is not forgotten.
LEMMA ConnInvStep ==
    ASSUME ConnInv, [Next]_vars
    PROVE  /\ ConnInv' /\ (ListExact => ListExact' \/ failed')
           /\ failed => failed'
<1>1. CASE Next
  <2>1. CASE AcceptDrain
    <3>1. failed' = failed /\ failed' \in BOOLEAN
      BY <2>1 DEF AcceptDrain, ConnInv, TypeOK
    <3> QED BY <2>1, <3>1, DrainKeeps
  <2>2. ASSUME NEW c \in Conns, Accept(c)
        PROVE  ConnInv' /\ (ListExact => ListExact') /\ failed' = failed
    <3>1. failed' = failed /\ failed' \in BOOLEAN
      BY <2>2 DEF Accept, ConnInv, TypeOK
    <3> QED BY <2>2, <3>1, AcceptFailsKeeps, AcceptInitKeeps DEF Accept
  <2>3. ASSUME NEW c \in Conns, Event(c)
        PROVE  ConnInv' /\ (ListExact => ListExact' \/ failed') /\ (failed => failed')
    BY <2>3, EventKeeps
  <2> QED BY <1>1, <2>1, <2>2, <2>3 DEF Next
<1>2. CASE UNCHANGED vars
  <2>1. mem' = mem /\ failed' = failed
    BY <1>2 DEF vars
  <2>2. ConnInv'
    BY <2>1 DEF ConnInv, TypeOK, PoolSound, NoneForgotten, Free
  <2>3. ListExact => ListExact'
    BY <2>1 DEF ListExact, Idle
  <2> QED BY <2>1, <2>2, <2>3
<1> QED BY <1>1, <1>2

-----------------------------------------------------------------------------
(* The theorems.                                                           *)

\* The inductive invariant: types, pool and events together, in every
\* behaviour, those included in which the reusable list is broken.
THEOREM ConnInvariant == Spec => []ConnInv
<1>1. Init => ConnInv
  BY ConnInvInit
<1>2. ConnInv /\ [Next]_vars => ConnInv'
  BY ConnInvStep
<1> QED BY <1>1, <1>2, PTL DEF Spec

\* Every field of a slot keeps its type, and no NULL link is followed: not even
\* after http_v1.c:598-602 has left a free slot on the list.
THEOREM ConnTypeCorrect == Spec => []TypeOK
<1>1. ConnInv => TypeOK
  BY DEF ConnInv
<1> QED BY <1>1, ConnInvariant, PTL

\* The free list, its counter, the sockets and the memory pools agree
\* (pg_rest_conn.c, pgrest_conn_get and pgrest_conn_close), wherever an accept
\* fails.
THEOREM ConnPoolSound == Spec => []PoolSound
<1>1. ConnInv => PoolSound
  BY DEF ConnInv
<1> QED BY <1>1, ConnInvariant, PTL

\* Until event_add() fails for an idle connection, the reusable list holds exactly
\* the open connections that wait for their first bytes, each of them once
\* (pgrest_conn_reusable, pgrest_conn_drain), whatever slots pgrest_conn_get takes.
\* After such a failure (http_v1.c:598-602) nothing is claimed of the list.
THEOREM ConnDrainSparesBusy == Spec => []DrainSparesBusy
<1>1. Init => ConnInv /\ DrainSparesBusy
  BY ConnInvInit DEF DrainSparesBusy
<1>2. ConnInv /\ DrainSparesBusy /\ [Next]_vars => (ConnInv /\ DrainSparesBusy)'
  BY ConnInvStep DEF DrainSparesBusy
<1> QED BY <1>1, <1>2, PTL DEF Spec

\* No open connection is left without an event, no free slot with one.
THEOREM ConnNoneForgotten == Spec => []NoneForgotten
<1>1. ConnInv => NoneForgotten
  BY DEF ConnInv
<1> QED BY <1>1, ConnInvariant, PTL

\* The connections implement the abstract pool: a step takes one slot that was
\* free, gives back one that was not, or leaves the pool alone.
THEOREM ConnImplementsSlotPool == Spec => ImplementsSlotPool
<1>1. Init => Abstract!Init
  BY ConnInvInit DEF Abstract!Init
<1>2. ASSUME ConnInv, [Next]_vars PROVE [Abstract!Next]_(Conns \ Free)
  <2>1. Free \subseteq Conns
    BY <1>2 DEF ConnInv, TypeOK, Memory, Free, ToSet
  <2>2. CASE Free' = Free
    BY <2>2
  <2>3. ASSUME NEW c \in Free, Free' = Free \ {c} PROVE Abstract!Take(c)
    BY <2>1, <2>3 DEF Abstract!Take
  <2>4. ASSUME NEW c \in Conns, c \notin Free, Free' = Free \cup {c} PROVE Abstract!Give(c)
    BY <2>1, <2>4 DEF Abstract!Give
  <2>5. CASE Next
    <3>0. failed' \in BOOLEAN
      BY <1>2, ConnInvStep DEF ConnInv, TypeOK
    <3>1. CASE AcceptDrain
      BY <1>2, <2>2, <3>0, <3>1, DrainKeeps
    <3>2. ASSUME NEW c \in Conns, Accept(c) PROVE [Abstract!Next]_(Conns \ Free)
      <4>1. Free' = Free \/ (c \in Free /\ Free' = Free \ {c})
        BY <1>2, <3>0, <3>2, AcceptFailsKeeps, AcceptInitKeeps DEF Accept
      <4> QED BY <2>1, <2>2, <2>3, <4>1 DEF Abstract!Next
    <3>3. ASSUME NEW c \in Conns, Event(c) PROVE [Abstract!Next]_(Conns \ Free)
      <4>1. Free' = Free \/ (c \notin Free /\ Free' = Free \cup {c})
        BY <1>2, <3>3, EventKeeps
      <4> QED BY <2>2, <2>4, <4>1 DEF Abstract!Next
    <3> QED BY <2>5, <3>1, <3>2, <3>3 DEF Next
  <2>6. CASE UNCHANGED vars
    BY <2>2, <2>6 DEF vars, Free
  <2> QED BY <1>2, <2>5, <2>6
<1> QED BY <1>1, <1>2, ConnInvariant, PTL DEF Spec, ImplementsSlotPool, Abstract!Spec

\* What a drain has marked and is still open waits for its first bytes, so no
\* request is under way on it, as long as the list it is taken from is intact.
DrainedWaits ==
    ~failed => \A c \in Conns : mem.close[c] /\ mem.fd[c] => mem.handler[c] = "init"

\* A drained connection starts no request: the only way its handler changes is
\* the close (conn.c:75, http_v1.c:577), until event_add() fails for an idle
\* connection. The safety half of DrainedCloses.
DrainedOnlyCloses ==
    [][~failed' =>
         \A c \in Conns : mem.close[c] /\ mem.fd[c] /\ mem'.handler[c] # mem.handler[c]
            => ~mem'.fd[c]]_vars

\* Until event_add() fails for an idle connection the mark of a drain is obeyed,
\* however the events interleave: pgrest_conn_get clears it for the next
\* owner, pgrest_http_init_handler looks at it before it reads, and no later
\* handler can meet it.
THEOREM ConnDrainedOnlyCloses == Spec => DrainedOnlyCloses
<1> DEFINE Inv == ConnInv /\ DrainSparesBusy /\ DrainedWaits
           Obeyed == \A c \in Conns :
                        mem.close[c] /\ mem.fd[c] /\ mem'.handler[c] # mem.handler[c]
                           => ~mem'.fd[c]
           Waits == \A c \in Conns : mem.close[c] /\ mem.fd[c] => mem.handler[c] = "init"
<1>1. Init => Inv
  <2>1. Init => ConnInv /\ DrainSparesBusy
    BY ConnInvInit DEF DrainSparesBusy
  <2>2. Init => \A c \in Conns : mem.fd[c] = FALSE
    BY DEF Init
  <2> QED BY <2>1, <2>2 DEF DrainedWaits
<1>2. ASSUME Inv, [Next]_vars, ~failed'
      PROVE  Waits' /\ Obeyed
  <2>0. ConnInv /\ mem \in Memory /\ failed' \in BOOLEAN
    BY <1>2, ConnInvStep DEF ConnInv, TypeOK
  <2>w. ListExact /\ Waits
    <3>1. ~failed
      BY <1>2, <2>0, ConnInvStep
    <3> QED BY <1>2, <3>1 DEF DrainSparesBusy, DrainedWaits
  <2>1. CASE UNCHANGED vars
    BY <2>w, <2>1 DEF vars
  <2>2. CASE AcceptDrain
    <3>1. /\ \A x \in Conns : mem'.fd[x] = mem.fd[x] /\ mem'.handler[x] = mem.handler[x]
          /\ \A x \in Conns \ {mem.prev[List]} : mem'.close[x] = mem.close[x]
          /\ mem.prev[List] \in Idle
      BY <2>0, <2>w, <2>2, DrainKeeps
    <3> QED BY <2>w, <3>1 DEF Idle
  <2>3. ASSUME NEW c \in Conns, Accept(c)
        PROVE  Waits' /\ Obeyed
    <3>1. Others(mem, mem', c) /\ (~mem'.fd[c] \/ (~mem'.close[c] /\ ~mem.fd[c]))
      BY <2>0, <2>3, AcceptFailsKeeps, AcceptInitKeeps DEF Accept
    <3>2. ~mem'.fd[c] \/ ~mem.fd[c]
      BY <3>1
    <3> QED BY <2>w, <3>1, <3>2 DEF Others
  <2>4. ASSUME NEW c \in Conns, Event(c)
        PROVE  Waits' /\ Obeyed
    <3>1. /\ Others(mem, mem', c) /\ mem.fd[c]
          /\ \/ ~mem'.fd[c]
             \/ mem'.close[c] = mem.close[c]
                /\ (mem'.handler[c] = mem.handler[c] \/ ~mem.close[c] \/ Fires(c, "header"))
      BY <2>0, <2>4, EventKeeps
    <3>2. Fires(c, "header") => ~mem.close[c]
      BY <2>w, <3>1 DEF Fires
    <3> QED BY <2>w, <3>1, <3>2 DEF Others
  <2> QED BY <1>2, <2>1, <2>2, <2>3, <2>4 DEF Next
<1>3. Inv /\ [Next]_vars => Inv' /\ (~failed' => Obeyed)
  BY <1>2, ConnInvStep DEF DrainedWaits, DrainSparesBusy
<1> QED BY <1>1, <1>3, PTL DEF Spec, DrainedOnlyCloses

=============================================================================
