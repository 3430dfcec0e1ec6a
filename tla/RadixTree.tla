----------------------------- MODULE RadixTree -----------------------------
(***************************************************************************)
(* The router of a server (pg_rest_rtree.c): a radix tree of paths with    *)
(* named parameters (":p") and catch-alls ("/*c"). A path is a sequence of *)
(* characters, the handler of a route is the route itself. Routes are      *)
(* added while the file is read, in its order (pgrest_conf_http_path_set), *)
(* and the walker then initializes the handlers (pgrest_http_init). The    *)
(* node fields nothing uses (max_params) are left out. Index strings and   *)
(* child arrays come from palloc but are grown with the C library's        *)
(* realloc and released with pfree: where one allocator gets a block of    *)
(* the other, the process either aborts or goes on. The lookup is in       *)
(* RadixFind.                                                              *)
(***************************************************************************)
EXTENDS Integers, FiniteSets, SequencesExt

CONSTANTS
    Routes,     \* the paths a file may contain
    MaxRoutes,  \* bound: routes of one server
    ParamLimit  \* where pgrest_count_params stops counting; 255 in the code

ASSUME RadixTreeAssumption ==
    /\ Routes \subseteq Seq(STRING)
    /\ \A r \in Routes : r # <<>> /\ r[1] = "/"
    /\ MaxRoutes \in Nat
    /\ ParamLimit \in Nat \ {0}

VARIABLES
    pc,         \* what pgrest_rtree_add, or its caller, is about to do
    tree,       \* the nodes, the root first; a child is an index
    node,       \* the node pgrest_rtree_add has come to
    path,       \* the part of the path that is still to be placed
    left,       \* num_params
    route,      \* full_path
    added,      \* the routes that were accepted, in order
    inited      \* the routes whose handlers the walker initialized

vars == <<pc, tree, node, path, left, route, added, inited>>

None == <<>>
Wildcards == {":", "*"}
Blank == [path |-> <<>>, wild |-> FALSE, type |-> "static", indices |-> <<>>,
          children |-> <<>>, handler |-> None, priority |-> 0,
          cap |-> 0, ixMem |-> "none", chMem |-> "none"]

Init ==
    /\ pc = "idle"
    /\ tree = <<Blank>>
    /\ node = 1 /\ path = <<>> /\ left = 0 /\ route = <<>>
    /\ added = <<>> /\ inited = {}

TypeOK ==
    /\ pc \in {"idle", "add", "insert", "failed", "aborted", "walked"}
    /\ node \in DOMAIN tree
    /\ left \in Int
    /\ Range(added) \subseteq Routes /\ inited \subseteq Routes
    /\ \A n \in DOMAIN tree :
          /\ tree[n].type \in {"static", "root", "param", "catchall"}
          /\ tree[n].handler \in Routes \cup {None}
          /\ Range(tree[n].children) \subseteq 2 .. Len(tree)

-----------------------------------------------------------------------------
(* Helpers on paths and nodes.                                             *)

Drop(s, k) == SubSeq(s, k + 1, Len(s))
Common(s, t) == Max({k \in 0 .. Min({Len(s), Len(t)}) :
                        SubSeq(s, 1, k) = SubSeq(t, 1, k)})
WildCount(p) == Cardinality({k \in DOMAIN p : p[k] \in Wildcards})
pgrest_count_params(p) == IF WildCount(p) >= ParamLimit THEN ParamLimit ELSE WildCount(p)

\* The first wildcard of a path, and the end of the segment that begins there.
FirstWild(p) == Min({k \in DOMAIN p : p[k] \in Wildcards})
SegmentEnd(p, from) == Min({k \in from .. Len(p) : p[k] = "/"} \cup {Len(p) + 1})

\* INIT_CHILDREN
OnlyChild(n, c) == [n EXCEPT !.children = <<c>>, !.cap = 2, !.chMem = "palloc"]

\* Seeded fault: the index characters stay where they are.
RaiseKeepsIndices(t, n, pos) ==
    LET raised == [t EXCEPT ![t[n].children[pos]].priority = @ + 1]
        kids == t[n].children
        rank(k) == raised[kids[k]].priority
        to == 1 + Max({k \in 1 .. pos - 1 : rank(k) >= rank(pos)} \cup {0})
    IN [raised EXCEPT ![n].children = InsertAt(RemoveAt(@, pos), to, @[pos])]

\* pgrest_rtree_child_priority: one more route below the child at pos, which
\* moves in front of the children with fewer, and its index with it.
Raise(t, n, pos) ==
    LET raised == [t EXCEPT ![t[n].children[pos]].priority = @ + 1]
        kids == t[n].children
        rank(k) == raised[kids[k]].priority
        to == 1 + Max({k \in 1 .. pos - 1 : rank(k) >= rank(pos)} \cup {0})
        moved(s) == InsertAt(RemoveAt(s, pos), to, s[pos])
    IN IF to = pos THEN raised
       ELSE [raised EXCEPT ![n].children = moved(@), ![n].indices = moved(@)]

-----------------------------------------------------------------------------
(* pgrest_rtree_add, one action for each branch of its loop.               *)

\* The call: an empty tree is filled at once.
Add(r) ==
    /\ pc = "idle"
    /\ Len(added) < MaxRoutes
    /\ LET empty == tree[1].path = <<>> /\ tree[1].children = <<>>
       IN /\ tree' = [tree EXCEPT ![1].priority = @ + 1,
                                  ![1].type = IF empty THEN "root" ELSE @]
          /\ pc' = IF empty THEN "insert" ELSE "add"
    /\ node' = 1 /\ path' = r /\ left' = pgrest_count_params(r) /\ route' = r
    /\ UNCHANGED <<added, inited>>

AtNode == tree[node]
Shared == Common(path, AtNode.path)
Rest == Drop(path, Shared)
Splitting == pc = "add" /\ Shared < Len(AtNode.path)
Descending == pc = "add" /\ Shared = Len(AtNode.path) /\ Rest # <<>>

\* Seeded fault: the lower half counts the route that is being added.
SplitCountsTwice ==
    /\ Splitting
    /\ LET lower == [AtNode EXCEPT !.path = Drop(@, Shared), !.type = "static",
                                   !.cap = Len(AtNode.children),
                                   !.ixMem = "palloc", !.chMem = "palloc"]
           upper == [OnlyChild(AtNode, Len(tree) + 1) EXCEPT
                       !.path = SubSeq(path, 1, Shared), !.wild = FALSE,
                       !.handler = None, !.ixMem = "palloc",
                       !.indices = <<AtNode.path[Shared + 1]>>]
       IN tree' = Append([tree EXCEPT ![node] = upper], lower)
    /\ UNCHANGED <<pc, node, path, left, route, added, inited>>

\* The node is cut where the paths part; its lower half becomes its only child.
Split ==
    /\ Splitting
    /\ LET lower == [AtNode EXCEPT !.path = Drop(@, Shared), !.type = "static",
                                   !.priority = @ - 1,
                                   !.cap = Len(AtNode.children),
                                   !.ixMem = "palloc", !.chMem = "palloc"]
           upper == [OnlyChild(AtNode, Len(tree) + 1) EXCEPT
                       !.path = SubSeq(path, 1, Shared), !.wild = FALSE,
                       !.handler = None, !.ixMem = "palloc",
                       !.indices = <<AtNode.path[Shared + 1]>>]
       IN tree' = Append([tree EXCEPT ![node] = upper], lower)
    /\ UNCHANGED <<pc, node, path, left, route, added, inited>>

\* The cut hands a string or an array of the C library's heap to pfree.
SplitAborts ==
    /\ Splitting
    /\ AtNode.ixMem = "malloc" \/ AtNode.chMem = "malloc"
    /\ pc' = "aborted"
    /\ UNCHANGED <<tree, node, path, left, route, added, inited>>

\* The path goes on with the very wildcard that is below the node, or with
\* another one, which is refused.
SameWild(w, rest) ==
    /\ IsPrefix(w, rest)
    /\ Len(w) = Len(rest) \/ rest[Len(w) + 1] = "/"

\* Seeded fault: the wildcard that is passed stays counted.
DescendWildUncounted ==
    /\ Descending
    /\ AtNode.wild
    /\ LET child == AtNode.children[1]
       IN /\ tree' = [tree EXCEPT ![child].priority = @ + 1]
          /\ node' = child
          /\ pc' = IF SameWild(tree[child].path, Rest) THEN "add" ELSE "failed"
    /\ path' = Rest
    /\ UNCHANGED <<left, route, added, inited>>

DescendWild ==
    /\ Descending
    /\ AtNode.wild
    /\ LET child == AtNode.children[1]
       IN /\ tree' = [tree EXCEPT ![child].priority = @ + 1]
          /\ node' = child
          /\ pc' = IF SameWild(tree[child].path, Rest) THEN "add" ELSE "failed"
    /\ path' = Rest /\ left' = left - 1
    /\ UNCHANGED <<route, added, inited>>

SlashBelowParam ==
    ~AtNode.wild /\ Rest[1] = "/" /\ Len(AtNode.children) = 1 /\ AtNode.type = "param"
Indexed == {k \in DOMAIN AtNode.indices : AtNode.indices[k] = Rest[1]}

DescendParam ==
    /\ Descending /\ SlashBelowParam
    /\ node' = AtNode.children[1]
    /\ tree' = [tree EXCEPT ![AtNode.children[1]].priority = @ + 1]
    /\ path' = Rest
    /\ UNCHANGED <<pc, left, route, added, inited>>

DescendIndex ==
    /\ Descending /\ ~AtNode.wild /\ ~SlashBelowParam /\ Indexed # {}
    /\ node' = AtNode.children[Min(Indexed)]
    /\ tree' = Raise(tree, node, Min(Indexed))
    /\ path' = Rest
    /\ UNCHANGED <<pc, left, route, added, inited>>

NoWayDown == Descending /\ ~AtNode.wild /\ ~SlashBelowParam /\ Indexed = {}

\* APPEND_STRING and APPEND_CHILD: a child for a character nobody has yet.
Full == Len(AtNode.children) = AtNode.cap
AppendChild ==
    /\ NoWayDown
    /\ Rest[1] \notin Wildcards
    /\ LET new == Len(tree) + 1
           held == IF AtNode.children = <<>> THEN OnlyChild(AtNode, new)
                   ELSE [AtNode EXCEPT !.children = Append(@, new),
                                       !.cap = IF Full THEN 2 * @ ELSE @,
                                       !.chMem = IF Full THEN "malloc" ELSE @]
           grown == [held EXCEPT !.indices = Append(@, Rest[1]), !.ixMem = "malloc"]
       IN /\ tree' = Raise(Append([tree EXCEPT ![node] = grown], Blank),
                           node, Len(grown.indices))
          /\ node' = new
    /\ pc' = "insert" /\ path' = Rest
    /\ UNCHANGED <<left, route, added, inited>>

\* realloc is given a string or an array of a memory context.
AppendAborts ==
    /\ NoWayDown
    /\ Rest[1] \notin Wildcards
    /\ \/ AtNode.ixMem = "palloc"
       \/ AtNode.children # <<>> /\ Full /\ AtNode.chMem = "palloc"
    /\ pc' = "aborted"
    /\ UNCHANGED <<tree, node, path, left, route, added, inited>>

\* A wildcard goes below the node itself.
WildHere ==
    /\ NoWayDown
    /\ Rest[1] \in Wildcards
    /\ pc' = "insert" /\ path' = Rest
    /\ UNCHANGED <<tree, node, left, route, added, inited>>

\* The whole path is on the way from the root: the node takes the handler,
\* unless it has one.
SetLeaf ==
    /\ pc = "add" /\ Shared = Len(AtNode.path) /\ Rest = <<>>
    /\ IF AtNode.handler # None
       THEN pc' = "failed" /\ UNCHANGED <<tree, added>>
       ELSE /\ tree' = [tree EXCEPT ![node].handler = route]
            /\ added' = Append(added, route)
            /\ pc' = "idle"
    /\ UNCHANGED <<node, path, left, route, inited>>

-----------------------------------------------------------------------------
(* pgrest_rtree_child_insert: one action for each wildcard, one for the    *)
(* rest. Wild is the index i of the wildcard, End that of the segment's    *)
(* end; path begins at offset.                                             *)

Inserting == pc = "insert" /\ left > 0
Wild == FirstWild(path)
End == SegmentEnd(path, Wild)

\* One wildcard in the segment, with a name, below a node without children.
WildFits ==
    /\ \A k \in Wild + 1 .. End - 1 : path[k] \notin Wildcards
    /\ AtNode.children = <<>>
    /\ End - Wild >= 2

CatchAllFits ==
    /\ path[Wild] = "*"
    /\ End = Len(path) + 1 /\ left = 1
    /\ ~(AtNode.path # <<>> /\ Last(AtNode.path) = "/")
    /\ Wild > 1 /\ path[Wild - 1] = "/"

\* A node for the parameter and, when the path goes on, one for what follows.
InsertParam ==
    /\ Inserting /\ WildFits /\ path[Wild] = ":"
    /\ LET param == Len(tree) + 1
           follows == End <= Len(path)
           above == [OnlyChild(AtNode, param) EXCEPT
                       !.path = IF Wild > 1 THEN SubSeq(path, 1, Wild - 1) ELSE @,
                       !.wild = TRUE]
           below == [Blank EXCEPT !.type = "param", !.priority = 1]
       IN /\ tree' = IF follows
                     THEN [tree EXCEPT ![node] = above] \o
                          <<[OnlyChild(below, param + 1) EXCEPT
                                !.path = SubSeq(path, Wild, End - 1)],
                            [Blank EXCEPT !.priority = 1]>>
                     ELSE Append([tree EXCEPT ![node] = above], below)
          /\ node' = IF follows THEN param + 1 ELSE param
          /\ path' = IF follows THEN Drop(path, End - 1) ELSE Drop(path, Wild - 1)
    /\ left' = left - 1
    /\ UNCHANGED <<pc, route, added, inited>>

\* Two nodes: one with an empty path, and one that holds the variable.
InsertCatchAll ==
    /\ Inserting /\ WildFits /\ CatchAllFits
    /\ LET first == Len(tree) + 1
           above == [OnlyChild(AtNode, first) EXCEPT
                       !.path = SubSeq(path, 1, Wild - 2),
                       !.indices = <<"/">>, !.ixMem = "palloc"]
           empty == [OnlyChild(Blank, first + 1) EXCEPT
                       !.type = "catchall", !.wild = TRUE, !.priority = 1]
           holder == [Blank EXCEPT !.type = "catchall", !.priority = 1,
                        !.path = Drop(path, Wild - 2), !.handler = route]
       IN tree' = [tree EXCEPT ![node] = above] \o <<empty, holder>>
    /\ added' = Append(added, route)
    /\ pc' = "idle"
    /\ UNCHANGED <<node, path, left, route, inited>>

InsertRefused ==
    /\ Inserting
    /\ ~(WildFits /\ (path[Wild] = ":" \/ CatchAllFits))
    /\ pc' = "failed"
    /\ UNCHANGED <<tree, node, path, left, route, added, inited>>

InsertRest ==
    /\ pc = "insert" /\ left <= 0
    /\ tree' = [tree EXCEPT ![node].path = path, ![node].handler = route]
    /\ added' = Append(added, route)
    /\ pc' = "idle"
    /\ UNCHANGED <<node, path, left, route, inited>>

-----------------------------------------------------------------------------
(* The walker.                                                             *)

\* The nodes below a node: its children, theirs, and so on.
Kids(n) == Range(tree[n].children)
Below(n) ==
    LET within[k \in 0 .. Len(tree)] ==
            IF k = 0 THEN Kids(n)
            ELSE within[k - 1] \cup UNION {Kids(c) : c \in within[k - 1]}
    IN within[Len(tree)]

\* Seeded fault: the walker does not go below the children of the root.
WalkFlat ==
    /\ pc = "idle"
    /\ inited' = {tree[n].handler : n \in Range(tree[1].children)} \ {None}
    /\ pc' = "walked"
    /\ UNCHANGED <<tree, node, path, left, route, added>>

\* pgrest_rtree_walker, called by pgrest_http_init once the file is read: it
\* begins with the children of the root.
Walk ==
    /\ pc = "idle"
    /\ inited' = {tree[n].handler : n \in Below(1)} \ {None}
    /\ pc' = "walked"
    /\ UNCHANGED <<tree, node, path, left, route, added>>

-----------------------------------------------------------------------------

Next ==
    \/ \E r \in Routes : Add(r)
    \/ Split \/ SplitAborts \/ DescendWild \/ DescendParam \/ DescendIndex
    \/ AppendChild \/ AppendAborts \/ WildHere \/ SetLeaf
    \/ InsertParam \/ InsertCatchAll \/ InsertRefused \/ InsertRest
    \/ Walk

Spec == Init /\ [][Next]_vars

-----------------------------------------------------------------------------
(* Properties.                                                             *)

\* The priority of a node is the number of routes at and below it, and the
\* children of a node come in falling order of it, each under the index
\* character its path begins with (a catch-all is found under its slash).
PrioritiesExact ==
    pc = "idle" =>
        \A n \in DOMAIN tree :
            LET kids == tree[n].children
                first(c) == IF tree[c].path = <<>> THEN "/" ELSE tree[c].path[1]
            IN /\ tree[n].priority =
                     Cardinality({m \in Below(n) \cup {n} : tree[m].handler # None})
               /\ \A k \in 1 .. Len(kids) - 1 :
                     tree[kids[k]].priority >= tree[kids[k + 1]].priority
               /\ ~tree[n].wild /\ tree[n].type # "param" =>
                     tree[n].indices = [k \in DOMAIN kids |-> first(kids[k])]

\* pgrest_count_params has counted all the wildcards of the routes of the tree.
\* Beyond its limit it leaves a wildcard to be stored as text.
FullyCounted == \A r \in Range(added) : WildCount(r) <= ParamLimit

\* Through all splits and exchanges the tree stays well formed, and as long as no
\* route had more wildcards than are counted, every node stays in the place its
\* priority gives it (rtree.c:123-155, 287-345; string.c:57-59).
TreeExact == TypeOK /\ (FullyCounted => PrioritiesExact)

\* pgrest_count_params counts all the wildcards of every path of the file.
RoutesFit == \A r \in Routes : WildCount(r) <= ParamLimit

\* The loop of pgrest_rtree_child_insert has no other bound than num_params: it
\* never counts more wildcards than the path still has, whatever the walk down has
\* taken off, and fewer only by those that pgrest_count_params did not count (a
\* parameter node holds its own wildcard already).
WildcardsCounted ==
    pc = "insert" =>
        LET own == IF AtNode.type = "param" THEN 1 ELSE 0
            uncounted == Max({0, WildCount(route) - ParamLimit})
        IN left = Max({0, WildCount(path) - own - uncounted})

\* After pgrest_http_init every accepted route had its handlers initialized,
\* except one that ended at the root node, where the walker does not look.
WalkerVisitsAll ==
    pc = "walked" => inited = Range(added) \ {tree[1].handler}
=============================================================================
