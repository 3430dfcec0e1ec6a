----------------------------- MODULE RadixFind -----------------------------
(***************************************************************************)
(* The lookup in the radix tree of a server (pgrest_rtree_find): whatever  *)
(* the order in which the routes were added, it must find the one route    *)
(* that matches a URL, and the values of its parameters. The reference     *)
(* reads the routes one by one.                                            *)
(***************************************************************************)
EXTENDS RadixTree

CONSTANTS
    Urls,       \* the paths that are looked up
    MaxParams   \* the length of the caller's params array

ASSUME RadixFindAssumption == MaxParams \in Nat

-----------------------------------------------------------------------------
(* The lookup.                                                             *)

Miss == [hit |-> FALSE, handler |-> None, params |-> <<>>]

RECURSIVE FindFrom(_, _, _)
\* pgrest_rtree_find at node n, for what is left of the URL. A parameter is
\* its name and its value.
FindFrom(n, u, params) ==
    LET nd == tree[n]
        rest == Drop(u, Len(nd.path))
        under == {k \in DOMAIN nd.indices : nd.indices[k] = rest[1]}
        child == nd.children[1]
        stop == SegmentEnd(rest, 1)
        caught(k, v) == Append(params, <<Drop(tree[child].path, k), v>>)
        taken == caught(1, SubSeq(rest, 1, stop - 1))
    IN CASE u = nd.path -> [hit |-> TRUE, handler |-> nd.handler, params |-> params]
         [] u # nd.path /\ ~IsPrefix(nd.path, u) -> Miss
         [] u # nd.path /\ IsPrefix(nd.path, u) /\ ~nd.wild ->
              IF under = {} THEN Miss
              ELSE FindFrom(nd.children[Min(under)], rest, params)
         [] OTHER ->
              CASE Len(params) = MaxParams -> Miss
                [] Len(params) # MaxParams /\ tree[child].type = "catchall" ->
                     [hit |-> TRUE, handler |-> tree[child].handler,
                      params |-> caught(2, rest)]
                [] Len(params) # MaxParams /\ tree[child].type = "param" ->
                     IF stop > Len(rest)
                     THEN [hit |-> TRUE, handler |-> tree[child].handler,
                           params |-> taken]
                     ELSE IF tree[child].children = <<>> THEN Miss
                          ELSE FindFrom(tree[child].children[1],
                                        Drop(rest, stop - 1), taken)
                [] OTHER -> Miss

pgrest_rtree_find(u) == FindFrom(1, u, <<>>)

-----------------------------------------------------------------------------
(* What it should find.                                                    *)

RECURSIVE Matches(_, _)
\* The routes of the file read one by one: whether r stands for the URL u.
Matches(r, u) ==
    CASE r = <<>> -> u = <<>>
      [] r # <<>> /\ r[1] = ":" ->
           u # <<>> /\ Matches(Drop(r, SegmentEnd(r, 1) - 1),
                               Drop(u, SegmentEnd(u, 1) - 1))
      [] Len(r) > 1 /\ r[1] = "/" /\ r[2] = "*" -> u # <<>> /\ u[1] = "/"
      [] OTHER -> u # <<>> /\ u[1] = r[1] /\ Matches(Tail(r), Tail(u))

RECURSIVE Bindings(_, _)
\* The parameters of a match.
Bindings(r, u) ==
    IF r = <<>> THEN <<>>
    ELSE CASE r[1] = ":" ->
                LET re == SegmentEnd(r, 1)
                    ue == SegmentEnd(u, 1)
                IN << <<SubSeq(r, 2, re - 1), SubSeq(u, 1, ue - 1)>> >>
                     \o Bindings(Drop(r, re - 1), Drop(u, ue - 1))
           [] Len(r) > 1 /\ r[1] = "/" /\ r[2] = "*" -> << <<Drop(r, 2), u>> >>
           [] OTHER -> Bindings(Tail(r), Tail(u))

-----------------------------------------------------------------------------

\* A lookup returns the route that matches the URL, and its parameters, no
\* matter in which order the routes were added, how often nodes were cut and
\* children reordered; a URL no route matches finds no handler. A route with
\* more parameters than the caller has room for is not found. A tree that holds a
\* route with more wildcards than pgrest_count_params counts promises nothing.
FindExact ==
    pc = "idle" /\ FullyCounted =>
        \A u \in Urls :
            LET found == pgrest_rtree_find(u)
                match == {r \in Range(added) : Matches(r, u)}
            IN IF \E r \in match : WildCount(r) <= MaxParams
               THEN /\ match = {found.handler}
                    /\ found.params = Bindings(found.handler, u)
               ELSE found.handler = None
=============================================================================
