---------------------------- MODULE MCRadixTree ----------------------------
(***************************************************************************)
(* Routes and URLs for TLC: static siblings of several lengths, so that    *)
(* nodes are cut and children change places, parameters at the end and in  *)
(* the middle, two names for one parameter, catch-alls, malformed          *)
(* wildcards, and paths with more wildcards than the run's ParamLimit.     *)
(***************************************************************************)
EXTENDS RadixFind

MCRoutes == {
    <<"/">>,
    <<"/", "a">>,
    <<"/", "a", "b">>,
    <<"/", "a", "c">>,
    <<"/", "b">>,
    <<"/", ":", "p">>,
    <<"/", "a", "/", ":", "p">>,
    <<"/", "a", "/", ":", "p", "/", "b">>,
    <<"/", "a", "/", ":", "q", "/", "*", "c">>,
    <<"/", "a", "/", ":", "p", "p">>,
    <<"/", "b", "/", "*", "c">>,
    <<"/", "*", "c">>,
    <<"/", "b", ":">>,
    <<"/", ":", "p", "*", "c">>,
    <<"/", "a", "/", ":", "p", "/", ":", "q", "/", "*", "c">>,
    <<"/", "a", "/", ":", "p", "/", ":", "q", "/", ":", "r">>,
    <<"/", ":", "p", "/", ":", "q", "/", "*", "c">>,
    <<"/", ":", "p", "/", ":", "q", "/", ":", "r">>
}

MCUrls == {
    <<>>,
    <<"/">>,
    <<"/", "a">>,
    <<"/", "a", "b">>,
    <<"/", "a", "c">>,
    <<"/", "a", "/">>,
    <<"/", "a", "/", "/">>,
    <<"/", "a", "/", "b">>,
    <<"/", "a", "/", "c", "/", "b">>,
    <<"/", "b", "/">>,
    <<"/", "b", "/", "a", "/", "a">>,
    <<"/", "b">>,
    <<"/", "c">>,
    <<"b">>
}
=============================================================================
