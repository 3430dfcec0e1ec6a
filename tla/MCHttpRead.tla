------------------------------ MODULE MCHttpRead ------------------------------
(* Pipelines for model checking HttpRead.                                  *)
EXTENDS HttpRead

Get(head) == [head |-> head, body |-> "none", chunks |-> <<>>]
Post(head, n) == [head |-> head, body |-> "length", chunks |-> <<n>>]
Chunked(head, chunks) == [head |-> head, body |-> "chunked", chunks |-> chunks]
Garbled(head, n) == [head |-> head, body |-> "garbled", chunks |-> <<n>>]
Refused(head) == [head |-> head, body |-> "refused", chunks |-> <<>>]

Lines(n) == <<"l", "n">> \o [i \in 1..2 * n |-> IF i % 2 = 1 THEN "a" ELSE "n"] \o <<"n">>

\* Plain requests, bodies that fit behind the head or not, that are empty, too
\* large or chunked, heads that are invalid, too long, refused or of HTTP/2.
MCPipelines ==
    {<<Get(Lines(1)), Get(Lines(1)), Get(Lines(0))>>,
     <<Get(Lines(0)), Post(Lines(0), 4), Get(Lines(0))>>,
     <<Post(Lines(0), 1), Get(Lines(2))>>,
     <<Post(Lines(0), 6), Get(Lines(0))>>,
     <<Post(Lines(1), 10)>>,
     <<Post(Lines(0), 18)>>,
     <<Post(Lines(0), 0), Get(Lines(0))>>,
     <<Chunked(Lines(0), <<>>), Get(Lines(0))>>,
     <<Chunked(Lines(0), <<1>>), Get(Lines(0))>>,
     <<Chunked(Lines(0), <<2, 1>>)>>,
     <<Garbled(Lines(0), 1)>>,
     <<Get(Lines(3))>>,
     <<Get(Lines(8))>>,
     <<Get(<<"l", "n", "x", "n", "n">>)>>,
     <<Refused(Lines(0))>>,
     <<Get(<<"p", "n", "n">>)>>}
===============================================================================
