------------------------------- MODULE MCConf -------------------------------
(* Files of one theme: its directives, how many, and how often each.        *)
EXTENDS Conf

Host(u, p) == [form |-> "inet", host |-> u, port |-> p, closed |-> TRUE]
Bracket(t, p) == [form |-> "inet6", host |-> t, port |-> p, closed |-> TRUE]
Unix(path) == [form |-> "unix", host |-> path, port |-> None, closed |-> TRUE]
Broadcasts == <<"255", ".", "255", ".", "255", ".", "255">>
V4 == <<"127", ".", "0", ".", "0", ".", "1">>
Name == <<"db">>

MCNumber == [n \in {"0", "1", "127", "255", "80", "70000"} |->
    CASE n = "0" -> 0 [] n = "1" -> 1 [] n = "127" -> 127 [] n = "255" -> 255
      [] n = "80" -> 80 [] n = "70000" -> 70000]

MCResolver ==
    Name :> <<[family |-> "inet6", addr |-> <<"a", "0", "a">>], [family |-> "other", addr |-> <<"z">>],
              [family |-> "inet", addr |-> <<10, 0, 0, 1>>]>>
    @@ <<"nowhere">> :> <<>>
    @@ <<"all">> :> <<[family |-> "inet", addr |-> AnyAddr], [family |-> "inet", addr |-> <<10, 0, 0, 1>>]>>
    @@ <<"all6">> :> <<[family |-> "inet6", addr |-> Zeros(Words)]>>
    @@ Broadcasts :> <<>>

Times(once, twice) == [n \in once \cup twice |-> IF n \in twice THEN 2 ELSE 1]
MCThemes == {
    [items |-> 6, strays |-> 1, times |-> Times(
        {"http", "server", "listen", "address", "backlog", "bind", "so_keepalive", "tcp_keepidle",
         "accept_filter", "default_server", "tcp_nodelay", "worker", "worker_processes", "compress"}, {})],
    [items |-> 9, strays |-> 1, times |-> Times(
        {"http", "algorithm"}, {"upstream", "name", "userver", "uaddress"})],
    [items |-> 12, strays |-> 0, times |-> Times(
        {"http", "userver", "server", "listen", "location", "handlers"},
        {"upstream", "name", "postgres", "pg_pass"})],
    [items |-> 14, strays |-> 0, times |-> Times(
        {"http", "upstream", "name", "userver", "server", "listen", "handlers",
         "push_stream", "mode", "subscriber"}, {"location", "path"})],
    [items |-> 3, strays |-> 1, times |-> Times({"http", "location", "path"}, {})]}

\* A listener and a location as in pg_rest.json:97-117, and one location more.
MCSampleThemes == {
    [items |-> 16, strays |-> 0, times |-> Times(
        {"http", "upstream", "name", "userver", "server", "listen", "so_keepalive",
         "tcp_keepidle", "handlers", "push_stream", "mode", "subscriber"},
        {"location", "path"})]}

MCValues ==
    "name" :> {Name, <<>>}
    @@ "algorithm" :> {"sharding", "split"}
    @@ "uaddress" :> {Host(Name, None), Host(V4, 80), Host(<<"nowhere">>, 80)}
    @@ "pg_pass" :> {Host(Name, None), Host(Name, 80), Host(V4, 80), Host(V4, 81), Host(V4, None),
                     Host(V4, 0), Unix(<<"s">>)}
    @@ "address" :> {Host(V4, 80), Host(V4, None), Host(V4, 0), Host(V4, 70000), Host(Star, 80),
                     Host(<<"0", ".", "0", ".", "0", ".", "0">>, 80), Host(<<>>, 80), Host(<<"80">>, None),
                     Host(Name, 80), Host(Name, None), Host(Broadcasts, 80),
                     Host(<<"all">>, 80), Host(<<"all6">>, 80),
                     Bracket(<<":", ":", "a">>, None), Bracket(<<":", ":">>, 80), Bracket(<<"x">>, 80),
                     [Bracket(<<":", ":", "a">>, 80) EXCEPT !.closed = FALSE],
                     Unix(<<>>), Unix(<<"s">>), Unix(<<"s", "s", "s">>)}
    @@ "path" :> {<<>>, <<"/">>, <<"/", "a">>}
    @@ "mode" :> {"sub", "any"}
    @@ "subscriber" :> {"websocket"}
    @@ "backlog" :> {"in", "out"}
    @@ "bind" :> {"true", "false"}
    @@ "so_keepalive" :> {"on", "off"}
    @@ "tcp_keepidle" :> {"in"}
    @@ "accept_filter" :> {"", "filter"}
    @@ [n \in {"tcp_nodelay", "default_server"} |-> {"true"}]
    @@ "worker_processes" :> {"in", "out"}
=============================================================================
