-------------------------------- MODULE Conf --------------------------------
(***************************************************************************)
(* The configuration file (pg_rest_conf.c) and what it sets up: listeners, *)
(* upstreams (pg_rest_http_upstream.c), locations and the handlers under   *)
(* src/handler. The file is JSON; it is read key by key, in the order it   *)
(* is written. A directive is found by its name alone, and its handler is  *)
(* given the object that is being read and a pointer to the value: neither *)
(* is checked to be what the handler takes it for. What happens then is    *)
(* undefined, as it is where the code follows a null pointer; reading ends *)
(* there. An error refuses the file. Values that are null or real numbers  *)
(* are skipped, and so are no steps here.                                  *)
(***************************************************************************)
EXTENDS Inet, FiniteSets, FiniteSetsExt

CONSTANTS
    Values,     \* key -> the values it may have
    Themes      \* bounds: a file has the directives of one theme, each as often
                \* as the theme says, and as many of them outside the object
                \* that pg_rest.json has them in

Keys == UNION {DOMAIN t.times : t \in Themes}

VARIABLES
    theme,      \* what the file is written with
    pc,         \* "reading", "refused", "undefined" or "ready"
    stack,      \* the objects being read, the innermost last
    file,       \* what was read so far
    objects,    \* how many structs were begun
    servers,    \* the size of setting->conf_http_servers
    listeners,  \* setting->conf_listeners
    paths,      \* the locations
    handlers,   \* the handlers of all locations
    ups         \* pgrest_http_upstreams; empty before it is allocated

parsed == <<servers, listeners, paths, handlers, ups>>
vars == <<theme, pc, stack, file, objects, parsed>>

-----------------------------------------------------------------------------
(* The table of directives.                                                *)

\* A scalar directive: the struct its setter takes the object for, its setter.
Scalar(of, setter) == [of |-> of, setter |-> setter]

WorkerCommands ==
    [n \in {"worker_processes", "worker_priority", "worker_nofile", "worker_connections"}
        |-> Scalar("setting", "integer_set")]

AcceptCommands ==
    [n \in {"accept_mutex", "multi_accept"} |-> Scalar("setting", "bool_set")]
    @@ "accept_mutex_delay" :> Scalar("setting", "integer_set")
    @@ "temp_buffer_path" :> Scalar("setting", "tbpath_set")

ListenCommands ==
    [n \in {"backlog", "sndbuf", "rcvbuf", "setfib", "fastopen"} |-> Scalar("listener", "integer_set2")]
    @@ [n \in {"tcp_keepidle", "tcp_keepintvl", "tcp_keepcnt"} |-> Scalar("listener", "keepalive_opt_set")]
    @@ [n \in {"ipv6_only", "deferred_accept", "reuseport"} |-> Scalar("listener", "bool_set2")]
    @@ [n \in {"default_server", "http2", "ssl"} |-> Scalar("listener", "bool_set")]
    @@ "bind" :> Scalar("listener", "bind")
    @@ "address" :> Scalar("listener", "address_set")
    @@ "so_keepalive" :> Scalar("listener", "keepalive_set")
    @@ "accept_filter" :> Scalar("listener", "afilter_set")

ServerCommands ==
    [n \in {"ssl_session_timeout", "keepalive_timeout", "client_header_timeout",
            "client_header_buffer_size", "client_max_header_size", "client_max_body_size",
            "client_body_buffer_size", "client_body_timeout", "lingering_time",
            "lingering_timeout"} |-> Scalar("server", "integer_set")]
    @@ [n \in {"ssl_session_cache", "tcp_nopush", "tcp_nodelay", "reset_timedout_connection"}
            |-> Scalar("server", "bool_set")]
    @@ [n \in {"ssl_certificate", "ssl_certificate_key"} |-> Scalar("server", "string_set")]
    @@ "server_name" :> Scalar("server", "server_name_set")
    @@ "lingering_close" :> Scalar("server", "lc_set")

UpstreamCommands ==
    "name" :> Scalar("upstream", "upstream_name")
    @@ "algorithm" :> Scalar("upstream", "upstream_algorithm")
    @@ "uaddress" :> Scalar("userver", "upstream_saddress")

PostgresCommands ==
    "pg_pass" :> Scalar("postgres", "pgpass")
    @@ [n \in {"dbname", "encode"} |-> Scalar("postgres", "string_set")]

PushStreamCommands ==
    "mode" :> Scalar("push_stream", "push_stream_mode")
    @@ "param_name" :> Scalar("push_stream", "string_set")
    @@ "store_message" :> Scalar("push_stream", "bool_set")
    @@ "subscriber" :> Scalar("push_stream", "push_stream_tunnel")

Scalars ==
    WorkerCommands @@ AcceptCommands @@ ListenCommands @@ ServerCommands
    @@ "path" :> Scalar("path", "http_path_set")
    @@ UpstreamCommands @@ PostgresCommands @@ PushStreamCommands

\* The structs an object directive may stand in without being taken for another
\* one. A location only keeps its parent, an upstream does not look at it, and
\* the directives without a handler hand it on.
Structs == {"setting", "server", "listener", "path", "upstream", "userver", "postgres", "push_stream"}
Objects ==
    [n \in {"worker", "accept", "http", "handlers", "location", "upstream"} |-> Structs]
    @@ "server" :> {"setting"}
    @@ "listen" :> {"server"}
    @@ "userver" :> {"upstream"}
    @@ [n \in {"postgres", "push_stream"} |-> {"path"}]

\* The object that pg_rest.json puts a directive in.
Home ==
    [n \in {"worker", "accept", "http"} |-> "root"]
    @@ [n \in DOMAIN WorkerCommands |-> "worker"]
    @@ [n \in {"temp_buffer_path", "upstream", "server"} |-> "http"]
    @@ [n \in DOMAIN AcceptCommands |-> "accept"]
    @@ [n \in {"listen", "location"} \cup DOMAIN ServerCommands |-> "server"]
    @@ [n \in DOMAIN ListenCommands |-> "listen"]
    @@ [n \in {"path", "handlers"} |-> "location"]
    @@ [n \in {"postgres", "push_stream"} |-> "handlers"]
    @@ [n \in {"name", "algorithm", "userver"} |-> "upstream"]
    @@ "uaddress" :> "userver"
    @@ [n \in DOMAIN PostgresCommands |-> "postgres"]
    @@ [n \in DOMAIN PushStreamCommands |-> "push_stream"]

Stray(n, in) == n \notin DOMAIN Home \/ Home[n] # in

-----------------------------------------------------------------------------
(* State.                                                                  *)

\* pgrest_conf_listener_create before any directive: 0.0.0.0:8080.
NewListener(o) ==
    [obj |-> o, family |-> "inet", addr |-> AnyAddr, port |-> 8080, wildcard |-> TRUE,
     set |-> FALSE, bind |-> FALSE, keepalive |-> 0]

NewUpstream ==
    [host |-> <<>>, create |-> FALSE, port |-> 0, noPort |-> FALSE, policy |-> "unknown",
     list |-> FALSE, servers |-> <<>>]

\* An object being read: its key, the struct it fills, its place and its number,
\* the keys read in it, the last one.
Frame(key, kind, at, n) == [key |-> key, kind |-> kind, at |-> at, n |-> n, used |-> {}, last |-> ""]

Top == Last(stack)

\* A line of the file: the struct and the object it stands in, what it is read as.
Item(key, how, val) == [obj |-> Top.n, in |-> Top.key, key |-> key, how |-> how, val |-> val]

Init ==
    /\ theme \in Themes
    /\ pc = "reading"
    /\ stack = <<Frame("root", "setting", 0, 0)>>
    /\ file = <<>>
    /\ objects = 0
    /\ servers = 0
    /\ listeners = <<>>
    /\ paths = <<>>
    /\ handlers = <<>>
    /\ ups = <<>>

TypeOK ==
    /\ pc \in {"reading", "refused", "undefined", "ready"}
    /\ servers \in Nat /\ objects \in Nat
    /\ \A i \in DOMAIN stack : LET f == stack[i] IN
          /\ f.kind = "server" => f.at \in 1 .. servers
          /\ f.kind = "listener" => f.at \in DOMAIN listeners
          /\ f.kind = "path" => f.at \in DOMAIN paths
          /\ f.kind \in {"postgres", "push_stream"} => f.at \in DOMAIN handlers
          /\ f.kind \in {"upstream", "userver"} => f.at \in DOMAIN ups
          /\ f.kind = "userver" => ups[f.at].servers # <<>>
    /\ \A i \in DOMAIN handlers : handlers[i].path \in DOMAIN paths
    /\ \A i \in DOMAIN ups : ups[i].policy \in {"rwsplit", "sharding", "unknown"}

-----------------------------------------------------------------------------
(* Reading an object: pgrest_conf_parse_object and _array.                 *)

\* The next key of the innermost object. JSON keys are unique in an object; an
\* array repeats the object of its key.
Reads(n) ==
    /\ pc = "reading"
    /\ n \in DOMAIN theme.times
    /\ Len(file) < theme.items
    /\ Cardinality({i \in DOMAIN file : file[i].key = n}) < theme.times[n]
    /\ Stray(n, Top.key) => Cardinality({i \in DOMAIN file : Stray(file[i].key, file[i].in)}) < theme.strays
    /\ n \in Top.used => n = Top.last /\ n \in DOMAIN Objects

Used(n) == [stack EXCEPT ![Len(stack)].used = @ \cup {n}, ![Len(stack)].last = n]

\* Reading stops with an error, or where the code does something undefined.
Stops(outcome, n, how, val) ==
    /\ pc' = outcome
    /\ file' = Append(file, Item(n, how, val))
    /\ UNCHANGED <<theme, stack, objects, parsed>>

\* pgrest_conf_cmd_find fails, or the value is an object where a scalar is
\* expected, or the other way round.
Unknown(n) == Reads(n) /\ n \notin DOMAIN Scalars \cup DOMAIN Objects /\ Stops("refused", n, "unknown", "")
WrongShape(n) == Reads(n) /\ n \in DOMAIN Scalars \cup DOMAIN Objects /\ Stops("refused", n, "shape", "")

\* The directive is taken from an object that is another struct, or a scalar of
\* a type the setter does not expect.
Misplaced(n) ==
    /\ Reads(n)
    /\ \/ n \in DOMAIN Objects /\ Top.kind \notin Objects[n]
       \/ n \in DOMAIN Scalars /\ Top.kind # Scalars[n].of
    /\ Stops("undefined", n, "misplaced", "")
Mistyped(n) == Reads(n) /\ n \in DOMAIN Scalars /\ Stops("undefined", n, "mistyped", "")

Begins(n) == n \in DOMAIN Objects /\ Reads(n) /\ Top.kind \in Objects[n]

\* The object is entered; kind and place are those of the struct it fills.
Enters(n, kind, at) ==
    /\ objects' = objects + 1
    /\ stack' = Append(Used(n), Frame(n, kind, at, objects'))
    /\ file' = Append(file, Item(n, "object", objects'))
    /\ UNCHANGED <<theme, pc>>

\* "worker", "accept", "http" and "handlers" have no struct of their own: what
\* they hold goes to the struct around them.
BeginGroup ==
    \E n \in {"worker", "accept", "http", "handlers"} :
        /\ Begins(n)
        /\ stack' = Append(Used(n), Frame(n, Top.kind, Top.at, Top.n))
        /\ file' = Append(file, Item(n, "object", Top.n))
        /\ UNCHANGED <<theme, pc, objects, parsed>>

\* pgrest_conf_http_server_create
BeginServer ==
    /\ Begins("server")
    /\ servers' = servers + 1
    /\ Enters("server", "server", servers')
    /\ UNCHANGED <<listeners, paths, handlers, ups>>

\* pgrest_conf_listener_create
BeginListen ==
    /\ Begins("listen")
    /\ listeners' = Append(listeners, NewListener(objects + 1))
    /\ Enters("listen", "listener", Len(listeners'))
    /\ UNCHANGED <<servers, paths, handlers, ups>>

\* pgrest_conf_http_path_create keeps the parent as its server.
BeginLocation ==
    /\ Begins("location")
    /\ paths' = Append(paths, [server |-> IF Top.kind = "server" THEN Top.at ELSE 0, path |-> <<>>])
    /\ Enters("location", "path", Len(paths'))
    /\ UNCHANGED <<servers, listeners, handlers, ups>>

\* pgrest_http_postgres_conf, pgrest_http_push_stream_conf
BeginHandler ==
    \E n \in {"postgres", "push_stream"} :
        /\ Begins(n)
        /\ handlers' = Append(handlers, [name |-> n, path |-> Top.at, mode |-> "unknown", obj |-> objects + 1])
        /\ Enters(n, n, Len(handlers'))
        /\ UNCHANGED <<servers, listeners, paths, ups>>

\* pgrest_http_upstream_conf: the list of upstreams is made with the first one.
BeginUpstream ==
    /\ Begins("upstream")
    /\ ups' = Append(ups, NewUpstream)
    /\ Enters("upstream", "upstream", Len(ups'))
    /\ UNCHANGED <<servers, listeners, paths, handlers>>

\* pgrest_http_upstream_server_conf: the list of servers is made by "name".
BeginUserver ==
    /\ Begins("userver")
    /\ ups[Top.at].list
    /\ ups' = [ups EXCEPT ![Top.at].servers = Append(@, <<>>)]
    /\ Enters("userver", "userver", Top.at)
    /\ UNCHANGED <<servers, listeners, paths, handlers>>
UserverUnlisted == Begins("userver") /\ ~ups[Top.at].list /\ Stops("undefined", "userver", "object", 0)

-----------------------------------------------------------------------------
(* Reading a scalar: pgrest_conf_parse_type.                               *)

Sets(n) == n \in DOMAIN Scalars /\ Reads(n) /\ Top.kind = Scalars[n].of

\* The value is taken; whatever it sets besides is up to the caller.
Takes(n, v) ==
    /\ stack' = Used(n)
    /\ file' = Append(file, Item(n, "scalar", v))
    /\ UNCHANGED <<theme, pc, objects>>

\* A value that is only stored: a number in the range of the directive ("in"),
\* a flag, a text. Any other value of the right type is refused.
Plainly == {"integer_set", "bool_set", "string_set", "tbpath_set", "server_name_set", "lc_set"}
StorePlain ==
    \E n \in Keys : Sets(n) /\ Scalars[n].setter \in Plainly /\
        \E v \in Values[n] :
            IF v = "out" THEN Stops("refused", n, "scalar", v)
            ELSE Takes(n, v) /\ UNCHANGED parsed

\* pgrest_conf_bind_set: a socket option was given, the address is bound by itself.
Bound(l) == [l EXCEPT !.set = TRUE, !.bind = TRUE]

\* The setters of a socket option, and of "bind". One with the value "off" leaves
\* the bind flag alone; "bind" then stores its value over it. The times of TCP
\* keep-alive switch it on. An accept filter is ignored on this platform.
Option(n, v, l) ==
    LET m == IF v \in {"false", "filter"} THEN l ELSE Bound(l)
    IN  CASE Scalars[n].setter = "bind" -> [m EXCEPT !.bind = v = "true"]
          [] Scalars[n].setter = "keepalive_opt_set" -> [m EXCEPT !.keepalive = 1]
          [] Scalars[n].setter = "keepalive_set" -> [m EXCEPT !.keepalive = IF v = "on" THEN 1 ELSE 2]
          [] OTHER -> m

Socket == {"integer_set2", "keepalive_opt_set", "bool_set2", "bind", "keepalive_set", "afilter_set"}
SetOption ==
    \E n \in Keys : Sets(n) /\ Scalars[n].setter \in Socket /\
        \E v \in Values[n] :
            IF v = "out" THEN Stops("refused", n, "scalar", v)
            ELSE /\ Takes(n, v)
                 /\ listeners' = [listeners EXCEPT ![Top.at] = Option(n, v, @)]
                 /\ UNCHANGED <<servers, paths, handlers, ups>>

\* pgrest_conf_address_set
SetAddress ==
    Sets("address") /\ \E u \in Values["address"] :
        \E r \in {ParseUrl(u, [listen |-> TRUE, noResolve |-> FALSE, default |-> 8080])} :
            IF ~r.ok THEN Stops("refused", "address", "scalar", u)
            ELSE /\ Takes("address", u)
                 /\ listeners' = [listeners EXCEPT ![Top.at] =
                        [@ EXCEPT !.family = r.family, !.addr = r.addr,
                                  !.port = r.port, !.wildcard = r.wildcard]]
                 /\ UNCHANGED <<servers, paths, handlers, ups>>

\* pgrest_conf_http_path_set: the path goes to the tree of its server, which
\* holds it once.
SetPath ==
    Sets("path") /\ \E v \in Values["path"] :
        CASE v = <<>> -> Stops("refused", "path", "scalar", v)
          [] v # <<>> /\ paths[Top.at].server = 0 -> Stops("undefined", "path", "scalar", v)
          [] OTHER ->
                 IF [paths[Top.at] EXCEPT !.path = v] \in ToSet(paths)
                 THEN Stops("refused", "path", "scalar", v)
                 ELSE /\ Takes("path", v)
                      /\ paths' = [paths EXCEPT ![Top.at].path = v]
                      /\ UNCHANGED <<servers, listeners, handlers, ups>>

\* pgrest_http_push_stream_mode; pgrest_http_push_stream_tunnel stores the kind
\* of tunnel, but into the mode, whose values have the same numbers.
ModeOf == [pub |-> "pub", sub |-> "sub", admin |-> "admin"]
          @@ "websocket" :> "pub" @@ "long-polling" :> "sub" @@ "polling" :> "admin"
SetMode ==
    \E n \in {"mode", "subscriber"} \cap Keys : Sets(n) /\ \E v \in Values[n] :
        IF v \notin DOMAIN ModeOf THEN Stops("refused", n, "scalar", v)
        ELSE /\ Takes(n, v)
             /\ handlers' = [handlers EXCEPT ![Top.at].mode = ModeOf[v]]
             /\ UNCHANGED <<servers, listeners, paths, ups>>

\* pgrest_http_upstream_algorithm
SetAlgorithm ==
    Sets("algorithm") /\ \E v \in Values["algorithm"] :
        IF v \notin {"rwsplit", "sharding"} THEN Stops("refused", "algorithm", "scalar", v)
        ELSE /\ Takes("algorithm", v)
             /\ ups' = [ups EXCEPT ![Top.at].policy = v]
             /\ UNCHANGED <<servers, listeners, paths, handlers>>

\* pgrest_http_upstream_saddress: the addresses of the last server of the upstream.
SetUaddress ==
    Sets("uaddress") /\ \E u \in Values["uaddress"] :
        \E r \in {ParseUrl(u, [listen |-> FALSE, noResolve |-> FALSE, default |-> 5432])} :
            IF ~r.ok THEN Stops("refused", "uaddress", "scalar", u)
            ELSE /\ Takes("uaddress", u)
                 /\ ups' = [ups EXCEPT ![Top.at].servers[Len(ups[Top.at].servers)] = r.addrs]
                 /\ UNCHANGED <<servers, listeners, paths, handlers>>

-----------------------------------------------------------------------------
(* pgrest_http_upstream_add                                                *)

\* Declared twice, or declared and given a port.
Clash(e, u, create) ==
    \/ create /\ e.create
    \/ e.create /\ ~u.noPort
    \/ create /\ ~e.noPort

\* What entry e is to the upstream that is asked for: create is the flag of a
\* declaration, u its host and port.
Verdict(e, u, create) ==
    CASE e.host # u.host -> "other"
      [] e.host = u.host /\ Clash(e, u, create) -> "clash"
      [] OTHER -> IF e.port # 0 /\ u.port # 0 /\ e.port # u.port THEN "other" ELSE "found"

\* The first entry that decides, "new" when none does.
Lookup(u, create) ==
    LET decides == {i \in DOMAIN ups : Verdict(ups[i], u, create) # "other"}
    IN  IF decides = {} THEN "new" ELSE Verdict(ups[Min(decides)], u, create)

\* The entry filled in: an address that is known and has a port is its server.
Filled(e, u, create) ==
    LET known == Len(u.addrs) = 1 /\ (u.port # 0 \/ u.family = "unix")
    IN  [e EXCEPT !.host = u.host, !.create = create, !.port = u.port, !.noPort = u.noPort,
                  !.list = @ \/ known, !.servers = IF known THEN <<u.addrs>> ELSE @]

\* Seeded fault: the list of servers is not made.
SetNameUnlisted ==
    Sets("name") /\ \E v \in Values["name"] :
        LET u == [NoUrl EXCEPT !.host = v, !.noPort = TRUE]
        IN  IF Lookup(u, TRUE) = "clash" THEN Stops("refused", "name", "scalar", v)
            ELSE /\ Takes("name", v)
                 /\ ups' = [ups EXCEPT ![Top.at] = Filled(@, u, TRUE)]
                 /\ UNCHANGED <<servers, listeners, paths, handlers>>

\* pgrest_http_upstream_name: the upstream being read is declared. When an entry
\* of its name is found that was no declaration, that entry stays as it is and
\* the upstream has no name. In any case its list of servers is made.
SetName ==
    Sets("name") /\ \E v \in Values["name"] :
        LET u == [NoUrl EXCEPT !.host = v, !.noPort = TRUE]
            look == Lookup(u, TRUE)
        IN  IF look = "clash" THEN Stops("refused", "name", "scalar", v)
            ELSE /\ Takes("name", v)
                 /\ ups' = [ups EXCEPT ![Top.at] =
                        [(IF look = "new" THEN Filled(@, u, TRUE) ELSE @) EXCEPT !.list = TRUE]]
                 /\ UNCHANGED <<servers, listeners, paths, handlers>>

\* pgrest_http_postgres_pgpass: a declared upstream, or an address. What was
\* found or made is not stored in the handler.
SetPgPass ==
    Sets("pg_pass") /\ \E v \in Values["pg_pass"] :
        \E u \in {ParseUrl(v, [listen |-> FALSE, noResolve |-> TRUE, default |-> 0])} :
            CASE ~u.ok -> Stops("refused", "pg_pass", "scalar", v)
              [] u.ok /\ ups = <<>> -> Stops("undefined", "pg_pass", "scalar", v)
              [] OTHER ->
                     IF Lookup(u, FALSE) = "clash" THEN Stops("refused", "pg_pass", "scalar", v)
                     ELSE /\ Takes("pg_pass", v)
                          /\ ups' = IF Lookup(u, FALSE) = "found" THEN ups
                                    ELSE Append(ups, Filled([NewUpstream EXCEPT !.policy = "rwsplit"],
                                                            u, FALSE))
                          /\ UNCHANGED <<servers, listeners, paths, handlers>>

-----------------------------------------------------------------------------
(* The end of an object, and of the file: pgrest_conf_parse then checks the *)
(* numbers of servers and listeners, pgrest_http_init the upstreams and the *)
(* handlers of the locations.                                               *)

EndObject ==
    /\ pc = "reading"
    /\ Len(stack) > 1
    /\ stack' = Front(stack)
    /\ UNCHANGED <<theme, pc, file, objects, parsed>>

\* pgrest_http_upstream_init: the first upstream that is not in order decides.
UpstreamInit ==
    LET wrong(e) == ~e.list \/ e.servers = <<>> \/ (Len(e.servers) > 1 /\ e.policy = "unknown")
        bad == {i \in DOMAIN ups : wrong(ups[i])}
    IN  CASE ups = <<>> -> "undefined"
          [] ups # <<>> /\ bad = {} -> "ready"
          [] OTHER -> IF ups[Min(bad)].list THEN "refused" ELSE "undefined"

\* The path that all others of its server go on from ends at the root of the
\* tree: pgrest_rtree_walker never comes to it.
AtRoot(i) == \A j \in DOMAIN paths :
    paths[j].server = paths[i].server /\ paths[j].path # <<>> => IsPrefix(paths[i].path, paths[j].path)
Walked == {i \in DOMAIN handlers :
              LET p == handlers[i].path IN paths[p].path # <<>> /\ ~AtRoot(p)}

\* pgrest_http_push_stream_init: the mode must be known.
HandlersInit ==
    IF \E i \in Walked : handlers[i].name = "push_stream" /\ handlers[i].mode = "unknown"
    THEN "refused" ELSE "ready"

FileEnd ==
    /\ pc = "reading"
    /\ Len(stack) = 1
    /\ servers' = IF servers = 0 THEN 1 ELSE servers
    /\ listeners' = IF servers = 0 THEN Append(listeners, NewListener(0)) ELSE listeners
    /\ pc' = IF servers' # Len(listeners') THEN "refused"
             ELSE IF UpstreamInit # "ready" THEN UpstreamInit ELSE HandlersInit
    /\ UNCHANGED <<theme, stack, file, objects, paths, handlers, ups>>

Next ==
    \/ \E n \in Keys : Unknown(n) \/ WrongShape(n) \/ Misplaced(n) \/ Mistyped(n)
    \/ BeginGroup \/ BeginServer \/ BeginListen \/ BeginLocation \/ BeginHandler
    \/ BeginUpstream \/ BeginUserver \/ UserverUnlisted
    \/ StorePlain \/ SetOption \/ SetAddress \/ SetPath \/ SetMode
    \/ SetAlgorithm \/ SetUaddress \/ SetName \/ SetPgPass
    \/ EndObject \/ FileEnd

Spec == Init /\ [][Next]_vars

-----------------------------------------------------------------------------
(* Properties.                                                             *)

\* The items with a key, and those of one struct.
Items(keys) == {i \in DOMAIN file : file[i].key \in keys}
InObject(o, keys) == {i \in Items(keys) : file[i].obj = o /\ file[i].how = "scalar"}

\* A pg_pass that can be followed: the name of an upstream declared above, or an
\* address with its port.
Literal(u) == u.form = "unix" \/ (u.port # None /\ (u.form = "inet6" \/ InetAddr(u.host) # <<>>))
Followed(i) ==
    LET u == file[i].val
    IN  \/ Literal(u)
        \/ u.form = "inet" /\ \E j \in Items({"name"}) : j < i /\ file[j].val = u.host

\* The file so far keeps to the shape of pg_rest.json: every directive in its
\* object with a value of its type, the name of an upstream before its servers,
\* and upstreams before the handlers that pass requests on.
Shaped ==
    /\ \A i \in DOMAIN file :
          file[i].how \in {"object", "scalar"} /\ ~Stray(file[i].key, file[i].in)
    /\ \A i \in Items({"userver"}) : \E j \in InObject(file[i].obj, {"name"}) : j < i
    /\ \A i \in Items({"pg_pass"}) : (\E j \in Items({"upstream"}) : j < i) /\ Followed(i)

\* There is an upstream, and each one has a name.
Named ==
    /\ Items({"upstream"}) # {}
    /\ \A i \in Items({"upstream"}) : InObject(file[i].val, {"name"}) # {}

\* A file of the shape of pg_rest.json is read to its end, or refused with an
\* error; it never makes the code take one struct for another or follow a null
\* pointer (pgrest_conf_parse_object, pgrest_http_upstream_init).
DefinedWhenShaped == pc = "undefined" => ~Shaped \/ (Len(stack) = 1 /\ ~Named)

\* While a file is read, every object on the stack leads to a record that
\* exists, and no setter meets an object of another kind (conf.c:949-1030).
ReadSafely == TypeOK /\ DefinedWhenShaped

\* The address of a server of an upstream, as it is written.
AddressesOf(u) ==
    LET port == IF u.port = None THEN 5432 ELSE u.port
        v4 == SelectSeq(Resolver[u.host], LAMBDA a : a.family = "inet")
        v6 == SelectSeq(Resolver[u.host], LAMBDA a : a.family = "inet6")
        ported(s) == [i \in DOMAIN s |-> s[i] @@ [port |-> port]]
    IN  CASE u.form = "unix" -> <<[family |-> "unix", addr |-> u.host, port |-> 0]>>
          [] u.form = "inet6" -> <<[family |-> "inet6", addr |-> CHOOSE a \in Denotes(u.host) : TRUE, port |-> port]>>
          [] OTHER -> IF InetAddr(u.host) # <<>>
                      THEN <<[family |-> "inet", addr |-> InetAddr(u.host), port |-> port]>>
                      ELSE ported(v4) \o ported(v6)

\* Once pg_rest starts, every upstream that is declared has the servers of its
\* object, in order, each with the addresses that were written (none, if the
\* object has no uaddress), IPv4 before IPv6, and a policy when there are
\* several; and every address a handler passes to is an upstream of its own.
UpstreamsAsWritten ==
    pc = "ready" =>
        /\ \A i \in Items({"name"}) : LET o == file[i].obj IN \E e \in ToSet(ups) :
              LET objs == SetToSortSeq({j \in Items({"userver"}) : file[j].obj = o}, <)
                  lines(k) == InObject(file[objs[k]].val, {"uaddress"})
              IN  /\ e.host = file[i].val /\ e.create
                  /\ Len(e.servers) = Len(objs) /\ objs # <<>>
                  /\ Len(objs) > 1 => InObject(o, {"algorithm"}) # {}
                  /\ \A k \in DOMAIN objs :
                        e.servers[k] = IF lines(k) = {} THEN <<>>
                                       ELSE AddressesOf(file[Min(lines(k))].val)
        /\ \A i \in Items({"pg_pass"}) : Literal(file[i].val) =>
              \E e \in ToSet(ups) : e.servers = <<AddressesOf(file[i].val)>>
        /\ \A i, j \in DOMAIN ups : i < j /\ ups[i].host = ups[j].host =>
              ups[i].port # ups[j].port /\ ~ups[i].create /\ ~ups[j].create

SocketKeys == {n \in DOMAIN ListenCommands : ListenCommands[n].setter \in Socket}
Binding(o) == {i \in InObject(o, SocketKeys) : file[i].val \notin {"false", "filter"}}

\* A listener has the address that is written for it, the first one that is found
\* for a name, and is a wildcard exactly when that is the address of all
\* interfaces; without one it is 0.0.0.0:8080. A text without a port is exempt: it
\* is taken for a port whatever it is.
AddressesAsWritten ==
    \A l \in ToSet(listeners) :
        /\ InObject(l.obj, {"address"}) = {} => l.addr = AnyAddr /\ l.port = 8080 /\ l.wildcard
        /\ \A i \in InObject(l.obj, {"address"}) : LET u == file[i].val IN pc = "reading" =>
              CASE u.form = "unix" -> l.family = "unix" /\ l.addr = u.host
                [] u.form = "inet6" -> /\ l.family = "inet6" /\ {l.addr} = Denotes(u.host)
                                       /\ l.port = IF u.port = None THEN 8080 ELSE u.port
                                       /\ l.wildcard <=> l.addr = Zeros(Words)
                [] u.form = "inet" /\ u.port # None ->
                       /\ [family |-> l.family, addr |-> l.addr, port |-> l.port]
                            = IF u.host = Star
                              THEN [family |-> "inet", addr |-> AnyAddr, port |-> u.port]
                              ELSE AddressesOf(u)[1]
                       /\ l.wildcard <=> l.addr = IF l.family = "inet" THEN AnyAddr ELSE Zeros(Words)
                [] OTHER -> TRUE

\* A socket option makes the listener bind by itself, unless "bind": false
\* comes below it; and keep-alive is what the last directive about it says, where
\* no time comes below "so_keepalive": "off".
OptionsLastWins ==
    \A l \in ToSet(listeners) :
        LET offs == {i \in InObject(l.obj, {"bind"}) : file[i].val = "false"}
            alive == InObject(l.obj, {"so_keepalive", "tcp_keepidle", "tcp_keepintvl", "tcp_keepcnt"})
            off == {i \in alive : file[i].val = "off"}
        IN  pc = "reading" =>
                /\ l.set <=> Binding(l.obj) # {}
                /\ l.bind <=> \E i \in Binding(l.obj) : \A j \in offs : j < i
                /\ alive # {} /\ off \subseteq {Max(alive)} =>
                      l.keepalive = IF off = {} THEN 1 ELSE 2

\* Once pg_rest starts, a push_stream handler has the mode that is written for it,
\* where no "subscriber" is written; only where the tree is not walked, as it is
\* not for the handler at the root, may it have none.
ModesKnown ==
    pc = "ready" => \A i \in DOMAIN handlers : handlers[i].name = "push_stream" =>
        LET said == InObject(handlers[i].obj, {"mode"})
            tunnels == InObject(handlers[i].obj, {"subscriber"})
        IN  tunnels = {} =>
                IF said = {} THEN i \notin Walked /\ handlers[i].mode = "unknown"
                ELSE handlers[i].mode = file[Max(said)].val

\* The sample file means what it says where it writes "so_keepalive": "off" with
\* the times of keep-alive below (pg_rest.json:115-116, 181-182), and "mode": "sub"
\* with a "subscriber" below (pg_rest.json:101-102, 166-167): keep-alive is off for
\* the listener, and the handler that is initialized works in the mode written.
SampleAsWritten ==
    pc = "ready" => \A l \in ToSet(listeners), h \in Walked :
        \A off \in InObject(l.obj, {"so_keepalive"}), idle \in InObject(l.obj, {"tcp_keepidle"}),
           mode \in InObject(handlers[h].obj, {"mode"}),
           tunnel \in InObject(handlers[h].obj, {"subscriber"}) :
              off < idle /\ file[off].val = "off" /\ mode < tunnel =>
                  l.keepalive = 2 /\ handlers[h].mode = file[mode].val

\* What pg_rest starts with is what the file says: its upstreams with all their
\* addresses, and the mode of its handlers that have no "subscriber".
StartsAsWritten == UpstreamsAsWritten /\ ModesKnown

\* A listener is what its directives say, in whatever order they come.
ListenersAsWritten == AddressesAsWritten /\ OptionsLastWins

\* All texts of up to n tokens in which groups do not touch.
Texts(n) ==
    {t \in BoundedSeq({":", "a", "q", "e", "b", "x"}, n) :
        \A i \in 1 .. Len(t) - 1 : ":" \in {t[i], t[i + 1]}}

\* pgrest_inet_inet6_addr reads an IPv6 address as RFC 4291 writes it, with these
\* exceptions: it refuses a "::" at the end that stands for a single group, and a
\* dotted quad of all ones; and it accepts a text with a lone colon at its start,
\* or at its end behind a "::" further up, and a dotted quad without some octet.
Inet6Exact ==
    file = <<>> => \A t \in Texts(2 * Words + 1) :
        LET r == Inet6Addr(t)
            n == Len(t)
        IN  IF Denotes(t) # {}
            THEN \/ r.ok /\ Denotes(t) = {r.addr}
                 \/ ~r.ok /\ t[n] = ":" /\ t[n - 1] = ":" /\ Len(Groups(t)) = Words - 1
                 \/ ~r.ok /\ t[n] = "b"
            ELSE r.ok => t[1] = ":" \/ t[n] \in {":", "e"}
=============================================================================
