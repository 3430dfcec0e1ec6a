----------------------------- MODULE ListenConf -----------------------------
(***************************************************************************)
(* From the configuration file to the listening sockets: the servers and   *)
(* their "listen" directives as they are parsed (pg_rest_conf.c), their    *)
(* grouping by port and address and the sockets opened for them            *)
(* (pg_rest_http.c), and the choice of a server for a new connection       *)
(* (pgrest_http_conn_init in pg_rest_http_request.c). A server is its      *)
(* index in setting->conf_http_servers. A port stands for an address       *)
(* family and a port number. Of the options of a directive the model keeps *)
(* those that steer the code: bind (every socket option sets it, together  *)
(* with "set"), default_server, and http2 (ssl is handled like it).        *)
(***************************************************************************)
EXTENDS Naturals, FiniteSets, SequencesExt

CONSTANTS
    Ports,
    DefaultPort,    \* 8080 of the IPv4 family
    Ips,            \* the addresses of the machine
    AnyIp,            \* the wildcard address
    Names,          \* server names
    MaxServers,     \* bound: servers in the file
    MaxListens      \* bound: listen directives of one server

ASSUME ListenConfAssumption ==
    /\ DefaultPort \in Ports
    /\ AnyIp \notin Ips
    /\ MaxServers \in Nat /\ MaxListens \in Nat

VARIABLES
    phase,      \* how far start-up has come
    servers,    \* setting->conf_http_servers: the server_names of each
    listeners,  \* setting->conf_listeners, with the server that holds each
    next,       \* the index of the loop under way, i or p
    ports,      \* pgrest_http_ports
    sockets     \* the sockets to open, in order

vars == <<phase, servers, listeners, next, ports, sockets>>

\* The listen directives of one server.
Listens(owner) == [owner : {owner}, port : Ports, ip : Ips \cup {AnyIp},
                   bind : BOOLEAN, default : BOOLEAN, http2 : BOOLEAN]

Init ==
    /\ phase = "parse"
    /\ servers = <<>>
    /\ listeners = <<>>
    /\ next = 1
    /\ ports = <<>>
    /\ sockets = <<>>

-----------------------------------------------------------------------------
(* The file is read: one object after the other, in the order of the file. *)

\* pgrest_conf_http_server_create, with the names of "server_name".
CreateServer ==
    /\ phase = "parse"
    /\ Len(servers) < MaxServers
    /\ \E names \in SUBSET Names : servers' = Append(servers, names)
    /\ UNCHANGED <<phase, listeners, next, ports, sockets>>

\* pgrest_conf_listener_create and the setters of its directives. A "listen"
\* is an object or an array of objects of the server that is being read.
CreateListener ==
    /\ phase = "parse"
    /\ servers # <<>>
    /\ Cardinality({i \in DOMAIN listeners : listeners[i].owner = Len(servers)})
          < MaxListens
    /\ \E l \in Listens(Len(servers)) : listeners' = Append(listeners, l)
    /\ UNCHANGED <<phase, servers, next, ports, sockets>>

\* The listener pgrest_conf_listener_create makes before any directive is set.
PlainListener ==
    [owner |-> 1, port |-> DefaultPort, ip |-> AnyIp,
     bind |-> FALSE, default |-> FALSE, http2 |-> FALSE]

\* pgrest_conf_default_values: what is parsed when the file has no server.
Defaulted ==
    IF servers # <<>> THEN <<servers, listeners>>
    ELSE << <<{}>>, <<PlainListener>> >>

\* The end of pgrest_conf_parse: defaults, then pgrest_conf_values_check.
ParseEnd ==
    /\ phase = "parse"
    /\ servers' = Defaulted[1]
    /\ listeners' = Defaulted[2]
    /\ phase' = IF Len(servers') = Len(listeners') THEN "add" ELSE "refused"
    /\ UNCHANGED <<next, ports, sockets>>

-----------------------------------------------------------------------------
(* pgrest_http_init, first loop: listener i goes to server i.              *)

\* pgrest_http_add_address: the entry of a new address.
NewAddress(s, o) ==
    [ip |-> o.ip, bind |-> o.bind, default |-> o.default, http2 |-> o.http2,
     server |-> s, servers |-> <<s>>, hash |-> [n \in Names |-> 0]]

\* pgrest_http_add_server finds the server on the address already.
Duplicate(s, a) == s \in ToSet(a.servers)

\* pgrest_http_add_addresses refuses: the server listens on the address already,
\* or its options, or its default server, are given a second time.
Conflict(s, a, o) ==
    \/ Duplicate(s, a)
    \/ o.bind /\ a.bind
    \/ o.default /\ a.default

\* Seeded fault: the options that are overwritten take the default bit along.
MergeForgetsDefault(s, a, o) ==
    [a EXCEPT !.servers = Append(@, s),
              !.bind = @ \/ o.bind,
              !.default = IF o.bind THEN o.default ELSE @ \/ o.default,
              !.server = IF o.default THEN s ELSE @,
              !.http2 = @ \/ o.http2]

\* pgrest_http_add_addresses: one more server on a known address. Options that
\* are set replace those of the entry, the default and http2 bits apart.
Merge(s, a, o) ==
    [a EXCEPT !.servers = Append(@, s),
              !.bind = @ \/ o.bind,
              !.default = @ \/ o.default,
              !.server = IF o.default THEN s ELSE @,
              !.http2 = @ \/ o.http2]

Adding == phase = "add" /\ next <= Len(listeners)
Listener == listeners[next]
SamePort(k) == ports[k].port = Listener.port
SameAddress(k, j) == SamePort(k) /\ ports[k].addrs[j].ip = Listener.ip

\* pgrest_http_add_listen: the first address of a port.
AddPort ==
    /\ Adding
    /\ \A k \in DOMAIN ports : ~SamePort(k)
    /\ ports' = Append(ports, [port |-> Listener.port,
                               addrs |-> <<NewAddress(next, Listener)>>])
    /\ next' = next + 1
    /\ UNCHANGED <<phase, servers, listeners, sockets>>

\* ... another address of a known port.
AddAddress ==
    /\ Adding
    /\ \E k \in DOMAIN ports :
          /\ SamePort(k)
          /\ \A j \in DOMAIN ports[k].addrs : ~SameAddress(k, j)
          /\ ports' = [ports EXCEPT ![k].addrs =
                          Append(@, NewAddress(next, Listener))]
    /\ next' = next + 1
    /\ UNCHANGED <<phase, servers, listeners, sockets>>

\* ... a known address.
AddServer ==
    /\ Adding
    /\ \E k \in DOMAIN ports : \E j \in DOMAIN ports[k].addrs :
          /\ SameAddress(k, j)
          /\ ~Conflict(next, ports[k].addrs[j], Listener)
          /\ ports' = [ports EXCEPT ![k].addrs[j] = Merge(next, @, Listener)]
    /\ next' = next + 1
    /\ UNCHANGED <<phase, servers, listeners, sockets>>

\* ... a known address whose entry contradicts the directive: ERROR.
AddFails ==
    /\ Adding
    /\ \E k \in DOMAIN ports : \E j \in DOMAIN ports[k].addrs :
          SameAddress(k, j) /\ Conflict(next, ports[k].addrs[j], Listener)
    /\ phase' = "failed"
    /\ UNCHANGED <<servers, listeners, next, ports, sockets>>

AddEnd ==
    /\ phase = "add"
    /\ next > Len(listeners)
    /\ phase' = "optimize"
    /\ next' = 1
    /\ UNCHANGED <<servers, listeners, ports, sockets>>

-----------------------------------------------------------------------------
(* pgrest_http_optimize_servers, one port at a time.                       *)

\* pgrest_http_cmp_conf_addrs(a, b) > 0.
Behind(a, b) == a.ip = AnyIp \/ (b.ip # AnyIp /\ ~a.bind /\ b.bind)

\* pgrest_util_sort, an insertion sort: elements behind x move up, from the end
\* of what is sorted down to the first that is not.
Insert(sorted, x) ==
    LET stays == {k \in DOMAIN sorted : ~Behind(sorted[k], x)}
        k == Max(stays \cup {0})
    IN  InsertAt(sorted, k + 1, x)
Sort(addrs) ==
    LET sorted[k \in 0 .. Len(addrs)] ==
          IF k = 0 THEN <<>> ELSE Insert(sorted[k - 1], addrs[k])
    IN  sorted[Len(addrs)]

\* pgrest_http_server_names: with several servers on an address, each name
\* leads to the last of them that has it.
ServerNames(a) ==
    LET named(n) == {k \in DOMAIN a.servers : n \in servers[a.servers[k]]}
        last(n) == IF named(n) = {} THEN 0 ELSE a.servers[Max(named(n))]
    IN  IF Len(a.servers) > 1
        THEN [a EXCEPT !.hash = [n \in Names |-> last(n)]] ELSE a

\* pgrest_http_add_addrs: what a connection is told of its address.
AddrConf(a) ==
    [ip |-> a.ip, server |-> a.server, http2 |-> a.http2, hash |-> a.hash]

\* pgrest_http_init_listener: when the last address is the wildcard (whose bind
\* bit is then set), an address without bind gets no socket of its own (i++).
Covered(addrs) ==
    LET n == Len(addrs)
    IN  {j \in 1 .. n - 1 : addrs[n].ip = AnyIp /\ ~addrs[j].bind}

\* Seeded fault: a socket serves its own address only.
NaddrsOne(addrs, j) == 1

\* ... a socket serves the addresses passed over so far, and its own.
Naddrs(addrs, j) == Cardinality({c \in Covered(addrs) : c < j}) + 1

\* ... the sockets of a port: the entries of one end with its own.
InitListener(port, addrs) ==
    LET socket(j) ==
           [port |-> port, ip |-> addrs[j].ip,
            addrs |-> [m \in 1 .. Naddrs(addrs, j) |->
                          AddrConf(addrs[j - Naddrs(addrs, j) + m])]]
        opened[j \in 0 .. Len(addrs)] ==
           IF j = 0 THEN <<>>
           ELSE IF j \in Covered(addrs) THEN opened[j - 1]
           ELSE Append(opened[j - 1], socket(j))
    IN  opened[Len(addrs)]

OptimizePort ==
    /\ phase = "optimize"
    /\ next <= Len(ports)
    /\ LET sorted == Sort(ports[next].addrs)
           addrs == [j \in DOMAIN sorted |-> ServerNames(sorted[j])]
       IN  /\ ports' = [ports EXCEPT ![next].addrs = addrs]
           /\ sockets' = sockets \o InitListener(ports[next].port, addrs)
    /\ next' = next + 1
    /\ UNCHANGED <<phase, servers, listeners>>

OptimizeEnd ==
    /\ phase = "optimize"
    /\ next > Len(ports)
    /\ phase' = "serving"
    /\ UNCHANGED <<servers, listeners, next, ports, sockets>>

Next ==
    \/ CreateServer
    \/ CreateListener
    \/ ParseEnd
    \/ AddPort
    \/ AddAddress
    \/ AddServer
    \/ AddFails
    \/ AddEnd
    \/ OptimizePort
    \/ OptimizeEnd

Spec == Init /\ [][Next]_vars

-----------------------------------------------------------------------------
(* A connection to address ip of port p.                                   *)

\* The kernel gives it to the socket bound to that address, or else to the one
\* bound to the wildcard.
Reached(p, ip) ==
    LET at(x) == {k \in DOMAIN sockets :
                     sockets[k].port = p /\ sockets[k].ip = x}
    IN  IF at(ip) # {} THEN at(ip) ELSE at(AnyIp)

\* pgrest_http_conn_init: the local address is looked up among all but the last
\* entry of the socket ("the last address is *").
ConnInit(addrs, ip) ==
    LET hits == {k \in 1 .. Len(addrs) - 1 : addrs[k].ip = ip}
    IN  addrs[Min(hits \cup {Len(addrs)})]

-----------------------------------------------------------------------------
(* Properties.                                                             *)

\* The listen directives of the file that concern the address: those that name
\* it, or else those for the wildcard.
Directives(p, ip) ==
    LET for(x) == {i \in DOMAIN listeners :
                      listeners[i].port = p /\ listeners[i].ip = x}
    IN  IF for(ip) # {} THEN for(ip) ELSE for(AnyIp)

\* What they ask for: the server marked default, or else the first in the file;
\* http2 if any of them says so; and, if they are several, for each name the
\* last server that has it.
Asked(ds) ==
    LET defaults == {i \in ds : listeners[i].default}
        first == Min(IF defaults # {} THEN defaults ELSE ds)
        named(n) == {i \in ds : n \in servers[listeners[i].owner]}
    IN  [server |-> listeners[first].owner,
         http2 |-> \E i \in ds : listeners[i].http2,
         hash |-> [n \in Names |->
                     IF Cardinality(ds) > 1 /\ named(n) # {}
                     THEN listeners[Max(named(n))].owner ELSE 0]]

\* A connection to any address of any port reaches at most one socket, reaches
\* one exactly if some directive covers the address, and is then handed to the
\* server, the protocol and the names the file asks for, through the grouping,
\* the sort, the shared wildcard socket and the lookup (http.c:118-510,
\* http_request.c:69-127).
ServedAsConfigured ==
    phase = "serving" =>
       \A p \in Ports, ip \in Ips :
          LET ds == Directives(p, ip)
          IN  /\ Cardinality(Reached(p, ip)) = IF ds = {} THEN 0 ELSE 1
              /\ \A k \in Reached(p, ip) :
                    LET told  == ConnInit(sockets[k].addrs, ip)
                        asked == Asked(ds)
                    IN  /\ told.server = asked.server /\ told.http2 = asked.http2
                        /\ told.hash = asked.hash

\* Two directives for the same address that both set options or both claim to
\* be the default.
Clash(i, j) ==
    /\ listeners[i].port = listeners[j].port
    /\ listeners[i].ip = listeners[j].ip
    /\ \/ listeners[i].bind /\ listeners[j].bind
       \/ listeners[i].default /\ listeners[j].default
Clashes == \E i, j \in DOMAIN listeners : i < j /\ Clash(i, j)

\* Start-up fails exactly when two directives of the file clash, whatever stands
\* between them (http.c:201-231).
RefusedIffContradiction ==
    /\ phase = "failed" => Clashes
    /\ phase \in {"optimize", "serving"} => ~Clashes

=============================================================================
