# Verification of pg_rest

pg_rest is a PostgreSQL extension that turns background workers into HTTP
servers: the postmaster opens the listening sockets, every worker inherits them
and runs a libevent loop that accepts connections and reads HTTP requests. This
directory holds TLA+ models of the parts whose correctness depends on
interleaving, failure or long sequences of calls, TLC configurations that check
them, and TLAPS proofs.

## Inventory

| part | state | operations | interacts with |
|---|---|---|---|
| worker main loop (`pg_rest_worker.c`) | terminate / reconfigure / event_error flags, hooks | dispatch a round, signal handler, PG_CATCH, start-up and shut-down hooks | acceptor, event layer |
| acceptor (`pg_rest_acceptor.c`) | spinlock in shared memory; per worker: `mutex_held`, `disabled`, resume timer | try-lock, unlock, accept handler, timer handler | listeners, connection pool, HTTP |
| listeners (`pg_rest_listener.c`) | per worker: which read events are registered | open, configure, worker_init, pause, resume, close | acceptor, event layer |
| event layer (`pg_rest_event.c`, `.h`) | pending and active events, priorities | add, del, one round of `event_base_loop(EVLOOP_ONCE)` | libevent |
| connection pool (`pg_rest_conn.c`) | array of slots, free list, counter, list of reusable connections | get, free, close, reusable, drain, recv, send | acceptor, HTTP |
| HTTP connection (`pg_rest_http_request.c`, `pg_rest_http_v1.c`) | handler of a connection, its event, its memory pool, its request | conn_init, init, header, entity, keep-alive and lingering handlers, finalize | connection pool, parsers |
| slab allocator (`pg_rest_slab.c`) | page descriptors, free runs, slot lists, bitmaps, LWLock | init, alloc, calloc, free | shared memory |
| IPC channel (`pg_rest_ipc.c`) | a socket pair per worker, handlers by command | init, worker_init, read handler, exit; send_notify | connection pool |
| shared memory (`pg_rest_shm.c`) | list of segments, the size requested | seg_add, init, startup | acceptor, worker statistics, slab |
| servers and listen addresses (`pg_rest_http.c`) | ports, addresses, server names | add_listen, optimize, init_listener, conn_init | listeners, configuration |
| radix tree (`pg_rest_rtree.c`) | nodes with priorities, index strings, wildcards | add (split, descend, insert), find, walker | locations of a server |
| configuration (`pg_rest_conf.c`, handlers under `src/handler`) | stack of JSON objects being read, servers, listeners, locations, handlers | one setter per directive, checks at the end | addresses, upstreams, radix tree |
| upstreams (`pg_rest_http_upstream.c`) | one list of declared upstreams and of addresses passed to | add, init | configuration, addresses |
| addresses (`pg_rest_inet.c`) | | parse_url, inet_addr, inet6_addr, resolve | configuration |
| buffers (`pg_rest_memory.c`) | data, position, a memory block or a mapped file | reserve, consume, append | HTTP reading |
| HTTP/1 parser and chunk decoder (picohttpparser, vendored) | decoder state | parse_request, decode_chunked | HTTP reading |
| entry point (`pg_rest.c`) | | `_PG_init`: the order of all `*_init` | everything that starts |
| arrays, queues, header table, GUCs, strings, jansson | | | |

What is hard: several processes share the listening sockets and one spinlock,
and each keeps a private flag that says what it believes about the lock; event
registration, memory and descriptors can run out at any step; handlers must
leave each connection either closed or waiting for exactly one event; list and
run bookkeeping must survive any order of calls. `PROJECT.json` ("hazards")
lists every such place with the properties that guard it.

What makes each modelled part correct:

* acceptor and workers: at most one worker polls under the mutex; the lock is
  never left behind; flag and registrations agree; nobody sleeps without a
  reason to wake; queued connections are accepted; paused listeners come back;
* connection pool: free list, counter, sockets and memory pools agree; no open
  connection is without an event; a drain picks an idle connection and that one
  closes; a slot has one user at a time;
* reading requests: the bytes a client sends reach the request they belong to,
  once and in order; a handler waits only for what it lacks; memory is bounded;
  a request that has begun is complete, refused or timed out in the end;
* servers and listen addresses: a connection is given the server its address is
  configured with; contradictory directives, and only they, stop start-up;
* configuration: a file of the documented shape is read or refused, never
  misread; listeners, options, upstreams and modes are what the file says;
* radix tree: a lookup finds the route that matches, whatever order the routes
  were added in; every handler is initialized;
* processes: slots, descriptors and pointers to them agree in every worker from
  start-up to exit; a clean stop leaves no socket file; a shut-down ends; the
  last orphan learns that it is alone;
* slab: no two blocks overlap; the free list is the list of maximal gaps; slot
  lists and bitmaps are exact.

## Modules

**Acceptor** models all workers of the server: one action per way through
`pgrest_worker_event_dispatch`, `event_base_loop`, the timer, signal and I/O
callbacks, the accept handler and the exit paths of `pgrest_worker_main`.

| variable | in the code |
|---|---|
| `lock` | `pgrest_acceptor_data->acceptor_mutex`, with its owner (the spinlock itself records none) |
| `backlog` | the kernel's queue of each listening socket |
| `pc`, `mode`, `cur` | where the process is: the branch of `event_dispatch` it polls in, the listener of the running accept handler |
| `held`, `disabled` | `pgrest_acceptor_mutex_held`, `pgrest_acceptor_disabled` |
| `listening`, `act`, `timers` | registered listeners, active events whose callback has not run, pending timers |
| `free` | `pgrest_conn_free_noconn` |
| `quit` | `pgrest_worker_terminate` or `pgrest_worker_event_error` |

Steps of different workers interleave between any two system calls that the
others can observe: try-lock, poll, each `accept()`, release. Within a worker
a callback up to the next `accept()` is one action. The round is libevent's:
active callbacks of the best priority run, then it polls again while callbacks
are left, and deleting an event also deactivates it. `Faults` selects what the
environment may do wrong: ECONNABORTED and other accept errors, EMFILE, out of
memory, failing `event_add`/`event_del`, an `ereport(ERROR)` out of a callback,
SIGTERM. SIGHUP only sets and clears a flag and is left out. What a connection
does after it was accepted is reduced to whether it keeps its slot (`Io`,
`Accept`); HttpConn has the details. `Pinned` counts the slots that are taken
for good, so that the threshold `worker_noconn / 8` is crossed with two slots
left.

**HttpConn** models one worker's connection slots and the HTTP connections on
them; a worker is one thread, so an action is one callback. Its variable `mem`
is the memory of the worker: per slot the socket, `reusable`, `close`, the current
read handler, whether the event is pending, and whether the memory pool lives;
the free list; and the links of the list of reusable connections, `next` and `prev`, with the two operations of
PostgreSQL's `ilist.h` on them (`Delete`, `PushHead`). What a call of
`pg_rest_conn.c` makes of the memory is an operator on it (`Get`, `Reusable`,
`ConnClose`, `HttpClose`, `AcceptorClose`), and the actions are compositions of
those calls in the order of the code: the accept that fails for want of a memory
pool, of memory, in `pgrest_http_conn_init` before or after the connection was put
on the reusable list, or not at all, are actions of their own. Bytes are
abstracted to the outcomes that `pgrest_conn_recv` and the parser give the
handlers. **SlotPool** is its abstract specification: slots are taken and given
back one at a time.

At this commit several paths cannot be reached or cannot work, and the model
takes the following view of them. `req->http_conf` is never assigned; it is
treated as bound to the server's configuration. `req->keepalive` is never set,
so keep-alive is left out. The handlers of the header table are NULL, so no
request has a body and the entity handler is not reached. (HttpRead models both,
with the missing values as inputs.)
`pgrest_http_process_request` and HTTP/2 are empty: a complete request stays
where it is (handler `"request"`), and so does an HTTP/2 connection
(`pg_rest_http_request.c:135-137`), whose start is left out. Deferred accept is left
out. A slot is taken to keep its events, although `pgrest_conn_get` clears the
pointers to them (`pg_rest_conn.c:50`).

When `event_add` fails for an idle connection, the code closes it and then puts its
slot on the reusable list (`InitAgainFails`, `pg_rest_http_v1.c:598-602`);
`pgrest_conn_get` later takes that slot, whatever it is linked to, and clears its
links. The model follows both, and what they make of the list: `TypeOK` says that
even then no NULL link is followed, and `PoolSound`, `NoneForgotten` and
`ImplementsSlotPool` hold all the same. What the reusable list promises,
`DrainSparesBusy` and `DrainedCloses`, is claimed until the first such failure, which
the history variable `failed` records: after it a slot may be cleared while its
neighbours in the list point to it, and the list is a ring no longer.
A failing `event_add` in `pgrest_http_set_lingering_close` (`pg_rest_http_request.c:520-540`)
closes the connection and goes on with the freed request; the model takes it as the
close (`HeaderCloses`).

**Slab** models the allocator with its descriptors: `mem` holds `next`, `prev`,
`slab` of every page and list head, and the type bits of `prev`; `map` the
bitmaps. The three chunk types differ in where the bitmap is kept and in
`Reserved`; the rest of their code is the same and is modelled once. Calls hold
the LWLock throughout and are atomic. **Allocator** is the abstract
specification: a block is handed out only when it overlaps no other.

**ListenConf** models start-up from the configuration to the sockets: servers and
listen directives are read in file order (`CreateServer`, `CreateListener`,
`ParseEnd`), each directive is filed under its port and address (`AddPort`,
`AddAddress`, `AddServer`, `AddFails`: the ways through
`pgrest_http_add_listen`), then each port is sorted and gets its sockets
(`OptimizePort`). `ConnInit` is the lookup `pgrest_http_conn_init` makes for a
new connection, `Reached` the socket the kernel gives it to. A server is its
index; `owner` records the server a directive was written for, which the code
does not keep. The loop of `pgrest_http_init_listener` moves three counters; the
model states what they amount to: `Covered` addresses are passed over, and the
window of a socket is the addresses passed over so far and its own. Nothing at
this commit reads the table of names; it is built and checked all the same. Out
of memory while the arrays grow is left out: it ends start-up. Unix-domain
addresses are left out.

**HttpRead** models the bytes that HttpConn leaves out: one connection, the
init, header, entity and keep-alive handlers, their buffers, and what they use
of the parser and of the decoder of chunked bodies. A byte is its position on
the wire plus a kind (line start, LF, chunk digit, ...), so that what is handed to
`pgrest_http_process_request` can be compared with what was sent. `Send` and `Fin`
are the client, `Fire` and `TimesOut` the event layer; every other action is one
turn of a handler's loop.

| variable | in the code |
|---|---|
| `pc`, `on`, `rev`, `timer` | `conn->rev_handler`, whether it runs, the state of `conn->rev` and its time out |
| `ready`, `parse`, `prev` | `conn->ready`, `hconn->parse`, `hconn->prev_size` |
| `hin`, `rb` | `conn->buffer` with capacity and file, `req->request_body` with its own or the shared buffer |
| `nh`, `stale` | the locals that survive a turn: `num_headers`, and `buf` after the body buffer moved |
| `req` | `request_length`, `content_length_n`, `chunked`, `header_only` |
| `out`, `why` | what the request handler was given, and how the connection ended |

`Reserve` is `pgrest_buffer_reserve`: it moves the data to the front, doubles the
block, or moves it to a temporary file (which may fail). Reading a stale pointer
to freed memory may give either answer; one into unmapped memory ends the
process. The numbers of the configuration are scaled down, their order is kept.
The functions that would set content length, chunked and keep-alive do not exist
at this commit: the requests of `Pipelines` carry those values.

**RadixTree** models `pgrest_rtree_add` step by step (`Split`, `DescendWild`,
`DescendParam`, `DescendIndex`, `AppendChild`, `InsertParam`, `InsertCatchAll`,
`InsertRest`, `SetLeaf`: the branches of its loop and of
`pgrest_rtree_child_insert`; `left` is `num_params`, which `pgrest_count_params`
caps, `ParamLimit` being the 255 of the code), `Raise` (`pgrest_rtree_child_priority`) and the
walker. **RadixFind** adds the lookup (`pgrest_rtree_find`, `FindFrom`);
`Matches` and `Bindings` are its reference: what a route matches, read off the
route alone. Index strings
and child arrays come from `palloc` and are grown with `realloc`; where one
allocator is given a block of the other the process aborts (`SplitAborts`,
`AppendAborts`) or goes on.

**Inet** has the address readers as operators: `Inet6Addr` runs the loop of
`pgrest_inet_inet6_addr` over tokens, `ParseUrl` is `pgrest_inet_parse_url` with its
unix, bracket and host forms, `ResolveHost` orders what the resolver gives.
`Unspecified` is the switch at its end that marks an address of all interfaces.
`Denotes` is the reference for IPv6, by the grammar of RFC 4291. A dotted quad at
the end of a text is one token, of which only tell-tale cases differ: all ones, which
`inet_addr` reports as a failure, and a quad without some octet, which it accepts.
**Conf** extends
it and reads a JSON file key by key: `stack` is the recursion of
`pgrest_conf_parse_object`, `Begin...` the setters of objects, `Set...` those of
scalars, `EndObject` and `FileEnd` the checks behind them, `UpstreamInit` and
`HandlersInit` what runs once the file is read. A directive is found by name
alone and its setter casts the object being read, so a directive in a foreign
object, or with a value of the wrong type, is undefined (`Misplaced`, `Mistyped`);
so are the null pointers of an upstream without a name. After an undefined step
the model stops, and no property is about such files. `file` records what was
read, for the properties.

**Lifecycle** models all processes: `Boot` to `ShmStartup` are the steps of
`_PG_init` and of the postmaster's start in their order, `StartHook` runs the
start-up hooks of a worker one at a time (`ConnStart`, `ListenerStart`,
`IpcStart`), `Accept`, `Hangup` and `ReadChannel` are what its main loop does to
slots, `ExitHook` runs the shut-down hooks, in start-up order as the code does.
Each process has its descriptor table (`pmOpen`, `proc[w].open`), inherited at
`Fork`; a channel reports its end (`Eof`) when no process holds the other one.
`Dies`, `Quit`, `Reinit`, `Stop`, `PmKilled` are PostgreSQL and the operating
system, modelled from how pg_rest uses them: the server starts again only when
no process is attached to the old shared memory; after a crash the other workers
are killed, the memory is initialized again, and workers with
`BGW_NEVER_RESTART` are not started again; `on_proc_exit` callbacks are
forgotten in children; signals are blocked until the worker unblocks them. A
shut-down hook that works on events which were freed before it either gets
through or ends the process. As in HttpConn a slot is taken to keep its events.

How they fit together: Conf's listeners are ListenConf's directives; ListenConf's
sockets are the listeners that Lifecycle opens and hands to the workers, and
that Acceptor accepts on; Acceptor's `Accept` takes a slot of HttpConn, and
HttpRead is what happens inside HttpConn's handlers. The interfaces are small
(a listener, a slot, an outcome), and each module admits every value its
neighbour can produce.

`MC...` modules give the instances. Operators whose comment begins with "Seeded
fault" are wrong variants of the definition that follows them; no specification
uses them, and each is known to break a property.

## Runs

| run | shows |
|---|---|
| `acceptor_mutex` | with the mutex and every failure in any order: no leak, flag and listeners agree, no blind sleep (2.7 million states) |
| `acceptor_live` | every queued connection is taken off its queue, one worker polls under the mutex, no deadlock; memory and slots run out |
| `acceptor_resume` | without the mutex, all failures: paused listeners come back |
| `acceptor_steal` | violation: EMFILE in a sat-out round releases another worker's lock |
| `http_conn` | pool bookkeeping on every way an accept fails, no forgotten connection, refinement of SlotPool, no NULL link, while `event_add` may fail for an idle connection and the reusable list break; until it does, a drain picks idle connections only, and the one it picked is closed |
| `http_read` | `BytesExact`, `SharedBufferStays` (pointers into the head stay valid), `WaitsForMore`, `EofTrue`, `MemoryBounded`, `ReadEnds`, for sixteen pipelines cut in every way |
| `slab_lists` | free list, slot lists, bitmaps, refinement of Allocator, with double frees of free pages |
| `listen_conf_routes` | connections get the server, protocol and names of their address; start-up fails exactly on contradictions |
| `rtree` | `FindExact` against the reference matcher, `TreeExact`, `WildcardsCounted`, `WalkerVisitsAll`, for up to four of eighteen routes in any order, some with more wildcards than are counted |
| `conf` | `ReadSafely`, `StartsAsWritten`, `ListenersAsWritten` over all files of five themes; `Inet6Exact` over all texts of up to seven tokens |
| `conf_sample` | violation: of a file that writes what the sample file writes, the listener has keep-alive on that is written off, and the subscriber starts as a publisher |
| `lifecycle` | `SlotsSound`, `StartsIffEnough`, `EofMeansAlone`, `FilesExact`, `ShutdownEnds`, `OrphanNotices` over two starts with crashes and kills |

The findings behind the two violations are in `PROJECT.json`.

Bounds. Two workers suffice for every pairwise race on the lock, and the proofs
cover any number. One shared and one reuseport listener exercise both branches
of pause. Two free slots above a threshold of two (16 / 8) make workers sit
rounds out and run dry. `MaxBacklog` = 1: a second connection on the same queue
repeats the loop. Two connection slots let one be drained while the other is busy or
idle, and the reusable list break in every way a slot can be linked, taken and
cleared; the proofs cover any number. Five pages allow free runs on both sides of a freed page, of one and of
several pages, next to an unrelated run. Three servers allow an explicitly bound
address, a covered one and the wildcard on one port, and a contradiction with a
third directive in between; two ports show that ports do not mix. One directive
per server, because with more the pairing by index goes wrong (below). The
addresses of the machine are symmetric.

HttpRead: a header buffer of 8, a body buffer of 4, growth by 4 and files from 8
make every way of growing happen with bodies of up to 18 bytes (one more than
`MaxBody`), and heads of one to eight header lines cross both limits on heads.
RadixTree: eighteen routes contain siblings that split a node at every place,
two names for one parameter, catch-alls next to static paths, three malformed
paths, and four with three wildcards; with four of them a node is split twice and
children change places. `ParamLimit` is 255 in the code, and two in the run, so that
routes cross it. Beyond the limit a wildcard is stored as text, and the code
overwrites the path and the handler of a node it has come to, so the priorities of
`TreeExact` and all of `FindExact` are claimed as long as every wildcard of the
accepted routes was counted (`FullyCounted`); `WildcardsCounted` is claimed of all
routes: the loop never reads behind the path.
Conf: a file has the directives of one theme (listeners, upstreams, handlers that
pass to upstreams, push_stream handlers, stray locations), each once or twice, in
any order; the first two and the last theme also put one of them into a wrong
object. Three words instead of eight in an IPv6 address leave room for "::" at the start,
in the middle, at the end, and standing for one or several words. Lifecycle: two
workers have one foreign channel each; pools of 3 and 5 slots are one short and
one more than needed for two listeners and two channels; `Slacks` lets the
memory fit or be one unit short; two starts show what the first leaves behind.

Fairness (`FairSpec`). Workers are processes the operating system schedules, and
`event_base_loop` returns when something is ready: weak fairness of a worker's
step. Time passes: a pending timer is found expired by some poll (strong
fairness of `PollExpired`, since polls may end for other reasons). HTTP waits
are all timed, so the event of an armed connection fires (weak fairness). In
HttpRead: weak fairness of an active event's callback, of a handler that runs,
and of a pending time out. In Lifecycle: of the postmaster's and each worker's
next step, and of PostgreSQL's SIGQUIT to the workers that are left after a
crash. No fairness is assumed of clients, signals or failures. `acceptor_live` runs without `multi_accept`: with
it, a listener whose connections keep arriving starves the others, which only a
bound on the arrival rate excludes.

Deadlock is checked in `acceptor_live` and the slab runs. Elsewhere start-up
and files end, connections are closed, workers may all exit, or all connections may be waiting for a stubbed request. With the
mutex, EMFILE and no open connection, every worker can block for ever in a
sat-out round (`pg_rest_worker.c:312` adds no timer); this is recorded as a
hazard.

## Proofs

All theorems are of the form `Spec => []P`, for every value of the constants
that the module's named assumption admits. The runs show the same properties
on small instances.

`AcceptorProofs`, for any sets of workers and listeners, any pool size and
any set of failures (assumption `AcceptorAssumption` only, unless stated):

* `TypeCorrect`: `TypeOK`.
* `LockNeverLeaks`: `LockNotLeaked`, inductive relative to `TypeOK`.
* `MutexExcludes`: `MutualExclusion`, if neither EMFILE nor ERROR occurs (with
  them it is false: `acceptor_steal`). Exclusion alone is not inductive, since
  it does not tie the private flags to the lock; `RoundOwnsLock` (a worker
  polling under the mutex is the owner) is, and implies it.
* `ListenersConsistent`: `ListenInv`, the inductive invariant that adds to flag
  agreement and wake-up three facts they need: the resume timer exists only
  without the mutex, a worker at the head of its loop has no exit flag set, and
  without the mutex every pause has its timer. `FlagTracksListeners` and
  `BlockedWorkersWake` follow.

`HttpConnProofs`, for any finite pool of slots (`HttpConnAssumption`; the code
allocates the slots as one array). The inductive invariant `ConnInv` is the
conjunction of `TypeOK`, `PoolSound` and `NoneForgotten`, and holds whatever fails.
None of them is inductive alone: giving a slot back adds a new one to the free list
only if the connection is open (`PoolSound`), and that a handler runs for an open
connection only is `NoneForgotten`. That no NULL link is followed, whatever the list
has become, is `Followed`, a part of `TypeOK`: a slot whose links were cleared is not
marked reusable, and only what is marked is taken off the list.

* `ConnInvariant`, and from it `ConnTypeCorrect`, `ConnPoolSound`,
  `ConnNoneForgotten`.
* `ConnImplementsSlotPool`: HttpConn implements SlotPool; the free slots are the
  members of the free list, and every action takes one slot, gives one back, or
  stutters.
* `ConnDrainSparesBusy`: until `event_add` fails for an idle connection, the list is
  exact (`ListExact`), and every other step keeps it so. The list is a ring of
  links, `Ring`, and `RingDelete` and `RingPush` say that the two operations of
  `ilist.h` take one member out of a ring and put one in.
* `ConnDrainedOnlyCloses`, up to the same failure: the safety half of
  `DrainedCloses`. A connection that a drain has marked reads no request; the next
  step of its handler closes it. That this step comes is liveness, and stays with TLC.

`LifecycleProofs`, for any number of workers, listeners, slots and starts
(`LifecycleAssumption`). `LifeInv` says what is registered, requested and open at
each step of the postmaster (`MasterSound`), what each start-up and shut-down
hook has set up or taken down in a worker (`WorkerSound`: free list and
descriptors of the slots, pointers of listeners and channels), and ties the
workers to each other (`ServerSound`): a worker that has given up its channel is
the last one of its server.

* `LifeInvariant`, and from it `LifeTypeCorrect`, `LifeStartsIffEnough`,
  `LifeSlotsSound`, `LifeEofMeansAlone`, `LifeFilesExact`.
* Which hooks fail depends on how many slots the hooks before have taken, so the
  invariant counts the free list at each hook (`StartingSound`); that the end of a
  channel means that all others are gone needs that no worker holds an end which
  its table does not lead to (`ChannelsOpen`).

`ListenConfProofs`, for any number of servers, directives, ports and addresses
(`ListenConfAssumption`):

* `ConfRefusedIffContradiction`: `RefusedIffContradiction`. The code compares a
  directive with the entry of its address, never with the directives before, so
  the invariant (`ConfInvariant`) says what an entry remembers of them: there is
  one entry for an address, its `bind` and `default` bits are those of some
  directive before (`BitsExact`; options that are set later overwrite the entry,
  and the bits must survive that), and no two directives before clash.

From there the proofs go on to the sockets, again with `ListenConfAssumption` only:

* `ConfServedWhenOwned`: `ServedAsConfigured` holds in every state in which server
  i owns directive i (`OwnsItsListen`). The code pairs the two by index and compares
  only their numbers (`pg_rest_conf.c:1095`), so without this the property is false.
* `ConfServedAsConfigured`: with at most one directive for a server
  (`MaxListens <= 1`, the bound of the run) `OwnsItsListen` is what is left when the
  numbers agree (`OwnersInv`: the owners are in the order of the file and no closer
  than their directives), and `ServedAsConfigured` holds.

The invariant (`ServedInv`, `ConfServedInvariant`) follows the loops. While directives
are grouped, an entry describes those before for its address (`Describes`: its servers
in the order of the file, the default or else the first, http2 if any says so). While
ports are optimized (`Progress`), the sockets so far serve the ports so far, and the
ports to come are as they were. For one port: the sort keeps the addresses and puts
those that are bound first and the wildcard last (`InsertOrdered`, `SortOrdered`); so
the addresses passed over before a socket are those right before it (`PassedOver`),
which is what the moving base and count of `pgrest_http_init_listener` rely on; the
lookup among all but the last of them finds the right one (`SockTold`); and a
connection reaches exactly one socket (`PortReaches`). `ServesConcat` adds the sockets
of other ports, and `MatchAsked` compares with what the file asks for.

`HttpReadProofs`, for every set of pipelines, every buffer size and limit and
every way the bytes arrive (`HttpReadAssumption`: sizes are positive, as the
ranges of their directives make them, `pg_rest_conf.c:359-385`, and requests
consist of the bytes that the model tells apart). `ReadInv` adds to the properties what each handler finds when
it runs:

* `EventInv`: which handlers run with which events, and that the init and
  keep-alive handlers find an empty buffer;
* `HeaderInv`: a header buffer that is full when it is read into was never
  parsed, or is full in its second half: these are two of the cases of `EofTrue`;
* `EntityInv`: a shared buffer has a body of known length; a body buffer that is
  full has been extended or was filled by the split; the one of a body of known
  length holds less than the body; where the decoder stands in a chunked body; and the pointer from before the loop is stale only after the
  body buffer has grown beyond its first size;
* `OpenInv`: of a head that is being read either nothing was parsed, or all that
  was read was, and it is not complete, however many headers it may have;
* `LeftInv`: how much a finished request may leave for the next one, which is
  what bounds the header buffer of later requests.

`ReadTypeCorrect` (no buffer overflows), `ReadSharedBufferStays`, `ReadEofTrue`,
`ReadMemoryBounded` and `ReadWaitsForMore` follow. For the last, `EarlierHead` shows
that `is_complete` may start three bytes before the end of what was parsed: a head
that ends earlier lies in what was parsed before, and would have been found there;
`ParseMeans` that an answer "not complete" does not depend on `num_headers`, which
the code leaves changed between two turns (`StillOpen` puts the two together). The lemmas below them say what `Reserve` returns
(`ReserveFacts`: the loop of doublings ends below twice what is needed, or at the
first doubling), what the head parser and the two body parsers may answer
(`ParseFacts`, `LengthFacts`, `ChunkedFacts`: the decoder never returns more bytes
than it was given), and what is copied when a body is split off (`SplitFacts`).
The proof showed that the bound first stated in `MemoryBounded` was too small for
a header buffer that has to take what a body left over; the instance of the run
was too small to reach it, and the property was corrected.

`SlabProofs`, for any number of pages, chunk sizes and chunks per page, requests of
any length, and with or without second frees (`SlabAssumption`: a page of chunks
has at least two to give, which is why it never goes straight from full to empty):

* `SlabInvariant`: `SlabInv`, which is inductive.
* `SlabListsExact` (`ListsExact`), `SlabSlotListsExact` (`SlotListsExact`) and
  `SlabImplementsAllocator` (Slab implements Allocator) follow.

The properties walk the lists; no step of the code does. `SlabInv` therefore says
of each list that there is a sequence of pages that its links follow in both
directions (`Chain`), and `ListOfChain` proves, by `SetInduction`, that walking the
links gives this sequence. What the sequence of the free list must satisfy is
`FreeSound`: its members start maximal runs of unused pages, the last page of a run
points back to the first, and every other unused page is marked free and has no
successor. The last two clauses are what joining relies on when it looks at the
neighbours of a run, and neither property mentions them. (The one run whose last
page need not point back is that at the end of the pool: `pgrest_slab_init` does
not set it, and nothing can be behind it.) For pages in use, `RunMarked` and
`ChunkMarked` say what the descriptor holds; a page is linked exactly while it has a
chunk to give, which is how `do_free` recognises a page that was full. Joining must
not take a page in use for a free run, and this is where these clauses come in
(`Recognised`). The proof goes operation by operation: `UnlinkChain`, `PushChain`
and the like for the links, `TakePagesFacts` and the lemmas of joining for the runs,
one `...Sound` lemma per request, and one `...Step` lemma per action.

`RadixTreeProofs`, for any set of routes, of any length, and any number of them
(`RadixTreeAssumption`: a path begins with a slash), as long as no route has more
wildcards than `pgrest_count_params` counts (`RoutesFit`, at most 255 in the code):

* `RadixInvariant`: `RadixInv`, which is inductive, and `RadixTypeOK`.
* `RadixWildcardsCounted` (`WildcardsCounted`) and `RadixWalkerVisitsAll`
  (`WalkerVisitsAll`) follow.
* `RadixTreeExact` (`TreeExact`), from `RadixInv /\ ExactInv`, which is inductive too.

Above the limit `left` is zero while wildcards are left, and `RadixInv` is false;
`WildcardsCounted` then says how far `left` falls short, which TLC checks
(`rtree`).

`num_params` is right at an insertion only if it was lowered once for every wildcard
the descent has passed, and by nothing else. So `RadixInv` says of every tree which
nodes hold a wildcard (`Holds`), that these are exactly the children of the nodes
marked wild (`LinkInv`), and that a node has one wildcard in its path if it holds one
and none otherwise (`NodeInv`; `Hole` is the node whose path is still to come).
`AddInv` and `InsertInv` then relate `left` to what is left of the path. A split is
the step to worry about: it cannot happen inside a wildcard, since a node that holds
one is entered only when the path goes on with it (`SplitFacts`). For the walker,
`ReachInv` says that every set with the root that is closed under children is the
whole tree, which a split keeps, and `BelowRoot` that the recursion finds them all:
each of its rounds adds a node or is closed (by `SetInduction` on the rounds).
`HandlerInv` is why no other node can have the root's handler: it would be as long as
the root's path. A step that grows the tree at one node is shown to keep all of this
once (`GrowInv`), a step that changes priorities and the order of children once
(`SimilarInv`, `RaiseFacts`).

`TreeExact` speaks of the tree between two routes, when each priority is the number
of routes at and below its node. While a route is added, the priorities on its way
have been raised and its handler is not there yet, and the node it has come to may
have no path. `ExactInv` says what holds then. The nodes are a tree (`Graph`: every
node but the root is the child of one node), every list of children is in falling
order and without repetition (`OrderInv`), each index is the character that leads to
its child (`LabelInv`; a node without a path yet is labelled with the character it
will begin with), and `Counted`: a priority is the number of handlers in `SubOf` its
node, plus one if the node the route has come to (`At`) is in there. An action
changes this in one of a few ways, each a lemma about any graph: the route begins
(`CountRoot`), goes on to a child, whose priority is raised (`CountDown`), ends at a
node (`CountEnd`), a node is split (`CountHalves`), or one is hung below the place the
route has come to (`CountLeaf`). `pgrest_rtree_child_priority` moves the child that
was raised to the front of those that are now smaller, and exchanges the characters
in the same way (`MoveFacts`). `SubOf` is the least set closed under children;
`BelowFacts` shows that the recursive function `Below`, in which the property is
stated, computes it.

`ListFacts` has the facts the proofs share: lists without repetition (push, pop,
remove), sequences, minima and maxima, and `SetInduction`. The library's
induction theorems have an operator as their parameter, which the provers cannot
instantiate; `SetInduction` takes the set of the numbers for which a statement
holds instead, and is how the facts about the recursive functions on numbers
(`Doubled`, the decoder's loop, the sort, the sockets of a port) are proved; that such
a function exists is `RecursionOnInterval`.

Some definitions are written in the form the proofs need; each says the same as
the code it maps to: the free lists of HttpConn and of Lifecycle as sequences
without repetition, the sizes in Lifecycle as lengths, the doubling of
a buffer as a function of the number of shifts (`Doubled`, `Enough`), the length of a
body as the length of its bytes (`Total`).

Only model-checked:

* every liveness property (`PendingAccepted`, `PausedResumes`, `DrainedCloses`,
  `ReadEnds`, `ShutdownEnds`, `OrphanNotices`): fairness is out of the prover's
  reach;
* `FindExact` of RadixFind, and Conf and Inet: their properties compare what a
  recursion over a URL, a file or a text computes with a reference that is itself
  recursive, which would need induction over data;
* `BytesExact` of HttpRead: what the parser and the decoder compute from the
  bytes of every pipeline, not only how much they return.

## Where the models follow the code into the unexpected

These are behaviours of the code that the models contain and that a reader of a
property should know, because the property allows or exempts them. No run
is about them, and no document of the repository says otherwise in so many words.

* `pg_rest_http_v1.c:493`: `num_headers` is not set again before the parser is
  called again in the same turn; a head in two pieces may be refused for too many
  headers. `BytesExact` allows a refusal, never a wrong request.
* `pg_rest_http_v1.c:221`: the conditional binds weaker than the comparison, so a
  non-empty chunked body in a buffer of its own is refused with 413; `:207`: a
  decoded length carried over to the new buffer can make the unsigned difference
  wrap. The model ends there.
* A body or head that exactly fills its buffer leaves no room, `recv()` returns 0,
  and that is taken for the end of the stream (`:377`, `pg_rest_http_request.c:697`).
  `EofTrue` says these are the only false ends.
* `pg_rest_http_v1.c:418`: an empty body is read for; `pg_rest_http_request.c:267, 300`:
  the keep-alive handler waits without a time out after a spurious wake-up, and
  does not mark what it read for parsing. `WaitsForMore` and `ReadEnds` except
  exactly these.
* `pg_rest_conn.c:50`: `MemSet` clears the pointers to the two events that
  `pgrest_conn_worker_init` created for the slot (`:347-348`), with the first use of the
  slot. HttpConn and Lifecycle take a slot to keep them.
* `pg_rest_http_v1.c:598`: an idle connection whose event cannot be added is closed, and
  its free slot put on the reusable list. `DrainSparesBusy` and `DrainedCloses` end there.
* `pg_rest_http_request.c:444, 520`: after a failing `event_add` the connection is
  closed and then used. The models take the close for the outcome.
* `pg_rest_http_v1.c:366-370`, `pg_rest_http_request.c:341-343`: a `reserve` that fails
  after a buffer was split or when a request's leftover is moved; not modelled.
* `pg_rest_slab.c:594`: a second free of the head of a free run is taken for an
  allocated run; lists stay exact. `:445`: the bound lets the address one past the
  last page through; never handed out, so not modelled.
* `pg_rest_conf.c:1095`: servers and listeners are paired by index, so two
  directives of one server make up for a missing one of another; `:739`: names and
  paths keep the address of a server that has since moved.
* `pg_rest_http_upstream.c:54`: servers before the name, or no name, follow a null
  pointer; `:211`: the upstream that was found is not stored in the handler.
* `pg_rest_inet.c:773`: a listen text without a port is read as a port; the IPv6
  reader refuses a "::" at the end for one word and a dotted quad of all ones
  (`:302-305`), and accepts a stray colon and a dotted quad without some octet
  (`Inet6Exact` states all four).
* `pg_rest_rtree.c:529`: the root's own handler is never initialized; `WalkerVisitsAll`
  and `StartsAsWritten` except that one handler. `:59`: `palloc` and `realloc` are mixed.
* `pg_rest_string.c:57`: wildcards beyond 255 are not counted, and end up as text in
  the path of a node.
* `pg_rest_shm.c:249`: the request for shared memory comes before the statistics
  register their segment; `pg_rest_worker.c:150`: after a crash no worker is
  started again, and clients wait in the listeners' queues.
* `pg_rest_acceptor.c:283`: with `multi_accept`, a busy listener starves the others.

## Not modelled, and plan

* Notifications between workers: the write is scheduled on an event that was
  never assigned (`pg_rest_ipc.c:58`) and nothing calls `pgrest_ipc_send_notify`;
  there is no defined behaviour to follow.
* Request processing, HTTP/2, output chains, sending: empty or unused at this
  commit. Header table and `Host`/`Expect` handling: its functions are NULL.
* Arrays and circular queues: unused by state that outlives a call, or pure
  index arithmetic without a caller. GUC definitions, socket options, logging,
  info printing: no state that a property could be about.
* What a shut-down hook does with an event that is freed or lost
  (`pg_rest_worker.c:285`): undefined; the worker may die there (`Dies`), and no
  property tells that from a shut-down in order.
* Directives in a foreign object (`pg_rest_conf.c:949`): which they are is modelled, what
  they write into the wrong struct is not.
* How many chunks a bitmap takes (`pg_rest_slab.c:332-338, 488-492`): the constant
  `Reserved`; the lists are exact for every value of it, the rounding is not checked.
* Line ends are one byte, so the margin of three bytes that `is_complete` keeps for a
  CRLF cut in two (`picohttpparser.c:203`) is modelled, but a pair that is cut is not.
* jansson, and the parser's byte level: vendored. A file is modelled from the keys
  jansson gives the code, a head from the outcomes the parser gives the handlers.

What is left to prove are the parts of Conf's `ReadSafely` that do not depend on the
recursion over the file.
