----------------------------- MODULE Lifecycle -----------------------------
(***************************************************************************)
(* The life of the processes: _PG_init in the postmaster (pg_rest.c), the  *)
(* shared memory segments (pg_rest_shm.c), the listening sockets and their *)
(* files (pg_rest_listener.c), the socket pairs between the workers        *)
(* (pg_rest_ipc.c), the start-up and shut-down hooks of a worker           *)
(* (pg_rest_worker.c) and the connection slots the hooks use               *)
(* (pg_rest_conn.c); shut-down, crash and restart of all of them. The      *)
(* kernel's descriptor tables are part of the state: a channel reports its *)
(* end only when no process has the other end open.                        *)
(*                                                                         *)
(* A hook is one step of its process. As in HttpConn, a slot is taken to   *)
(* keep the two events it was given at start-up.                           *)
(***************************************************************************)
EXTENDS Naturals, FiniteSets, SequencesExt

CONSTANTS
    N,            \* pgrest_setting.worker_processes
    Kinds,        \* the listeners in file order: "tcp" or "unix"
    PoolSizes,    \* the values of worker_noconn
    Slacks,       \* shared memory PostgreSQL has to spare beyond the requests
    MaxStarts     \* bound: how often the postmaster is started

Workers == 1..N
Listeners == 1..Len(Kinds)
Unix == {l \in Listeners : Kinds[l] = "unix"}

ASSUME LifecycleAssumption ==
    /\ N \in Nat \ {0}
    /\ Kinds \in Seq({"tcp", "unix"}) /\ Kinds # <<>>
    /\ PoolSizes \subseteq Nat \ {0}
    /\ Slacks \subseteq Nat
    /\ MaxStarts \in Nat \ {0}

VARIABLES
    noconn,     \* pgrest_setting.worker_noconn
    slack,      \* what is left of the shared memory PostgreSQL asks for itself
    starts,     \* how often the postmaster was started
    pm,         \* what the postmaster does next, or "down"
    how,        \* how its last life ended
    pmOpen,     \* its descriptors
    hooks,      \* pgrest_worker_hooks
    segs,       \* pgrest_shm_segments
    requested,  \* what RequestAddinShmemSpace was called with
    registered, \* the background workers are registered
    files,      \* the unix listeners whose socket file exists
    proc        \* the worker processes, see Ended

settings == <<noconn, slack>>
tables == <<hooks, segs, requested, registered>>
vars == <<settings, starts, pm, how, pmOpen, tables, files, proc>>

\* Descriptors: a listening socket, the two ends of a worker's channel, a client.
Listening(l) == <<"listen", l>>
WriteEnd(w) == <<"sockets[0]", w>>
ReadEnd(w) == <<"sockets[1]", w>>
Client(k) == <<"client", k>>
NoFd == <<"-1", 0>>
AllListening == {Listening(l) : l \in Listeners}
AllChannels == {WriteEnd(w) : w \in Workers} \cup {ReadEnd(w) : w \in Workers}

\* A worker process: its phase and next hook, its descriptors, the slots with
\* conn->fd, the free list, listener->connection and pgrest_ipc_data[i].conn
\* (0 is NULL), and a SIGTERM that has arrived. Ended has none of them.
Ended(phase) ==
    [phase |-> phase, at |-> 1, open |-> {}, fd |-> <<>>, free |-> <<>>,
     lconn |-> [l \in Listeners |-> 0], chan |-> [w \in Workers |-> 0],
     term |-> FALSE]
NoProcess == Ended("none")

Alive(w) == proc[w].phase \in {"start", "run", "exit"}
Ends == {"refused", "broken", "exited", "killed"}

\* Sizes of the two segments, with one cache line each for the alignment.
Sizes == [name \in {"acceptor data", "worker stat"} |->
             IF name = "acceptor data" THEN 2 ELSE N + 1]
Size(name, list) == IF name \in ToSet(list) THEN Sizes[name] ELSE 0
Total(list) == Size("acceptor data", list) + Size("worker stat", list)

TypeOK ==
    /\ noconn \in PoolSizes /\ slack \in Slacks
    /\ starts \in 0..MaxStarts
    /\ pm \in {"conn", "listener", "acceptor", "shm", "ipc", "worker", "shmem",
               "up", "crashed", "stopping", "down"}
    /\ how \in {"new", "clean", "noipc", "noshm", "failed", "crash"}
    /\ pmOpen \in {{}, AllListening, AllListening \cup AllChannels}
    /\ hooks \in Seq({"connection", "listener", "acceptor", "ipc channel"})
    /\ segs \in Seq(DOMAIN Sizes)
    /\ requested \in Nat
    /\ registered \in BOOLEAN
    /\ files \subseteq Unix
    /\ DOMAIN proc = Workers
    /\ \A w \in Workers : LET p == proc[w] IN
          /\ p.phase \in {"none", "start", "run", "exit"} \cup Ends
          /\ p.at \in 1..(Len(hooks) + 1)
          /\ p.free \in Seq(DOMAIN p.fd)
          /\ \A x \in {p.lconn[l] : l \in Listeners}
                      \cup {p.chan[v] : v \in Workers} : x \in 0..Len(p.fd)
          /\ p.term \in BOOLEAN

Init ==
    /\ noconn \in PoolSizes /\ slack \in Slacks
    /\ starts = 0 /\ pm = "down" /\ how = "new" /\ pmOpen = {}
    /\ hooks = <<>> /\ segs = <<>> /\ requested = 0 /\ registered = FALSE
    /\ files = {}
    /\ proc = [w \in Workers |-> NoProcess]

-----------------------------------------------------------------------------
(* The postmaster: _PG_init in its order.                                  *)

\* Seeded fault: a worker removes the files of sockets that others serve.
UnlinkedAlways(underPostmaster) == Unix

\* The socket files that pgrest_listener_close removes.
Unlinked(underPostmaster) == IF underPostmaster THEN {} ELSE Unix

\* The postmaster ends through proc_exit: ipc_fini2, then listener_fini2.
ProcExit(why) ==
    /\ pm' = "down" /\ how' = why
    /\ pmOpen' = {} /\ files' = files \ Unlinked(FALSE)

\* PostgreSQL starts only when no process is attached to the old memory.
Boot ==
    /\ pm = "down" /\ starts < MaxStarts
    /\ \A w \in Workers : ~Alive(w)
    /\ pm' = "conn" /\ starts' = starts + 1
    /\ hooks' = <<>> /\ segs' = <<>> /\ requested' = 0 /\ registered' = FALSE
    /\ proc' = [w \in Workers |-> NoProcess]
    /\ UNCHANGED <<settings, how, pmOpen, files>>

\* pgrest_conn_init: the first hook.
ConnInit ==
    /\ pm = "conn" /\ pm' = "listener"
    /\ hooks' = Append(hooks, "connection")
    /\ UNCHANGED <<settings, starts, how, pmOpen, segs, requested, registered,
                   files, proc>>

\* pgrest_listener_init: bind() creates the file of a unix socket and fails
\* when there is one; options that cannot be set are ignored.
ListenerInit ==
    /\ pm = "listener" /\ pm' = "acceptor"
    /\ files = {}
    /\ pmOpen' = AllListening /\ files' = Unix
    /\ hooks' = Append(hooks, "listener")
    /\ UNCHANGED <<settings, starts, how, segs, requested, registered, proc>>

\* One of the listeners cannot be opened: FATAL before on_proc_exit. The kernel
\* closes the sockets; the files of those bound so far stay, that of the
\* failing one too when it is listen() that fails.
ListenerInitFails ==
    /\ pm = "listener"
    /\ \E bound \in 0..Len(Kinds) :
          /\ Unix \cap (1..bound) \cap files = {}
          /\ files' = files \cup (Unix \cap (1..bound))
    /\ pm' = "down" /\ how' = "failed"
    /\ UNCHANGED <<settings, starts, pmOpen, tables, proc>>

\* pgrest_acceptor_init: its segment and its hook.
AcceptorInit ==
    /\ pm = "acceptor" /\ pm' = "shm"
    /\ segs' = Append(segs, "acceptor data")
    /\ hooks' = Append(hooks, "acceptor")
    /\ UNCHANGED <<settings, starts, how, pmOpen, requested, registered, files,
                   proc>>

\* pgrest_shm_mem_size.
MemSize(list) == Total(list)

\* pgrest_shm_init: memory for the segments known by now, and the start-up hook.
ShmInit ==
    /\ pm = "shm" /\ pm' = "ipc"
    /\ requested' = MemSize(segs)
    /\ UNCHANGED <<settings, starts, how, pmOpen, hooks, segs, registered,
                   files, proc>>

\* pgrest_ipc_init: a socket pair for each worker.
IpcInit ==
    /\ pm = "ipc" /\ pm' = "worker"
    /\ pmOpen' = pmOpen \cup AllChannels
    /\ hooks' = Append(hooks, "ipc channel")
    /\ UNCHANGED <<settings, starts, how, segs, requested, registered, files,
                   proc>>

\* A pair cannot be made: ERROR, which is FATAL while the library is loaded.
IpcInitFails ==
    /\ pm = "ipc"
    /\ ProcExit("noipc")
    /\ UNCHANGED <<settings, starts, tables, proc>>

\* pgrest_worker_init: the workers' segment comes after the request.
WorkerInit ==
    /\ pm = "worker" /\ pm' = "shmem"
    /\ segs' = Append(segs, "worker stat")
    /\ registered' = TRUE
    /\ UNCHANGED <<settings, starts, how, pmOpen, hooks, requested, files, proc>>

\* pgrest_shm_startup finds room for every segment.
ShmStartup ==
    /\ pm = "shmem" /\ pm' = "up"
    /\ Total(segs) <= requested + slack
    /\ UNCHANGED <<settings, starts, how, pmOpen, tables, files, proc>>

\* ShmemInitStruct raises an ERROR: there is no room.
ShmStartupFails ==
    /\ pm = "shmem"
    /\ Total(segs) > requested + slack
    /\ ProcExit("noshm")
    /\ UNCHANGED <<settings, starts, tables, proc>>

\* A registered worker is forked with the postmaster's descriptors.
Fork(w) ==
    /\ pm = "up" /\ registered
    /\ proc[w].phase = "none"
    /\ proc' = [proc EXCEPT ![w] = [NoProcess EXCEPT !.phase = "start",
                                                     !.open = pmOpen]]
    /\ UNCHANGED <<settings, starts, pm, how, pmOpen, tables, files>>

-----------------------------------------------------------------------------
(* The slots of a worker p, as far as the hooks use them.                  *)

\* pgrest_conn_get, once for each of the descriptors fds: they go to the slots
\* at the head of the free list. When it runs out, the hook that asks fails: an
\* ERROR outside PG_TRY ends the worker.
ConnGet(p, fds) ==
    LET taken == {k \in DOMAIN p.free : k <= Len(fds)} IN
    IF Len(p.free) < Len(fds) THEN Ended("refused")
    ELSE [p EXCEPT !.free = SubSeq(p.free, Len(fds) + 1, Len(p.free)),
                   !.fd = [s \in DOMAIN p.fd |->
                             IF \E k \in taken : p.free[k] = s
                             THEN fds[CHOOSE k \in taken : p.free[k] = s]
                             ELSE p.fd[s]]]

\* pgrest_conn_close.
ConnClose(p, s) ==
    IF p.fd[s] = NoFd THEN p
    ELSE [p EXCEPT !.free = <<s>> \o @, !.fd[s] = NoFd,
                   !.open = @ \ {p.fd[s]}]

Started(p) == p.phase = "start"

\* Seeded fault: one slot more is linked than was allocated.
ConnStartBehind(p) ==
    [p EXCEPT !.fd = [s \in 1..noconn |-> NoFd],
              !.free = [s \in 1..(noconn + 1) |-> s]]

\* pgrest_conn_worker_init: every slot free, in order, and its events.
ConnStart(p) ==
    [p EXCEPT !.fd = [s \in 1..noconn |-> NoFd],
              !.free = [s \in 1..noconn |-> s]]

\* pgrest_listener_worker_init: a slot for each listener.
ListenerStart(p) ==
    LET got == ConnGet(p, [l \in Listeners |-> Listening(l)]) IN
    IF Started(got) THEN [got EXCEPT !.lconn = [l \in Listeners |-> p.free[l]]]
                    ELSE got

\* The order in which worker me takes the channels: the others', then its own.
Order(me) ==
    [k \in Workers |-> IF k = N THEN me ELSE IF k < me THEN k ELSE k + 1]

\* The end of worker v's channel that worker me keeps.
Kept(me, v) == IF v = me THEN ReadEnd(v) ELSE WriteEnd(v)

\* pgrest_ipc_data[v].conn once the channels have their slots.
Channels(p, me) ==
    [v \in Workers |-> p.free[CHOOSE k \in Workers : Order(me)[k] = v]]

\* Seeded fault: channels without a slot are let pass.
SetupHandlerUnchecked(p, me) ==
    IF Len(p.free) < N THEN p
    ELSE [ConnGet(p, [k \in Workers |-> Kept(me, Order(me)[k])])
            EXCEPT !.chan = Channels(p, me)]

\* pgrest_ipc_setup_handler, called for each channel: its end gets a slot.
SetupHandler(p, me) ==
    LET got == ConnGet(p, [k \in Workers |-> Kept(me, Order(me)[k])]) IN
    IF Started(got) THEN [got EXCEPT !.chan = Channels(p, me)] ELSE got

\* Seeded fault: the write end of the worker's own channel stays open.
OwnNone(w) == {}

\* The ends of its own channel that a worker closes.
Own(w) == {WriteEnd(w)}

\* pgrest_ipc_worker_init in worker me: the ends it does not keep are closed.
IpcStart(p, me) ==
    SetupHandler([p EXCEPT !.open = @ \ ({ReadEnd(v) : v \in Workers \ {me}}
                                           \cup Own(me))], me)

Startup(hook, p, w) ==
    CASE hook = "connection"  -> ConnStart(p)
      [] hook = "listener"    -> ListenerStart(p)
      [] hook = "acceptor"    -> p
      [] hook = "ipc channel" -> IpcStart(p, w)

\* pgrest_worker_process_init runs the next start-up hook. A hook that finds
\* no slot raises an ERROR, which ends the worker for good.
StartHook(w) ==
    /\ proc[w].phase = "start" /\ proc[w].at <= Len(hooks)
    /\ \E p \in {Startup(hooks[proc[w].at], proc[w], w)} :
          proc' = [proc EXCEPT ![w] =
                      IF Started(p) THEN [p EXCEPT !.at = @ + 1] ELSE p]
    /\ UNCHANGED <<settings, starts, pm, how, pmOpen, tables, files>>

\* libevent cannot make an event or add it: an ERROR as well.
StartBreaks(w) ==
    /\ proc[w].phase = "start"
    /\ proc' = [proc EXCEPT ![w] = Ended("broken")]
    /\ UNCHANGED <<settings, starts, pm, how, pmOpen, tables, files>>

\* Seeded fault: a signal that came before the handlers is forgotten.
UnblockedTerm(p) == FALSE

\* BackgroundWorkerUnblockSignals delivers what arrived during the start-up.
Unblocked(p) == p.term

\* pgrest_worker_signal_setup, and the main loop begins.
StartDone(w) ==
    /\ proc[w].phase = "start" /\ proc[w].at > Len(hooks)
    /\ proc' = [proc EXCEPT ![w].phase = "run", ![w].at = 1,
                            ![w].term = Unblocked(proc[w])]
    /\ UNCHANGED <<settings, starts, pm, how, pmOpen, tables, files>>

-----------------------------------------------------------------------------
(* A worker in its main loop.                                              *)

NextClient(p) == CHOOSE k \in 1..noconn : Client(k) \notin p.open

\* A client is accepted into a free slot.
Accept(w) ==
    /\ proc[w].phase = "run" /\ proc[w].free # <<>>
    /\ LET f == Client(NextClient(proc[w]))
           p == ConnGet(proc[w], <<f>>)
       IN  proc' = [proc EXCEPT ![w] = [p EXCEPT !.open = p.open \cup {f}]]
    /\ UNCHANGED <<settings, starts, pm, how, pmOpen, tables, files>>

\* The connection of a client ends.
Hangup(w) ==
    /\ proc[w].phase = "run"
    /\ \E s \in DOMAIN proc[w].fd :
          /\ proc[w].fd[s][1] = "client"
          /\ proc' = [proc EXCEPT ![w] = ConnClose(@, s)]
    /\ UNCHANGED <<settings, starts, pm, how, pmOpen, tables, files>>

\* Nobody has the write end of w's channel open: recv() returns 0.
Eof(w) ==
    /\ WriteEnd(w) \notin pmOpen
    /\ \A v \in Workers : WriteEnd(w) \notin proc[v].open

\* pgrest_ipc_set_conn: the pointer to the slot is cleared.
SetConn(p, s) ==
    [p EXCEPT !.chan = [w \in Workers |-> IF p.chan[w] = s THEN 0 ELSE p.chan[w]]]

\* Seeded fault: the end of the channel is taken for a spurious wake-up.
ReadFailedIgnored(p, s) == p

\* The fail label of pgrest_ipc_read_handler.
ReadFailed(p, s) == SetConn(ConnClose(p, s), s)

\* Seeded fault: recv() that would block is taken for the end.
ReadChannelAgain(w) ==
    /\ proc[w].phase = "run" /\ proc[w].chan[w] # 0
    /\ proc' = [proc EXCEPT ![w] = ReadFailed(@, proc[w].chan[w])]
    /\ UNCHANGED <<settings, starts, pm, how, pmOpen, tables, files>>

\* pgrest_ipc_read_handler: the end of the channel. No command is ever read:
\* see pgrest_ipc_send_notify in the README.
ReadChannel(w) ==
    /\ proc[w].phase = "run" /\ proc[w].chan[w] # 0
    /\ Eof(w)
    /\ proc' = [proc EXCEPT ![w] = ReadFailed(@, proc[w].chan[w])]
    /\ UNCHANGED <<settings, starts, pm, how, pmOpen, tables, files>>

\* SIGTERM reaches a worker, from the postmaster or an administrator.
Term(w) ==
    /\ Alive(w) /\ ~proc[w].term
    /\ proc' = [proc EXCEPT ![w].term = TRUE]
    /\ UNCHANGED <<settings, starts, pm, how, pmOpen, tables, files>>

\* The main loop ends: SIGTERM.
LoopEnds(w) ==
    /\ proc[w].phase = "run" /\ proc[w].term
    /\ proc' = [proc EXCEPT ![w].phase = "exit"]
    /\ UNCHANGED <<settings, starts, pm, how, pmOpen, tables, files>>

\* It ends on an error of libevent or in PG_CATCH.
LoopFails(w) ==
    /\ proc[w].phase = "run" /\ ~proc[w].term
    /\ proc' = [proc EXCEPT ![w].phase = "exit"]
    /\ UNCHANGED <<settings, starts, pm, how, pmOpen, tables, files>>

-----------------------------------------------------------------------------
(* pgrest_worker_process_exit: the hooks again, in start-up order.         *)

\* pgrest_conn_worker_exit frees the events of every slot and closes nothing.
\* The later hooks delete those events again: see Dies.
ConnExit(p) == p

\* The descriptors of p once the slots in the set are closed.
Emptied(p, slots) ==
    [s \in DOMAIN p.fd |-> IF s \in slots THEN NoFd ELSE p.fd[s]]

\* pgrest_listener_close in a worker: the slots are freed, the sockets closed.
\* The files stay: they are the postmaster's.
ListenerExit(p) ==
    [p EXCEPT !.free = Reverse(p.lconn) \o p.free,
              !.fd = Emptied(p, ToSet(p.lconn)),
              !.open = @ \ AllListening]

\* pgrest_ipc_worker_exit closes the channels that are left. (No slot is taken
\* any more: their order on the free list is that of SetToSeq.)
IpcExit(p) ==
    LET left == {s \in {p.chan[v] : v \in Workers} \ {0} : p.fd[s] # NoFd} IN
    [p EXCEPT !.free = SetToSeq(left) \o p.free,
              !.fd = Emptied(p, left),
              !.open = @ \ {p.fd[s] : s \in left}]

Shutdown(hook, p) ==
    CASE hook = "connection"  -> ConnExit(p)
      [] hook = "listener"    -> ListenerExit(p)
      [] hook = "acceptor"    -> p
      [] hook = "ipc channel" -> IpcExit(p)

\* The next shut-down hook.
ExitHook(w) ==
    /\ proc[w].phase = "exit" /\ proc[w].at <= Len(hooks)
    /\ LET hook == hooks[proc[w].at]
           p == Shutdown(hook, proc[w])
       IN /\ proc' = [proc EXCEPT ![w] = [p EXCEPT !.at = p.at + 1]]
          /\ files' = IF hook = "listener" THEN files \ Unlinked(TRUE)
                                           ELSE files
    /\ UNCHANGED <<settings, starts, pm, how, pmOpen, tables>>

\* proc_exit(0): the kernel closes what is left, the clients' sockets.
ExitDone(w) ==
    /\ proc[w].phase = "exit" /\ proc[w].at > Len(hooks)
    /\ proc' = [proc EXCEPT ![w] = Ended("exited")]
    /\ UNCHANGED <<settings, starts, pm, how, pmOpen, tables, files>>

\* A worker dies at any point: it is killed, or one of its last hooks crashes
\* on an event that the first one has freed. A running postmaster then resets
\* the shared memory.
Dies(w) ==
    /\ Alive(w) /\ pm # "crashed"
    /\ proc' = [proc EXCEPT ![w] = Ended("killed")]
    /\ pm' = IF pm = "up" THEN "crashed" ELSE pm
    /\ UNCHANGED <<settings, starts, how, pmOpen, tables, files>>

-----------------------------------------------------------------------------
(* The postmaster afterwards.                                              *)

\* After a crash the other workers are killed.
Quit(w) ==
    /\ pm = "crashed" /\ Alive(w)
    /\ proc' = [proc EXCEPT ![w] = Ended("killed")]
    /\ UNCHANGED <<settings, starts, pm, how, pmOpen, tables, files>>

\* The shared memory is made anew, pgrest_shm_startup runs again; workers
\* registered with BGW_NEVER_RESTART are forgotten.
Reinit ==
    /\ pm = "crashed" /\ \A w \in Workers : ~Alive(w)
    /\ pm' = "shmem" /\ registered' = FALSE
    /\ UNCHANGED <<settings, starts, how, pmOpen, hooks, segs, requested, files,
                   proc>>

\* The postmaster is told to stop, and sends SIGTERM to its workers.
Stop ==
    /\ pm = "up" /\ pm' = "stopping"
    /\ proc' = [w \in Workers |->
                   IF Alive(w) THEN [proc[w] EXCEPT !.term = TRUE] ELSE proc[w]]
    /\ UNCHANGED <<settings, starts, how, pmOpen, tables, files>>

\* When they are gone it exits.
Stopped ==
    /\ pm = "stopping" /\ \A w \in Workers : ~Alive(w)
    /\ ProcExit("clean")
    /\ UNCHANGED <<settings, starts, tables, proc>>

\* The postmaster is killed. Its workers do not watch it.
PmKilled ==
    /\ pm # "down"
    /\ pm' = "down" /\ how' = "crash" /\ pmOpen' = {}
    /\ UNCHANGED <<settings, starts, tables, files, proc>>

-----------------------------------------------------------------------------
Master ==
    \/ ConnInit
    \/ ListenerInit
    \/ ListenerInitFails
    \/ AcceptorInit
    \/ ShmInit
    \/ IpcInit
    \/ IpcInitFails
    \/ WorkerInit
    \/ ShmStartup
    \/ ShmStartupFails
    \/ Reinit
    \/ Stopped

WorkerStep(w) ==
    \/ StartHook(w)
    \/ StartDone(w)
    \/ ReadChannel(w)
    \/ LoopEnds(w)
    \/ ExitHook(w)
    \/ ExitDone(w)

Outside(w) ==
    \/ StartBreaks(w)
    \/ Accept(w)
    \/ Hangup(w)
    \/ Term(w)
    \/ LoopFails(w)
    \/ Dies(w)

Next ==
    \/ Boot
    \/ Master
    \/ Stop
    \/ PmKilled
    \/ \E w \in Workers : Fork(w) \/ WorkerStep(w) \/ Outside(w) \/ Quit(w)

\* Every process is scheduled: what the code itself does next is done, and
\* after a crash the postmaster kills the other workers. Nothing is assumed of
\* signals, clients and failures.
Spec ==
    /\ Init /\ [][Next]_vars
    /\ WF_vars(Master)
    /\ \A w \in Workers : WF_vars(WorkerStep(w)) /\ WF_vars(Quit(w))

-----------------------------------------------------------------------------
(* Properties.                                                             *)

Running(w) == proc[w].phase = "run"
Used(p) == {s \in DOMAIN p.fd : p.fd[s] # NoFd}

\* In a running worker the slots, the free list and the descriptor table of
\* the kernel agree: a slot is free or holds a descriptor that is open, no two
\* hold the same, and no descriptor is open without a slot, so that nothing
\* that was inherited leaks. When the exit hooks have run, only sockets of
\* clients are open (conn.c:27-135, listener.c:347-490, ipc.c:234-294).
SlotsExact ==
    \A w \in Workers : LET p == proc[w] IN
       /\ Running(w) =>
             /\ IsInjective(p.free)
             /\ ToSet(p.free) = DOMAIN p.fd \ Used(p)
             /\ p.open = {p.fd[s] : s \in Used(p)}
             /\ Cardinality(p.open) = Cardinality(Used(p))
       /\ p.phase = "exit" /\ p.at > Len(hooks) =>
             \A f \in p.open : f[1] = "client"

\* The pointers that outlive a call lead to what they were set to: a listener
\* to the slot with its socket, a channel to the slot with its end, never to a
\* slot that has since been given to a client (listener.c:464, ipc.c:100, 105).
PointersExact ==
    \A w \in Workers : LET p == proc[w] IN
       Running(w) =>
          /\ \A l \in Listeners : p.fd[p.lconn[l]] = Listening(l)
          /\ \A v \in Workers \ {w} : p.fd[p.chan[v]] = WriteEnd(v)
          /\ p.chan[w] # 0 => p.fd[p.chan[w]] = ReadEnd(w)

\* Slots, descriptors and the pointers to them agree in every worker.
SlotsSound == SlotsExact /\ PointersExact

\* A worker takes its channel for closed only when it is the last process of
\* its server: the postmaster and every other worker are gone (ipc.c:133).
EofMeansAlone ==
    \A w \in Workers :
       Running(w) /\ proc[w].chan[w] = 0 =>
          pm = "down" /\ \A v \in Workers \ {w} : ~Running(v)

\* Workers start exactly when worker_noconn covers the listeners and one
\* channel end per worker: no smaller pool gets a worker into its main loop,
\* and a larger one refuses none (listener.c:455, ipc.c:74).
StartsIffRoom ==
    \A w \in Workers :
       /\ Running(w) => noconn >= Len(Kinds) + N
       /\ proc[w].phase = "refused" => noconn < Len(Kinds) + N

\* The request is made before the workers' segment is known (pg_rest.c:61-67):
\* the server starts exactly when PostgreSQL has that much to spare.
RoomForShm ==
    /\ pm = "up" => slack >= Sizes["worker stat"]
    /\ how = "noshm" => slack < Sizes["worker stat"]

\* Server and workers start exactly when the configured limits suffice, neither
\* with less nor only with more.
StartsIffEnough == StartsIffRoom /\ RoomForShm

\* While the postmaster runs, every unix listener can be reached by its file,
\* whatever its workers do on their way out (listener.c:378).
FilesStay == pm \in {"up", "crashed", "stopping"} => files = Unix

\* A stop through proc_exit leaves nothing that would keep the next start from
\* binding its addresses; only a kill or a failed open does (listener.c:378,
\* 600-611).
CleanStopRestarts ==
    pm = "down" /\ how \in {"clean", "noipc", "noshm"} => files = {}

\* The files of unix listeners are there while somebody listens, and are gone
\* after every stop that runs the callbacks.
FilesExact == FilesStay /\ CleanStopRestarts

\* A shut-down ends, also for workers that were still starting when SIGTERM
\* arrived, or whose exit hooks fail (worker.c:430-491).
ShutdownEnds == pm = "stopping" ~> pm = "down"

\* The last worker of a server whose postmaster has died learns of it through
\* its channel, or has stopped by then: no worker keeps a write end of its own
\* (ipc.c:234-275, 118-169).
OrphanNotices ==
    \A w \in Workers :
       Running(w) /\ pm = "down" /\ (\A v \in Workers \ {w} : ~Alive(v))
          ~> ~Running(w) \/ proc[w].chan[w] = 0

=============================================================================
