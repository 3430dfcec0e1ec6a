------------------------------ MODULE HttpConn ------------------------------
(***************************************************************************)
(* The connections of one worker: the pool of connection slots and the     *)
(* list of reusable connections (pg_rest_conn.c), and the life of an HTTP  *)
(* connection on top of them, from accept() over the init, header and      *)
(* lingering handlers to its close (pg_rest_http_request.c,                *)
(* pg_rest_http_v1.c). A worker is one thread: an action is one callback   *)
(* of libevent, run to its end.                                            *)
(***************************************************************************)
EXTENDS Naturals, FiniteSets, SequencesExt

CONSTANTS
    Conns,      \* the slots left once the listeners and the channel have theirs
    Lingering   \* conf->lingering_close: "off", "on" or "always"

\* The anchor of the list of reusable connections, and the link of a slot that
\* was never on a list.
List == "pgrest_conn_reuse_conns"
Null == "NULL"
Nodes == Conns \cup {List}

ASSUME HttpConnAssumption ==
    /\ Conns # {} /\ IsFiniteSet(Conns)
    /\ List \notin Conns /\ Null \notin Conns
    /\ Lingering \in {"off", "on", "always"}

VARIABLES
    mem,    \* the memory of the worker: its slots and the heads of its two lists
    failed  \* event_add() has failed for an idle connection: history, for the
            \* properties only

vars == <<mem, failed>>

Handlers == {"none", "init", "header", "linger", "request"}

Memory ==
    [free     : Seq(Conns),          \* pgrest_conn_free_conns, linked through data
     no       : Nat,                 \* pgrest_conn_free_noconn
     next     : [Nodes -> Nodes \cup {Null}],   \* conn->elem and the head of
     prev     : [Nodes -> Nodes \cup {Null}],   \*   pgrest_conn_reuse_conns
     fd       : [Conns -> BOOLEAN],  \* conn->fd is an open socket (# -1)
     reusable : [Conns -> BOOLEAN],
     close    : [Conns -> BOOLEAN],
     handler  : [Conns -> Handlers], \* conn->rev_handler
     armed    : [Conns -> BOOLEAN],  \* conn->rev is pending
     pool     : [Conns -> BOOLEAN]]  \* the connection has a memory pool

Free == ToSet(mem.free)

\* The links that dlist_delete and dlist_push_head follow are never NULL.
Followed(m) ==
    /\ m.next[List] # Null /\ m.prev[List] # Null
    /\ \A c \in Conns : m.reusable[c] => m.next[c] # Null /\ m.prev[c] # Null

TypeOK == mem \in Memory /\ Followed(mem) /\ failed \in BOOLEAN

\* pgrest_conn_worker_init: every slot is free and has its two events; the list
\* of reusable connections is empty (DLIST_STATIC_INIT).
Init ==
    /\ mem = [free     |-> SetToSeq(Conns),
              no       |-> Cardinality(Conns),
              next     |-> [x \in Nodes |-> IF x = List THEN List ELSE Null],
              prev     |-> [x \in Nodes |-> IF x = List THEN List ELSE Null],
              fd       |-> [c \in Conns |-> FALSE],
              reusable |-> [c \in Conns |-> FALSE],
              close    |-> [c \in Conns |-> FALSE],
              handler  |-> [c \in Conns |-> "none"],
              armed    |-> [c \in Conns |-> FALSE],
              pool     |-> [c \in Conns |-> FALSE]]
    /\ failed = FALSE

-----------------------------------------------------------------------------
(* dlist_delete and dlist_push_head of PostgreSQL (lib/ilist.h): a circular *)
(* list, doubly linked, whose links are in the slots.                      *)

Delete(m, c) ==
    [m EXCEPT !.next[m.prev[c]] = m.next[c], !.prev[m.next[c]] = m.prev[c]]

PushHead(m, c) ==
    [m EXCEPT !.next[c] = m.next[List], !.prev[c] = List,
              !.prev[m.next[List]] = c, !.next[List] = c]

-----------------------------------------------------------------------------
(* pg_rest_conn.c: what a call makes of the memory.                        *)

\* Seeded fault: a connection is put on the list without being taken off first.
ReusableTwice(m, c, on) ==
    LET set == [m EXCEPT !.reusable[c] = on]
    IN  IF on THEN PushHead(set, c) ELSE set

\* pgrest_conn_reusable
Reusable(m, c, on) ==
    LET off == IF m.reusable[c] THEN Delete(m, c) ELSE m
        set == [off EXCEPT !.reusable[c] = on]
    IN  IF on THEN PushHead(set, c) ELSE set

\* Seeded fault: the link is read after MemSet has cleared it.
RestCleared(m) == <<>>

\* The free list without its head.
Rest(m) == Tail(m.free)

\* pgrest_conn_get of the head c of the free list. MemSet clears the whole slot,
\* its links included, whatever list it is on. (It clears the pointers to the
\* slot's two events too, with which no connection would ever be served: here a
\* slot keeps its events.)
Get(m, c) ==
    [m EXCEPT !.free = Rest(m), !.no = @ - 1,
              !.next[c] = Null, !.prev[c] = Null,
              !.reusable[c] = FALSE, !.close[c] = FALSE,
              !.handler[c] = "none", !.fd[c] = TRUE]

\* pgrest_conn_free, and the slot's socket closed.
GiveBack(m, c) ==
    [m EXCEPT !.free = <<c>> \o m.free, !.no = @ + 1, !.fd[c] = FALSE]

\* pgrest_conn_close: both events are removed, the slot leaves the list of
\* reusable connections. A slot without a socket is left alone.
ConnClose(m, c) ==
    IF m.fd[c]
    THEN GiveBack(Reusable([m EXCEPT !.armed[c] = FALSE], c, FALSE), c)
    ELSE m

\* pgrest_http_conn_close
HttpClose(m, c) == [ConnClose(m, c) EXCEPT !.pool[c] = FALSE]

\* Seeded fault: the slot is given back, the counter is not.
AcceptorCloseUncounted(m, c) ==
    [GiveBack(m, c) EXCEPT !.pool[c] = FALSE, !.no = @ - 1]

\* Seeded fault: the memory pool of a connection that fails is not destroyed.
AcceptorCloseLeaks(m, c) == GiveBack(m, c)

\* pgrest_acceptor_close_conn, for a connection that has no event yet.
AcceptorClose(m, c) == [GiveBack(m, c) EXCEPT !.pool[c] = FALSE]

-----------------------------------------------------------------------------
(* A new socket: pgrest_acceptor_accept_handler, then its listener's       *)
(* handler, pgrest_http_conn_init. The slot is the head of the free list,  *)
(* whatever that slot is linked to.                                        *)

\* The slot that pgrest_conn_get hands out.
Taking(c) == mem.free # <<>> /\ c = Head(mem.free)

\* The connection with its memory pool, ...
Accepted(c) == [Get(mem, c) EXCEPT !.pool[c] = TRUE]

\* ... and when pgrest_http_conn_init has put it on the reusable list.
Reused(c) == Reusable([Accepted(c) EXCEPT !.handler[c] = "init"], c, TRUE)

\* No slot is free: pgrest_conn_drain marks the reusable connection that has
\* waited longest (32 times the same one); the new socket is closed.
AcceptDrain ==
    /\ mem.free = <<>>
    /\ mem.next[List] # List
    /\ mem' = [mem EXCEPT !.close[mem.prev[List]] = TRUE]
    /\ UNCHANGED failed

\* pgrest_mpool_create fails: the connection has no pool to destroy.
AcceptNoPool(c) == Taking(c) /\ mem' = AcceptorClose(Get(mem, c), c)

\* No memory for an address, or the socket cannot be made non-blocking.
AcceptNoMemory(c) == Taking(c) /\ mem' = AcceptorClose(Accepted(c), c)

\* pgrest_http_conn_init: no memory, or getsockname() fails. The connection is
\* on no list yet.
InitNoMemory(c) == Taking(c) /\ mem' = HttpClose(Accepted(c), c)

\* ... event_assign() or event_add() fails: it is on the reusable list already.
InitNoEvent(c) == Taking(c) /\ mem' = HttpClose(Reused(c), c)

\* The connection waits for its first bytes, and may be reused until they come.
AcceptInit(c) == Taking(c) /\ mem' = [Reused(c) EXCEPT !.armed[c] = TRUE]

Accept(c) ==
    /\ UNCHANGED failed
    /\ \/ AcceptNoPool(c)
       \/ AcceptNoMemory(c)
       \/ InitNoMemory(c)
       \/ InitNoEvent(c)
       \/ AcceptInit(c)

-----------------------------------------------------------------------------
(* Read events. They are not persistent: the callback finds conn->rev no   *)
(* longer pending and adds it again if it wants more (armed stays).        *)

Fires(c, h) == mem.armed[c] /\ mem.handler[c] = h

\* A callback that ends by closing the connection: a time out, end of file,
\* a read error, no memory, conn->close set by a drain; in the header handler
\* also a buffer that cannot grow or an event that cannot be added.
Closes(c, h) == Fires(c, h) /\ mem' = HttpClose(mem, c)
InitCloses(c) == Closes(c, "init")
HeaderCloses(c) == Closes(c, "header")
LingerCloses(c) == Closes(c, "linger")

\* Seeded fault: the mark of a drain is not looked at.
InitReadsDrained(c) == Fires(c, "init")

\* pgrest_http_init_handler goes on to read: not timed out and not drained.
InitReads(c) == Fires(c, "init") /\ ~mem.close[c]

\* pgrest_http_init_handler, nothing to read yet: wait again, and move to the
\* head of the reusable list.
InitAgain(c) == InitReads(c) /\ mem' = Reusable(mem, c, TRUE)

\* ... nothing to read, and the event cannot be added: the connection is
\* closed, and what is now a free slot is put on the reusable list all the
\* same, for want of a return.
InitAgainFails(c) ==
    /\ InitReads(c)
    /\ mem' = Reusable(HttpClose(mem, c), c, TRUE)
    /\ failed' = TRUE

\* Seeded fault: the handler returns without adding its event again.
ReadOnDisarmed(m, c) == [m EXCEPT !.handler[c] = "header", !.armed[c] = FALSE]

\* The part of the two handlers that reads and parses the request line and the
\* headers. It ends with the connection waiting for more bytes, ...
ReadOn(m, c) == [m EXCEPT !.handler[c] = "header"]

\* ... with a complete request in the hands of pgrest_http_process_request (or an
\* HTTP/2 preface in those of pgrest_http_v2_conn_init), which at this commit does
\* nothing: no event of the connection is pending, ...
Complete(m, c) == [m EXCEPT !.handler[c] = "request", !.armed[c] = FALSE]

\* ... or in pgrest_http_finalize_connection (bad request, end of file, header
\* too large): pgrest_http_set_lingering_close, unless that is configured off;
\* the handler then reads and discards until the peer closes or time is up.
\* (Closing instead is InitCloses and HeaderCloses.)
Linger(m, c) == [m EXCEPT !.handler[c] = "linger"]

HandlesHead(m, c) ==
    \/ mem' = ReadOn(m, c)
    \/ mem' = Complete(m, c)
    \/ Lingering # "off" /\ mem' = Linger(m, c)

\* pgrest_http_init_handler with data: no longer reusable, a request is created
\* and the header handler called in the same callback.
InitData(c) == InitReads(c) /\ HandlesHead(Reusable(mem, c, FALSE), c)

\* pgrest_http_header_handler, called with more bytes.
HeaderData(c) == Fires(c, "header") /\ HandlesHead(mem, c)

Event(c) ==
    \/ InitAgainFails(c)
    \/ /\ UNCHANGED failed
       /\ \/ InitCloses(c)
          \/ InitAgain(c)
          \/ InitData(c)
          \/ HeaderData(c)
          \/ HeaderCloses(c)
          \/ LingerCloses(c)

Next ==
    \/ AcceptDrain
    \/ \E c \in Conns : Accept(c) \/ Event(c)

Spec == Init /\ [][Next]_vars

\* Every wait for a client is timed (post_accept_timeout, lingering_timeout),
\* so the event of an armed connection fires in the end.
FairSpec == Spec /\ \A c \in Conns : WF_vars(Event(c))

-----------------------------------------------------------------------------
(* Properties.                                                             *)

\* The free list, its counter, the sockets and the memory pools agree: no slot
\* is on the list twice, the counter the acceptor throttles on is its length,
\* and a slot is off the list exactly while it owns a socket and a memory pool,
\* on whichever path an accept fails (conn.c:47-48, 108-110, 113-135;
\* acceptor.c:106-124, 234-276; http_request.c:60-79, 153-170).
PoolSound ==
    /\ mem.no = Len(mem.free)
    /\ IsInjective(mem.free)
    /\ \A c \in Conns : mem.fd[c] = mem.pool[c] /\ mem.fd[c] = (c \notin Free)

\* The links of the members and the anchor make one ring, the same one in both
\* directions: it stays among them, and from the anchor it reaches all of them.
Ring(m, members) ==
    LET nodes == members \cup {List}
    IN  /\ \A x \in nodes :
              /\ m.next[x] \in nodes /\ m.prev[m.next[x]] = x
              /\ m.prev[x] \in nodes /\ m.next[m.prev[x]] = x
        /\ \A S \in SUBSET nodes :
              List \in S /\ (\A x \in S : m.next[x] \in S) => S = nodes

\* The open connections that wait for their first bytes.
Idle == {c \in Conns : mem.fd[c] /\ mem.handler[c] = "init"}

\* The list holds exactly the open connections that wait for their first bytes,
\* each once, and they are the ones marked reusable.
ListExact ==
    /\ Ring(mem, Idle)
    /\ \A c \in Conns : mem.fd[c] => mem.reusable[c] = (c \in Idle)

\* What a drain may pick: the list is exact, so that a request under way is never
\* the victim and an idle client never escapes (conn.c:70-78, 83-99; http_v1.c:602,
\* 619). It holds until event_add() fails for an idle connection: the handler then
\* puts a free slot on the list (http_v1.c:598-602), and the list may fall apart.
DrainSparesBusy == ~failed => ListExact

\* No connection is forgotten: one that is open has its read event pending, so
\* that bytes or the time out will reach it, unless its request is being
\* processed; and a free slot has no event that could fire on its next owner
\* (http_v1.c:153, 597, http_request.c:167, 528).
NoneForgotten ==
    \A c \in Conns :
       IF mem.fd[c] THEN mem.armed[c] \/ mem.handler[c] = "request" ELSE ~mem.armed[c]

\* The pool hands a slot to one connection at a time and takes it back once:
\* the handlers implement the abstract pool.
Abstract == INSTANCE SlotPool WITH Slots <- Conns, used <- Conns \ Free
ImplementsSlotPool == Abstract!Spec

\* A connection that a drain has marked is closed by its next event and does
\* not start a request (conn.c:75, http_v1.c:577), as long as the list of reusable
\* connections is intact.
DrainedCloses == \A c \in Conns : mem.close[c] /\ mem.fd[c] ~> ~mem.fd[c] \/ failed

=============================================================================
