-------------------------- MODULE LifecycleProofs ---------------------------
(***************************************************************************)
(* Proofs about Lifecycle, for any number of workers and listeners, any    *)
(* size of the pool and of the spare shared memory, and any number of      *)
(* starts.                                                                 *)
(***************************************************************************)
EXTENDS Lifecycle, ListFacts

-----------------------------------------------------------------------------
(* The inductive invariant.                                                *)

Clients == {Client(k) : k \in Nat}
Fds == AllListening \cup AllChannels \cup Clients
Inherited == AllListening \cup AllChannels
Phases == {"none", "start", "run", "exit"} \cup Ends
HookNames == {"connection", "listener", "acceptor", "ipc channel"}
SegmentNames == {"acceptor data", "worker stat"}
AllHooks == <<"connection", "listener", "acceptor", "ipc channel">>

Process ==
    [phase : Phases, at : 1..5, open : SUBSET Fds, fd : Seq(Fds \cup {NoFd}),
     free : Seq(Nat), lconn : [Listeners -> Nat], chan : [Workers -> Nat],
     term : BOOLEAN]

\* The steps of the postmaster before and after the library is loaded.
Loading == {"conn", "listener", "acceptor", "shm", "ipc", "worker"}
Loaded == {"shmem", "up", "crashed", "stopping"}

\* The values of the postmaster's variables at each of them.
MasterTypes ==
    /\ noconn \in PoolSizes /\ slack \in Slacks
    /\ starts \in 0..MaxStarts
    /\ pm \in Loading \cup Loaded \cup {"down"}
    /\ how \in {"new", "clean", "noipc", "noshm", "failed", "crash"}
    /\ registered \in BOOLEAN

HooksSound ==
    /\ hooks \in Seq(HookNames)
    /\ pm = "conn" => hooks = <<>>
    /\ pm = "listener" => hooks = <<"connection">>
    /\ pm = "acceptor" => hooks = <<"connection", "listener">>
    /\ pm \in {"shm", "ipc"} => hooks = <<"connection", "listener", "acceptor">>
    /\ pm \in {"worker"} \cup Loaded => hooks = AllHooks

SegsSound ==
    /\ segs \in Seq(SegmentNames) /\ requested \in Nat
    /\ pm \in {"conn", "listener", "acceptor"} => segs = <<>>
    /\ pm \in {"shm", "ipc", "worker"} => segs = <<"acceptor data">>
    /\ pm \in Loaded => segs = <<"acceptor data", "worker stat">>
    /\ pm \in {"ipc", "worker"} \cup Loaded => requested = 2

OpenSound ==
    /\ pm \in {"conn", "listener", "down"} => pmOpen = {}
    /\ pm \in {"acceptor", "shm", "ipc"} => pmOpen = AllListening
    /\ pm \in {"worker"} \cup Loaded => pmOpen = Inherited

FilesSound ==
    /\ files \subseteq Unix
    /\ pm \in {"acceptor", "shm", "ipc", "worker"} \cup Loaded => files = Unix
    /\ CleanStopRestarts

MasterSound ==
    MasterTypes /\ HooksSound /\ SegsSound /\ OpenSound /\ FilesSound /\ RoomForShm

\* The slots of a worker with n of them: the free list has exactly those without
\* a descriptor, and no two slots have the same.
Pool(p, n) ==
    /\ p.fd \in [1..n -> Fds \cup {NoFd}]
    /\ p.free \in Seq(1..n) /\ IsInjective(p.free)
    /\ \A s \in 1..n : s \in ToSet(p.free) <=> p.fd[s] = NoFd
    /\ \A s, t \in 1..n : p.fd[s] = p.fd[t] /\ p.fd[s] # NoFd => s = t

\* The descriptors that have a slot.
Held(p, n) == {f \in Fds : \E s \in 1..n : p.fd[s] = f}

ListenersSet(p, n) ==
    /\ p.lconn \in [Listeners -> 1..n]
    /\ \A l \in Listeners : p.fd[p.lconn[l]] = Listening(l)

\* pgrest_ipc_data[v].conn is NULL for no channel but the worker's own, and
\* leads to the slot with the end that the worker keeps.
ChannelsSet(p, w, n) ==
    /\ p.chan \in [Workers -> 0..n]
    /\ \A v \in Workers \ {w} : p.chan[v] # 0
    /\ \A v \in Workers : p.chan[v] # 0 => p.fd[p.chan[v]] = Kept(w, v)

\* No end of a channel is open that pgrest_ipc_data does not lead to.
ChannelsOpen(p, w) ==
    \A f \in p.open \cap AllChannels : \E v \in Workers : p.chan[v] # 0 /\ f = Kept(w, v)

\* A worker whose start-up hooks have all run.
Serving(p, w, n) ==
    /\ n >= Len(Kinds) + N
    /\ Pool(p, n) /\ p.open = Held(p, n)
    /\ ListenersSet(p, n) /\ ChannelsSet(p, w, n) /\ ChannelsOpen(p, w)

\* All the pointers are NULL.
NoListeners == [l \in Listeners |-> 0]
NoChannels == [v \in Workers |-> 0]

\* The start-up hooks that have run decide what is set up.
StartingSound(p, w, n) ==
    /\ p.at <= 4 => p.open = Inherited
    /\ p.at <= 2 => p.lconn = NoListeners
    /\ p.at <= 4 => p.chan = NoChannels
    /\ p.at = 1 => p.fd = <<>> /\ p.free = <<>>
    /\ p.at = 2 => Pool(p, n) /\ Held(p, n) = {} /\ Len(p.free) = n
    /\ p.at \in {3, 4} =>
          /\ Pool(p, n) /\ Held(p, n) = AllListening /\ ListenersSet(p, n)
          /\ n >= Len(Kinds) /\ Len(p.free) = n - Len(Kinds)
    /\ p.at = 5 => Serving(p, w, n) /\ p.chan[w] # 0

\* The shut-down hooks that have run decide what is left.
ExitingSound(p, w, n) ==
    /\ p.fd \in [1..n -> Fds \cup {NoFd}] /\ p.free \in Seq(1..n)
    /\ p.lconn \in [Listeners -> 1..n]
    /\ p.chan \in [Workers -> 0..n]
    /\ p.at \in {1, 2} => Serving(p, w, n)
    /\ p.at \in {3, 4} =>
          /\ ChannelsSet(p, w, n) /\ ChannelsOpen(p, w)
          /\ p.open \subseteq AllChannels \cup Clients
    /\ p.at = 5 => p.open \subseteq Clients

WorkerSound(p, w, n) ==
    /\ p \in Process
    /\ p.phase = "start" => StartingSound(p, w, n)
    /\ p.phase = "run" => p.at = 1 /\ Serving(p, w, n)
    /\ p.phase = "exit" => ExitingSound(p, w, n)
    /\ p.phase \notin {"start", "run", "exit"} => p = Ended(p.phase)
    /\ p.phase = "refused" => n < Len(Kinds) + N

\* There are worker processes only once the library is loaded, and a channel
\* whose other ends are all closed belongs to the last of them.
ServerSound ==
    /\ \A w \in Workers : Alive(w) =>
          hooks = AllHooks /\ pm \in {"up", "crashed", "stopping", "down"}
    /\ \A w \in Workers : Running(w) /\ proc[w].chan[w] = 0 =>
          pm = "down" /\ \A v \in Workers \ {w} : proc[v].phase \notin {"start", "run"}

WorkersSound == DOMAIN proc = Workers /\ \A w \in Workers : WorkerSound(proc[w], w, noconn)

LifeInv == MasterSound /\ WorkersSound /\ ServerSound

-----------------------------------------------------------------------------
(* The invariant reads only the slots, the descriptors and the place among 
   the hooks.                                                              *)

\* The slots of p and q are the same.
LEMMA SamePool ==
    ASSUME NEW n, NEW p, NEW q, q.fd = p.fd, q.free = p.free
    PROVE  /\ Pool(p, n) => Pool(q, n)
           /\ Held(q, n) = Held(p, n)
<1>1. Pool(p, n) => Pool(q, n)
  BY Zenon DEF Pool
<1>2. Held(q, n) = Held(p, n)
  BY Zenon DEF Held
<1> QED BY <1>1, <1>2

LEMMA SameListeners ==
    ASSUME NEW n, NEW p, NEW q, q.fd = p.fd, q.lconn = p.lconn, ListenersSet(p, n)
    PROVE  ListenersSet(q, n)
  BY Zenon DEF ListenersSet

\* The slots and descriptors of p and q are the same.
Same(p, q) ==
    /\ q.fd = p.fd /\ q.free = p.free /\ q.open = p.open
    /\ q.lconn = p.lconn /\ q.chan = p.chan

\* What is true of a serving worker is true when only its phase, its place among
\* the hooks or its signal changes.
LEMMA SameSlots ==
    ASSUME NEW n \in Nat, NEW w \in Workers, NEW p, NEW q, Same(p, q)
    PROVE  /\ Serving(p, w, n) => Serving(q, w, n)
           /\ ChannelsSet(p, w, n) => ChannelsSet(q, w, n)
           /\ ChannelsOpen(p, w) => ChannelsOpen(q, w)
           /\ q.at = p.at /\ StartingSound(p, w, n) => StartingSound(q, w, n)
           /\ q.at = p.at /\ ExitingSound(p, w, n) => ExitingSound(q, w, n)
<1>0. /\ q.fd = p.fd /\ q.free = p.free /\ q.open = p.open
      /\ q.lconn = p.lconn /\ q.chan = p.chan
  BY DEF Same
<1>1. Pool(p, n) => Pool(q, n)
  BY <1>0, SamePool, Zenon
<1>2. Held(q, n) = Held(p, n)
  BY <1>0, SamePool, Zenon
<1>3. ListenersSet(p, n) => ListenersSet(q, n)
  BY <1>0, SameListeners, Zenon
<1>4. ChannelsSet(p, w, n) => ChannelsSet(q, w, n)
  BY <1>0, Zenon DEF ChannelsSet
<1>5. ChannelsOpen(p, w) => ChannelsOpen(q, w)
  BY <1>0, Zenon DEF ChannelsOpen
<1>6. Serving(p, w, n) => Serving(q, w, n)
  BY <1>0, <1>1, <1>2, <1>3, <1>4, <1>5, Zenon DEF Serving
<1>7. q.at = p.at /\ StartingSound(p, w, n) => StartingSound(q, w, n)
  BY <1>0, <1>1, <1>2, <1>3, <1>6, Zenon DEF StartingSound
<1>8. q.at = p.at /\ ExitingSound(p, w, n) => ExitingSound(q, w, n)
  BY <1>0, <1>4, <1>5, <1>6, Zenon DEF ExitingSound
<1> QED BY <1>4, <1>5, <1>6, <1>7, <1>8

-----------------------------------------------------------------------------
(* Descriptors.                                                            *)

\* Descriptors of different kinds, workers or clients are different.
LEMMA FdFacts ==
    /\ NoFd \notin Fds
    /\ \A l \in Listeners : Listening(l) \in AllListening
    /\ \A w \in Workers : WriteEnd(w) \in AllChannels /\ ReadEnd(w) \in AllChannels
    /\ AllListening \cap AllChannels = {} /\ AllListening \cap Clients = {}
    /\ AllChannels \cap Clients = {}
    /\ \A l, m : Listening(l) = Listening(m) => l = m
    /\ \A v, w : WriteEnd(v) = WriteEnd(w) => v = w
    /\ \A v, w : ReadEnd(v) = ReadEnd(w) => v = w
    /\ \A v, w : WriteEnd(v) # ReadEnd(w)
    /\ \A j, k : Client(j) = Client(k) => j = k
    /\ \A f \in Fds : f[1] = "client" <=> f \in Clients
  BY DEF Fds, NoFd, AllListening, AllChannels, Clients, Listening, WriteEnd, ReadEnd, Client

-----------------------------------------------------------------------------
(* Slots.                                                                  *)

\* There are slots for the new descriptors fds of p.
Fits(p, fds, n) ==
    /\ fds \in Seq(Fds) /\ IsInjective(fds) /\ Len(fds) <= Len(p.free)
    /\ \A k \in DOMAIN fds : fds[k] \notin Held(p, n)

\* r is p with a slot for each of them.
Placed(p, fds, n, r) ==
    /\ r \in Process /\ Pool(r, n)
    /\ r.phase = p.phase /\ r.at = p.at /\ r.open = p.open /\ r.term = p.term
    /\ r.lconn = p.lconn /\ r.chan = p.chan
    /\ Len(r.free) = Len(p.free) - Len(fds)
    /\ \A k \in DOMAIN fds : p.free[k] \in 1..n /\ r.fd[p.free[k]] = fds[k]
    /\ \A s \in 1..n : p.fd[s] # NoFd => r.fd[s] = p.fd[s]
    /\ Held(r, n) = Held(p, n) \cup ToSet(fds)

\* pgrest_conn_get gives each new descriptor a slot of its own and leaves the
\* slots that are in use alone.
LEMMA GetFacts ==
    ASSUME NEW n \in Nat, NEW p \in Process, Pool(p, n), NEW fds, Fits(p, fds, n)
    PROVE  Placed(p, fds, n, ConnGet(p, fds))
<1>0. /\ fds \in Seq(Fds) /\ IsInjective(fds) /\ Len(fds) <= Len(p.free)
      /\ \A k \in DOMAIN fds : fds[k] \notin Held(p, n)
  BY DEF Fits
<1> DEFINE m == Len(fds)
           L == Len(p.free)
           taken == {k \in DOMAIN p.free : k <= Len(fds)}
           fd == [s \in DOMAIN p.fd |->
                     IF \E k \in taken : p.free[k] = s
                     THEN fds[CHOOSE k \in taken : p.free[k] = s]
                     ELSE p.fd[s]]
           free == SubSeq(p.free, m + 1, L)
           q == [p EXCEPT !.free = free, !.fd = fd]
<1>1. ConnGet(p, fds) = q
  <2>1. ~(Len(p.free) < Len(fds))
    BY <1>0 DEF Process
  <2> QED BY <2>1 DEF ConnGet
<1>2. /\ p.fd \in [1..n -> Fds \cup {NoFd}]
      /\ p.free \in Seq(1..n) /\ IsInjective(p.free)
      /\ \A s \in 1..n : s \in ToSet(p.free) <=> p.fd[s] = NoFd
      /\ \A s, t \in 1..n : p.fd[s] = p.fd[t] /\ p.fd[s] # NoFd => s = t
  BY DEF Pool
<1>3. m \in 0..L /\ L \in Nat /\ DOMAIN p.free = 1..L /\ DOMAIN fds = 1..m /\ taken = 1..m
  BY <1>0, <1>2
<1>4. /\ free \in Seq(1..n) /\ Len(free) = L - m /\ IsInjective(free)
      /\ \A x : x \in ToSet(free) <=> x \in ToSet(p.free) /\ ~\E k \in 1..m : p.free[k] = x
  <2>1. p.free \in Seq(1..n) /\ m \in 0..Len(p.free) /\ IsInjective(p.free)
    BY <1>2, <1>3
  <2> HIDE DEF m, fd, q, taken
  <2> QED BY <2>1, DropFacts
<1>5. \A k \in 1..m : p.free[k] \in 1..n /\ p.free[k] \in ToSet(p.free) /\ fds[k] \in Fds
  BY <1>0, <1>2, <1>3 DEF ToSet
<1>6. \A k \in 1..m : fd[p.free[k]] = fds[k]
  <2> SUFFICES ASSUME NEW k \in 1..m PROVE fd[p.free[k]] = fds[k]
    OBVIOUS
  <2>1. \A j \in taken : p.free[j] = p.free[k] => j = k
    BY <1>2, <1>3 DEF IsInjective
  <2>2. (CHOOSE j \in taken : p.free[j] = p.free[k]) = k
    BY <1>3, <2>1
  <2>3. p.free[k] \in DOMAIN p.fd
    BY <1>2, <1>5
  <2> QED BY <1>3, <2>2, <2>3
<1>7. \A s \in 1..n : (~\E k \in 1..m : p.free[k] = s) => fd[s] = p.fd[s]
  BY <1>2, <1>3
<1>8. DOMAIN fd = 1..n
  BY <1>2
<1> HIDE DEF fd, free, m, L, taken
<1>9. fd \in [1..n -> Fds \cup {NoFd}]
  <2>1. \A s \in 1..n : fd[s] \in Fds \cup {NoFd}
    <3> SUFFICES ASSUME NEW s \in 1..n PROVE fd[s] \in Fds \cup {NoFd}
      OBVIOUS
    <3>1. CASE \E k \in 1..m : p.free[k] = s
      BY <1>5, <1>6, <3>1
    <3>2. CASE ~\E k \in 1..m : p.free[k] = s
      BY <1>2, <1>7, <3>2
    <3> QED BY <3>1, <3>2
  <2>2. fd = [s \in 1..n |-> fd[s]]
    BY <1>8 DEF fd
  <2> QED BY <2>1, <2>2
<1>10. q \in Process /\ q.fd = fd /\ q.free = free
  <2>1. fd \in Seq(Fds \cup {NoFd})
    BY <1>9
  <2>2. free \in Seq(Nat)
    BY <1>4
  <2> QED BY <2>1, <2>2 DEF Process
<1>11. \A s \in 1..n : p.fd[s] # NoFd => fd[s] = p.fd[s] /\ ~\E k \in 1..m : p.free[k] = s
  BY <1>2, <1>5, <1>7
<1>12. \A s \in 1..n : s \in ToSet(free) <=> fd[s] = NoFd
  <2> SUFFICES ASSUME NEW s \in 1..n PROVE s \in ToSet(free) <=> fd[s] = NoFd
    OBVIOUS
  <2>1. CASE \E k \in 1..m : p.free[k] = s
    <3>1. PICK k \in 1..m : p.free[k] = s
      BY <2>1
    <3>2. fd[s] \in Fds
      BY <1>5, <1>6, <3>1
    <3> QED BY <1>4, <2>1, <3>2, FdFacts
  <2>2. CASE ~\E k \in 1..m : p.free[k] = s
    BY <1>2, <1>4, <1>7, <2>2
  <2> QED BY <2>1, <2>2
<1>13. \A s \in 1..n : \/ p.fd[s] # NoFd /\ fd[s] = p.fd[s]
                      \/ fd[s] = NoFd
                      \/ \E k \in 1..m : s = p.free[k] /\ fd[s] = fds[k]
  BY <1>6, <1>7
<1>14. ASSUME NEW s \in 1..n, NEW t \in 1..n, fd[s] = fd[t], fd[s] # NoFd PROVE s = t
  <2>1. \A k \in 1..m : \A x \in 1..n : p.fd[x] # fds[k]
    BY <1>0, <1>3, <1>5 DEF Held
  <2>2. \A j, k \in 1..m : fds[j] = fds[k] => j = k
    BY <1>0, <1>3 DEF IsInjective
  <2>3. CASE p.fd[s] # NoFd /\ fd[s] = p.fd[s]
    <3>1. ~\E k \in 1..m : t = p.free[k] /\ fd[t] = fds[k]
      BY <1>14, <2>1, <2>3
    <3>2. p.fd[t] # NoFd /\ fd[t] = p.fd[t]
      BY <1>13, <1>14, <3>1
    <3> QED BY <1>2, <1>14, <2>3, <3>2
  <2>4. CASE \E k \in 1..m : s = p.free[k] /\ fd[s] = fds[k]
    <3>1. PICK k \in 1..m : s = p.free[k] /\ fd[s] = fds[k]
      BY <2>4
    <3>2. ~(p.fd[t] # NoFd /\ fd[t] = p.fd[t])
      BY <1>14, <2>1, <3>1
    <3>3. PICK j \in 1..m : t = p.free[j] /\ fd[t] = fds[j]
      BY <1>13, <1>14, <3>2
    <3> QED BY <1>14, <2>2, <3>1, <3>3
  <2> QED BY <1>13, <1>14, <2>3, <2>4
<1>15. Pool(q, n)
  BY <1>4, <1>9, <1>10, <1>12, <1>14 DEF Pool
<1>16. Held(q, n) = Held(p, n) \cup ToSet(fds)
  <2>1. ToSet(fds) = {fds[k] : k \in 1..m}
    BY <1>3 DEF ToSet
  <2>2. ASSUME NEW f \in Fds, NEW s \in 1..n, fd[s] = f
        PROVE  f \in Held(p, n) \/ \E k \in 1..m : f = fds[k]
    BY <1>13, <2>2, FdFacts DEF Held
  <2>3. ASSUME NEW f \in Held(p, n) PROVE \E s \in 1..n : fd[s] = f
    BY <1>11, FdFacts DEF Held
  <2>4. ASSUME NEW k \in 1..m PROVE fds[k] \in Fds /\ \E s \in 1..n : fd[s] = fds[k]
    BY <1>5, <1>6
  <2>5. Held(q, n) = {f \in Fds : \E s \in 1..n : fd[s] = f}
    BY <1>10 DEF Held
  <2>6. Held(p, n) \subseteq Fds
    BY DEF Held
  <2> QED BY <2>1, <2>2, <2>3, <2>4, <2>5, <2>6
<1>17. /\ q.phase = p.phase /\ q.at = p.at /\ q.open = p.open /\ q.term = p.term
       /\ q.lconn = p.lconn /\ q.chan = p.chan
  BY DEF Process
<1> HIDE DEF q
<1>18. /\ q.fd = fd /\ q.free = free /\ Len(free) = L - m
       /\ \A k \in DOMAIN fds : p.free[k] \in 1..n /\ q.fd[p.free[k]] = fds[k]
  BY <1>3, <1>4, <1>5, <1>6, <1>10
<1> QED BY <1>1, <1>10, <1>11, <1>15, <1>16, <1>17, <1>18 DEF L, m, Placed

\* r is p with the descriptor of slot c closed and the slot free.
Given(p, c, n, r) ==
    /\ r \in Process /\ Pool(r, n)
    /\ r.phase = p.phase /\ r.at = p.at /\ r.term = p.term
    /\ r.lconn = p.lconn /\ r.chan = p.chan
    /\ r.open = p.open \ {p.fd[c]}
    /\ \A s \in 1..n \ {c} : r.fd[s] = p.fd[s]
    /\ Held(r, n) = Held(p, n) \ {p.fd[c]}

\* pgrest_conn_close takes the descriptor from one slot, closes it and frees the
\* slot.
LEMMA CloseFacts ==
    ASSUME NEW n \in Nat, NEW p \in Process, Pool(p, n),
           NEW c \in 1..n, p.fd[c] # NoFd
    PROVE  Given(p, c, n, ConnClose(p, c))
<1> DEFINE free == <<c>> \o p.free
           fd == [p.fd EXCEPT ![c] = NoFd]
           open == p.open \ {p.fd[c]}
           q == [p EXCEPT !.fd = fd, !.free = free, !.open = open]
<1>1. ConnClose(p, c) = q
  BY DEF ConnClose, Process
<1>2. /\ p.fd \in [1..n -> Fds \cup {NoFd}]
      /\ p.free \in Seq(1..n) /\ IsInjective(p.free)
      /\ \A s \in 1..n : s \in ToSet(p.free) <=> p.fd[s] = NoFd
      /\ \A s, t \in 1..n : p.fd[s] = p.fd[t] /\ p.fd[s] # NoFd => s = t
  BY DEF Pool
<1>3. free \in Seq(1..n) /\ IsInjective(free) /\ ToSet(free) = ToSet(p.free) \cup {c}
  <2>1. c \notin ToSet(p.free)
    BY <1>2
  <2> QED BY <1>2, <2>1, PushFacts
<1>4. /\ fd \in [1..n -> Fds \cup {NoFd}] /\ fd[c] = NoFd
      /\ \A s \in 1..n \ {c} : fd[s] = p.fd[s]
  BY <1>2
<1> HIDE DEF free, fd, open
<1>5. q \in Process /\ q.fd = fd /\ q.free = free /\ q.open = open
  <2>1. fd \in Seq(Fds \cup {NoFd}) /\ free \in Seq(Nat) /\ open \in SUBSET Fds
    BY <1>3, <1>4 DEF Process, open
  <2> QED BY <2>1 DEF Process
<1>6. Pool(q, n)
  <2>1. \A s \in 1..n : s \in ToSet(free) <=> fd[s] = NoFd
    BY <1>2, <1>3, <1>4
  <2>2. \A s, t \in 1..n : fd[s] = fd[t] /\ fd[s] # NoFd => s = t
    BY <1>2, <1>4
  <2> QED BY <1>3, <1>4, <1>5, <2>1, <2>2 DEF Pool
<1>7. Held(q, n) = Held(p, n) \ {p.fd[c]}
  <2>1. Held(q, n) = {f \in Fds : \E s \in 1..n : fd[s] = f}
    BY <1>5 DEF Held
  <2>2. ASSUME NEW f \in Fds, NEW s \in 1..n, fd[s] = f
        PROVE  f \in Held(p, n) /\ f # p.fd[c]
    BY <1>2, <1>4, <2>2, FdFacts DEF Held
  <2>3. ASSUME NEW f \in Held(p, n), f # p.fd[c] PROVE \E s \in 1..n : fd[s] = f
    BY <1>4, <2>3 DEF Held
  <2>4. Held(p, n) \subseteq Fds
    BY DEF Held
  <2> QED BY <2>1, <2>2, <2>3, <2>4
<1>8. /\ q.phase = p.phase /\ q.at = p.at /\ q.term = p.term
      /\ q.lconn = p.lconn /\ q.chan = p.chan
  BY DEF Process
<1> HIDE DEF q
<1> QED BY <1>1, <1>4, <1>5, <1>6, <1>7, <1>8 DEF open, Given

-----------------------------------------------------------------------------
(* The start-up hooks.                                                     *)

\* A process that is gone, or was refused for want of slots.
LEMMA EndedFacts ==
    /\ \A ph \in Ends \cup {"none"} :
          Ended(ph) \in Process /\ Ended(ph).phase = ph /\ Ended(ph).open = {}
    /\ \A ph \in (Ends \cup {"none"}) \ {"refused"} : \A w \in Workers : \A n \in Nat :
          WorkerSound(Ended(ph), w, n)
    /\ \A w \in Workers : \A n \in Nat :
          n < Len(Kinds) + N => WorkerSound(Ended("refused"), w, n)
<1>1. \A ph \in Ends \cup {"none"} :
         Ended(ph) \in Process /\ Ended(ph).phase = ph /\ Ended(ph).open = {}
  <2> SUFFICES ASSUME NEW ph \in Ends \cup {"none"}
               PROVE  Ended(ph) \in Process /\ Ended(ph).phase = ph /\ Ended(ph).open = {}
    OBVIOUS
  <2> DEFINE lconn == [l \in Listeners |-> 0]
             chan == [w \in Workers |-> 0]
  <2>1. Ended(ph) = [phase |-> ph, at |-> 1, open |-> {}, fd |-> <<>>, free |-> <<>>,
                     lconn |-> lconn, chan |-> chan, term |-> FALSE]
    BY DEF Ended
  <2>2. ph \in Phases /\ <<>> \in Seq(Fds \cup {NoFd}) /\ <<>> \in Seq(Nat)
    BY DEF Phases, Ends
  <2>3. lconn \in [Listeners -> Nat] /\ chan \in [Workers -> Nat]
    OBVIOUS
  <2> HIDE DEF lconn, chan
  <2> QED BY <2>1, <2>2, <2>3 DEF Process
<1>2. \A ph \in Ends \cup {"none"} : ph \notin {"start", "run", "exit"}
  BY DEF Ends
<1> QED BY <1>1, <1>2 DEF WorkerSound, Ends

\* pgrest_conn_worker_init.
LEMMA ConnStartFacts ==
    ASSUME noconn \in Nat, NEW p \in Process
    PROVE  LET q == ConnStart(p) IN
           /\ q.phase = p.phase /\ q.at = p.at /\ q.open = p.open /\ q.term = p.term
           /\ q.lconn = p.lconn /\ q.chan = p.chan
           /\ q \in Process /\ Pool(q, noconn) /\ Held(q, noconn) = {}
           /\ Len(q.free) = noconn
<1> DEFINE n == noconn
           fd == [s \in 1..n |-> NoFd]
           free == [s \in 1..n |-> s]
           q == [p EXCEPT !.fd = fd, !.free = free]
<1>1. ConnStart(p) = q
  BY DEF ConnStart
<1>2. fd \in [1..n -> Fds \cup {NoFd}] /\ fd \in Seq(Fds \cup {NoFd}) /\ \A s \in 1..n : fd[s] = NoFd
  OBVIOUS
<1>3. /\ free \in Seq(1..n) /\ free \in Seq(Nat) /\ Len(free) = n /\ DOMAIN free = 1..n
      /\ \A s \in 1..n : free[s] = s
  OBVIOUS
<1> HIDE DEF fd, free
<1>4. q \in Process /\ q.fd = fd /\ q.free = free
  BY <1>2, <1>3 DEF Process
<1>5. Pool(q, n)
  <2>1. IsInjective(free) /\ \A s \in 1..n : s \in ToSet(free)
    BY <1>3 DEF IsInjective, ToSet
  <2> QED BY <1>2, <1>3, <1>4, <2>1 DEF Pool
<1>6. Held(q, n) = {}
  BY <1>2, <1>4, FdFacts DEF Held
<1>7. /\ q.phase = p.phase /\ q.at = p.at /\ q.open = p.open /\ q.term = p.term
      /\ q.lconn = p.lconn /\ q.chan = p.chan
  BY DEF Process
<1> HIDE DEF q
<1> QED BY <1>1, <1>3, <1>4, <1>5, <1>6, <1>7

\* pgrest_listener_worker_init.
LEMMA ListenerStartFacts ==
    ASSUME NEW n \in Nat, NEW p \in Process, Pool(p, n), Held(p, n) = {},
           p.phase = "start", Len(p.free) = n
    PROVE  LET q == ListenerStart(p) IN
           IF n < Len(Kinds) THEN q = Ended("refused")
           ELSE /\ q.phase = p.phase /\ q.at = p.at /\ q.open = p.open /\ q.term = p.term
                /\ q.chan = p.chan
                /\ q \in Process /\ Pool(q, n) /\ Held(q, n) = AllListening
                /\ Len(q.free) = n - Len(Kinds)
                /\ ListenersSet(q, n)
<1> DEFINE M == Len(Kinds)
           fds == [l \in Listeners |-> Listening(l)]
           got == ConnGet(p, fds)
<1>0. M \in Nat /\ Listeners = 1..M
  BY LifecycleAssumption DEF Listeners
<1>1. /\ fds \in Seq(Fds) /\ Len(fds) = M /\ DOMAIN fds = Listeners
      /\ IsInjective(fds) /\ ToSet(fds) = AllListening
  <2>1. \A l \in Listeners : Listening(l) \in Fds
    BY FdFacts DEF Fds
  <2>2. fds \in Seq(Fds) /\ Len(fds) = M /\ DOMAIN fds = Listeners
    BY <1>0, <2>1
  <2>3. IsInjective(fds)
    BY FdFacts DEF IsInjective
  <2> QED BY <2>2, <2>3 DEF ToSet, AllListening
<1>2. CASE n < M
  <2>1. got = Ended("refused")
    <3> HIDE DEF fds
    <3> QED BY <1>1, <1>2 DEF ConnGet
  <2>2. ~Started(got)
    BY <2>1, EndedFacts DEF Started, Ends
  <2> QED BY <1>2, <2>1, <2>2 DEF ListenerStart
<1>3. CASE n >= M
  <2> HIDE DEF fds
  <2>1. Len(fds) <= Len(p.free) /\ \A k \in DOMAIN fds : fds[k] \notin Held(p, n)
    BY <1>0, <1>1, <1>3
  <2>2. Fits(p, fds, n)
    BY <1>1, <2>1 DEF Fits
  <2>3. Placed(p, fds, n, got)
    BY <2>2, GetFacts
  <2> HIDE DEF got
  <2>4. Started(got)
    BY <2>3 DEF Started, Placed
  <2> DEFINE lconn == [l \in Listeners |-> p.free[l]]
             q == [got EXCEPT !.lconn = lconn]
  <2>5. ListenerStart(p) = q
    BY <2>4 DEF ListenerStart, got, fds
  <2>6. /\ lconn \in [Listeners -> 1..n] /\ lconn \in [Listeners -> Nat]
        /\ \A l \in Listeners : got.fd[lconn[l]] = Listening(l)
    BY <1>1, <2>3 DEF fds, Placed
  <2> HIDE DEF lconn
  <2>7. q \in Process /\ q.fd = got.fd /\ q.free = got.free /\ q.lconn = lconn
    BY <2>3, <2>6 DEF Process, Placed
  <2>8. /\ q.phase = p.phase /\ q.at = p.at /\ q.open = p.open /\ q.term = p.term
        /\ q.chan = p.chan
    BY <2>3 DEF Process, Placed
  <2> HIDE DEF q
  <2>9. Pool(q, n) /\ Held(q, n) = AllListening /\ Len(q.free) = n - M
    BY <1>1, <2>3, <2>7 DEF Pool, Held, Placed
  <2>10. ListenersSet(q, n)
    BY <2>6, <2>7 DEF ListenersSet
  <2>11. ~(n < M)
    BY <1>0, <1>3
  <2> QED BY <2>5, <2>7, <2>8, <2>9, <2>10, <2>11
<1> QED BY <1>0, <1>2, <1>3

\* Every channel has its turn, once.
LEMMA OrderFacts ==
    ASSUME NEW w \in Workers
    PROVE  /\ Order(w) \in [Workers -> Workers]
           /\ \A j, k \in Workers : Order(w)[j] = Order(w)[k] => j = k
           /\ \A v \in Workers : \E k \in Workers : Order(w)[k] = v
<1>1. N \in Nat \ {0} /\ Workers = 1..N
  BY LifecycleAssumption DEF Workers
<1>2. \A k \in Workers : Order(w)[k] = IF k = N THEN w ELSE IF k < w THEN k ELSE k + 1
  BY DEF Order
<1>3. Order(w) \in [Workers -> Workers]
  BY <1>1 DEF Order
<1>4. \A j, k \in Workers : Order(w)[j] = Order(w)[k] => j = k
  BY <1>1, <1>2
<1>5. ASSUME NEW v \in Workers PROVE \E k \in Workers : Order(w)[k] = v
  <2>1. CASE v = w
    BY <1>1, <1>2, <2>1
  <2>2. CASE v < w
    BY <1>1, <1>2, <2>2
  <2>3. CASE v > w
    <3>1. v - 1 \in Workers /\ Order(w)[v - 1] = v
      BY <1>1, <1>2, <2>3
    <3> QED BY <3>1
  <2> QED BY <1>1, <2>1, <2>2, <2>3
<1> QED BY <1>3, <1>4, <1>5

\* The ends that worker w keeps are different, and each is the end of a channel.
LEMMA KeptFacts ==
    ASSUME NEW w \in Workers
    PROVE  /\ \A v \in Workers : Kept(w, v) \in AllChannels
           /\ \A u, v \in Workers : Kept(w, u) = Kept(w, v) => u = v
           /\ \A v \in Workers \ {w} : Kept(w, v) = WriteEnd(v)
           /\ Kept(w, w) = ReadEnd(w)
  BY FdFacts DEF Kept

\* pgrest_ipc_worker_init.
LEMMA IpcStartFacts ==
    ASSUME NEW n \in Nat, NEW p \in Process, NEW w \in Workers,
           Pool(p, n), Held(p, n) = AllListening, ListenersSet(p, n),
           p.phase = "start", p.open = Inherited,
           n >= Len(Kinds), Len(p.free) = n - Len(Kinds)
    PROVE  LET q == IpcStart(p, w) IN
           IF n < Len(Kinds) + N THEN q = Ended("refused")
           ELSE /\ q \in Process /\ q.phase = "start" /\ q.at = p.at
                /\ Serving(q, w, n) /\ q.chan[w] # 0
<1> DEFINE M == Len(Kinds)
           ends == {Kept(w, v) : v \in Workers}
           o == p.open \ ({ReadEnd(v) : v \in Workers \ {w}} \cup Own(w))
           p0 == [p EXCEPT !.open = o]
           fds == [k \in Workers |-> Kept(w, Order(w)[k])]
           got == ConnGet(p0, fds)
<1>0. M \in Nat /\ N \in Nat \ {0} /\ Workers = 1..N
  BY LifecycleAssumption DEF Workers
<1>1. o = AllListening \cup ends
  <2>1. ends \subseteq AllChannels
    BY KeptFacts
  <2>2. ends \cap ({ReadEnd(v) : v \in Workers \ {w}} \cup Own(w)) = {}
    BY FdFacts DEF Kept, Own
  <2>3. AllChannels \subseteq ends \cup ({ReadEnd(v) : v \in Workers \ {w}} \cup Own(w))
    BY DEF AllChannels, Kept, Own
  <2>4. AllListening \cap ({ReadEnd(v) : v \in Workers \ {w}} \cup Own(w)) = {}
    BY FdFacts DEF Own
  <2>5. p.open = AllListening \cup AllChannels
    BY DEF Inherited
  <2> QED BY <2>1, <2>2, <2>3, <2>4, <2>5
<1>2. /\ p0 \in Process /\ p0.open = o /\ p0.fd = p.fd /\ p0.free = p.free
      /\ p0.phase = "start" /\ p0.at = p.at /\ p0.lconn = p.lconn
  <2>1. o \in SUBSET Fds
    BY DEF Process
  <2> HIDE DEF o
  <2> QED BY <2>1 DEF Process
<1>3. IpcStart(p, w) = SetupHandler(p0, w)
  BY DEF IpcStart
<1>4. SetupHandler(p0, w) = IF Started(got) THEN [got EXCEPT !.chan = Channels(p0, w)] ELSE got
  BY DEF SetupHandler
<1> HIDE DEF p0, o
<1>5. Pool(p0, n) /\ Held(p0, n) = AllListening
  BY <1>2 DEF Pool, Held
<1>6. /\ fds \in Seq(Fds) /\ Len(fds) = N /\ DOMAIN fds = Workers
      /\ IsInjective(fds) /\ ToSet(fds) = ends
      /\ \A k \in Workers : fds[k] \in AllChannels
  <2>1. \A k \in Workers : Order(w)[k] \in Workers /\ fds[k] = Kept(w, Order(w)[k])
    BY OrderFacts
  <2>2. \A k \in Workers : fds[k] \in AllChannels
    BY <2>1, KeptFacts
  <2>3. DOMAIN fds = Workers /\ fds \in Seq(Fds) /\ Len(fds) = N
    <3>1. \A k \in Workers : Kept(w, Order(w)[k]) \in Fds
      BY <2>1, KeptFacts DEF Fds
    <3> QED BY <1>0, <3>1
  <2> HIDE DEF fds
  <2>4. IsInjective(fds)
    <3> SUFFICES ASSUME NEW j \in Workers, NEW k \in Workers, fds[j] = fds[k] PROVE j = k
      BY <2>3 DEF IsInjective
    <3>1. Order(w)[j] = Order(w)[k]
      BY <2>1, KeptFacts
    <3> QED BY <3>1, OrderFacts
  <2>5. ToSet(fds) = ends
    <3>1. \A k \in Workers : fds[k] \in ends
      BY <2>1
    <3>2. ASSUME NEW v \in Workers PROVE \E k \in Workers : fds[k] = Kept(w, v)
      <4>1. PICK k \in Workers : Order(w)[k] = v
        BY OrderFacts
      <4> QED BY <2>1, <4>1
    <3> QED BY <2>3, <3>1, <3>2 DEF ToSet
  <2> QED BY <2>2, <2>3, <2>4, <2>5
<1> HIDE DEF fds
<1>7. CASE n < M + N
  <2>1. Len(p0.free) < Len(fds)
    BY <1>0, <1>2, <1>6, <1>7
  <2>2. got = Ended("refused")
    BY <2>1 DEF ConnGet
  <2>3. ~Started(got)
    BY <2>2, EndedFacts DEF Started, Ends
  <2> QED BY <1>3, <1>4, <1>7, <2>2, <2>3
<1>8. CASE n >= M + N
  <2>1. Fits(p0, fds, n)
    <3>1. Len(fds) <= Len(p0.free)
      BY <1>0, <1>2, <1>6, <1>8
    <3>2. \A k \in DOMAIN fds : fds[k] \notin Held(p0, n)
      BY <1>5, <1>6, FdFacts
    <3> QED BY <1>6, <3>1, <3>2 DEF Fits
  <2>2. Placed(p0, fds, n, got)
    BY <1>2, <1>5, <2>1, GetFacts
  <2> HIDE DEF got
  <2>3. /\ got \in Process /\ Pool(got, n) /\ got.phase = "start" /\ got.at = p.at
        /\ got.open = o /\ got.lconn = p.lconn
        /\ \A k \in Workers : p0.free[k] \in 1..n /\ got.fd[p0.free[k]] = fds[k]
        /\ \A s \in 1..n : p.fd[s] # NoFd => got.fd[s] = p.fd[s]
        /\ Held(got, n) = AllListening \cup ends
    BY <1>2, <1>5, <1>6, <2>2 DEF Placed
  <2> DEFINE chan == Channels(p0, w)
             q == [got EXCEPT !.chan = chan]
  <2>4. IpcStart(p, w) = q
    BY <1>3, <1>4, <2>3 DEF Started
  <2>5. /\ chan \in [Workers -> 1..n] /\ chan \in [Workers -> Nat] /\ chan \in [Workers -> 0..n]
        /\ \A v \in Workers : got.fd[chan[v]] = Kept(w, v)
    <3>1. ASSUME NEW v \in Workers
          PROVE  chan[v] \in 1..n /\ got.fd[chan[v]] = Kept(w, v)
      <4> DEFINE k == CHOOSE j \in Workers : Order(w)[j] = v
      <4>1. k \in Workers /\ Order(w)[k] = v
        BY OrderFacts
      <4>2. chan[v] = p0.free[k]
        BY DEF Channels
      <4> HIDE DEF k, chan
      <4>3. fds[k] = Kept(w, v)
        BY <4>1 DEF fds
      <4> QED BY <2>3, <4>1, <4>2, <4>3
    <3>2. chan = [v \in Workers |-> chan[v]]
      BY DEF Channels
    <3> HIDE DEF chan
    <3> QED BY <3>1, <3>2
  <2> HIDE DEF chan
  <2>6. /\ q \in Process /\ q.fd = got.fd /\ q.free = got.free /\ q.lconn = p.lconn
        /\ q.chan = chan /\ q.open = o /\ q.phase = "start" /\ q.at = p.at
    BY <2>3, <2>5 DEF Process
  <2> HIDE DEF q
  <2>7. Pool(q, n) /\ q.open = Held(q, n)
    <3>1. Pool(q, n) /\ Held(q, n) = Held(got, n)
      BY <2>3, <2>6 DEF Pool, Held
    <3> QED BY <1>1, <2>3, <2>6, <3>1
  <2>8. ListenersSet(q, n)
    <3>1. \A l \in Listeners : p.fd[p.lconn[l]] = Listening(l) /\ p.lconn[l] \in 1..n
      BY DEF ListenersSet
    <3>2. \A l \in Listeners : Listening(l) # NoFd
      BY FdFacts DEF Fds
    <3>3. \A l \in Listeners : q.fd[q.lconn[l]] = Listening(l)
      BY <2>3, <2>6, <3>1, <3>2
    <3> QED BY <2>6, <3>3 DEF ListenersSet
  <2>9. ChannelsSet(q, w, n) /\ q.chan[w] # 0
    BY <2>5, <2>6 DEF ChannelsSet
  <2>10. ChannelsOpen(q, w)
    <3>1. ASSUME NEW f \in q.open \cap AllChannels
          PROVE  \E v \in Workers : q.chan[v] # 0 /\ f = Kept(w, v)
      <4>1. f \in ends
        BY <1>1, <2>6, FdFacts
      <4> QED BY <2>5, <2>6, <4>1
    <3> QED BY <3>1 DEF ChannelsOpen
  <2>11. ~(n < M + N)
    BY <1>0, <1>8
  <2> QED BY <1>8, <2>4, <2>6, <2>7, <2>8, <2>9, <2>10, <2>11 DEF Serving
<1> QED BY <1>0, <1>7, <1>8

\* The hooks in the order of _PG_init.
LEMMA HookFacts ==
    /\ AllHooks[1] = "connection" /\ AllHooks[2] = "listener"
    /\ AllHooks[3] = "acceptor" /\ AllHooks[4] = "ipc channel"
    /\ Len(AllHooks) = 4
  BY DEF AllHooks

\* A start-up hook does its part or refuses the worker.
LEMMA StartHookFacts ==
    ASSUME noconn \in Nat, hooks = AllHooks, NEW w \in Workers, NEW p,
           WorkerSound(p, w, noconn), p.phase = "start", p.at <= 4,
           NEW q, q = Startup(hooks[p.at], p, w),
           NEW r, r = IF Started(q) THEN [q EXCEPT !.at = @ + 1] ELSE q
    PROVE  WorkerSound(r, w, noconn) /\ r.phase \in {"start", "refused"}
<1> DEFINE n == noconn
           M == Len(Kinds)
<1>0. /\ p \in Process /\ StartingSound(p, w, n) /\ p.at \in 1..4
      /\ p.open = Inherited /\ p.chan = NoChannels
      /\ M \in Nat /\ N \in Nat
  BY LifecycleAssumption DEF WorkerSound, StartingSound, Process
<1>1. CASE ~Started(q) /\ q = Ended("refused") /\ n < M + N
  BY <1>1, EndedFacts DEF Ends
<1>2. ASSUME Started(q), q \in Process, q.at = p.at
      PROVE  /\ r \in Process /\ r.phase = "start" /\ r.at = p.at + 1
             /\ r.open = q.open /\ r.fd = q.fd /\ r.free = q.free
             /\ r.lconn = q.lconn /\ r.chan = q.chan
  <2>1. r = [q EXCEPT !.at = q.at + 1] /\ q.at + 1 \in 1..5 /\ q.phase = "start"
    BY <1>0, <1>2 DEF Started
  <2> QED BY <1>2, <2>1 DEF Process
<1>3. ASSUME Started(q), q \in Process, q.at = p.at, StartingSound(r, w, n)
      PROVE  WorkerSound(r, w, n) /\ r.phase \in {"start", "refused"}
  BY <1>2, <1>3 DEF WorkerSound
<1>4. CASE p.at = 1
  <2>0. hooks[p.at] = "connection"
    BY <1>4, HookFacts
  <2>1. q = ConnStart(p)
    BY <2>0 DEF Startup
  <2>2. /\ q.phase = p.phase /\ q.at = p.at /\ q.open = p.open
        /\ q.lconn = p.lconn /\ q.chan = p.chan
        /\ q \in Process /\ Pool(q, n) /\ Held(q, n) = {} /\ Len(q.free) = n
    BY <1>0, <2>1, ConnStartFacts
  <2>3. Started(q)
    BY <2>2 DEF Started
  <2>4. /\ r.at = 2 /\ r.open = q.open /\ r.fd = q.fd /\ r.free = q.free
        /\ r.lconn = q.lconn /\ r.chan = q.chan
    BY <1>2, <1>4, <2>2, <2>3
  <2>5. Pool(r, n) /\ Held(r, n) = {} /\ Len(r.free) = n
    <3>1. r.fd = q.fd /\ r.free = q.free
      BY <2>4
    <3>2. (Pool(q, n) => Pool(r, n)) /\ Held(r, n) = Held(q, n)
      BY <3>1, SamePool, Zenon
    <3>3. Pool(q, n) /\ Held(q, n) = {} /\ Len(q.free) = n
      BY <2>2
    <3> QED BY <3>1, <3>2, <3>3, Zenon
  <2>6. p.lconn = NoListeners
    BY <1>0, <1>4 DEF StartingSound
  <2>7. StartingSound(r, w, n)
    BY <1>0, <2>2, <2>4, <2>5, <2>6, SMTT(30) DEF StartingSound
  <2> QED BY <1>3, <2>2, <2>3, <2>7
<1>5. CASE p.at = 2
  <2>0. hooks[p.at] = "listener"
    BY <1>5, HookFacts
  <2>1. q = ListenerStart(p)
    BY <2>0 DEF Startup
  <2>2. Pool(p, n) /\ Held(p, n) = {} /\ Len(p.free) = n
    BY <1>0, <1>5 DEF StartingSound
  <2>3. IF n < M THEN q = Ended("refused")
        ELSE /\ q.phase = p.phase /\ q.at = p.at /\ q.open = p.open /\ q.chan = p.chan
             /\ q \in Process /\ Pool(q, n) /\ Held(q, n) = AllListening
             /\ Len(q.free) = n - M /\ ListenersSet(q, n)
    BY <1>0, <2>1, <2>2, ListenerStartFacts
  <2>4. CASE n < M
    <3>1. q = Ended("refused") /\ n < M + N
      BY <1>0, <2>3, <2>4
    <3>2. ~Started(q)
      BY <3>1, EndedFacts DEF Started, Ends
    <3> QED BY <1>1, <3>1, <3>2
  <2>5. CASE ~(n < M)
    <3>1. Started(q)
      BY <2>3, <2>5 DEF Started
    <3>2. /\ r.at = 3 /\ r.open = q.open /\ r.fd = q.fd /\ r.free = q.free
          /\ r.lconn = q.lconn /\ r.chan = q.chan
      BY <1>2, <1>5, <2>3, <2>5, <3>1
    <3>3. Pool(r, n) /\ Held(r, n) = AllListening /\ Len(r.free) = n - M /\ ListenersSet(r, n)
      <4>1. r.fd = q.fd /\ r.free = q.free /\ r.lconn = q.lconn
        BY <3>2
      <4>2. (Pool(q, n) => Pool(r, n)) /\ Held(r, n) = Held(q, n)
        BY <4>1, SamePool, Zenon
      <4>3. Pool(q, n) /\ Held(q, n) = AllListening /\ Len(q.free) = n - M /\ ListenersSet(q, n)
        BY <2>3, <2>5
      <4>4. ListenersSet(r, n)
        BY <4>1, <4>3, SameListeners, Zenon
      <4> QED BY <4>1, <4>2, <4>3, <4>4, Zenon
    <3>4. n >= M
      BY <1>0, <2>5
    <3>5. StartingSound(r, w, n)
      BY <1>0, <2>3, <2>5, <3>2, <3>3, <3>4 DEF StartingSound
    <3> QED BY <1>3, <2>3, <2>5, <3>1, <3>5
  <2> QED BY <2>4, <2>5
<1>6. CASE p.at = 3
  <2>0. hooks[p.at] = "acceptor"
    BY <1>6, HookFacts
  <2>1. q = p
    BY <2>0 DEF Startup
  <2>2. Started(q)
    BY <2>1 DEF Started
  <2>3. /\ r.at = 4 /\ r.open = p.open /\ r.fd = p.fd /\ r.free = p.free
        /\ r.lconn = p.lconn /\ r.chan = p.chan
    BY <1>0, <1>2, <1>6, <2>1, <2>2
  <2>4. /\ Pool(r, n) /\ Held(r, n) = AllListening /\ ListenersSet(r, n)
        /\ n >= M /\ Len(r.free) = n - M
    <3>1. /\ Pool(p, n) /\ Held(p, n) = AllListening /\ ListenersSet(p, n)
          /\ n >= M /\ Len(p.free) = n - M
      BY <1>0, <1>6 DEF StartingSound
    <3>2. Pool(r, n) /\ Held(r, n) = Held(p, n)
      BY <2>3, <3>1, SamePool
    <3>3. ListenersSet(r, n)
      BY <2>3, <3>1 DEF ListenersSet
    <3> QED BY <2>3, <3>1, <3>2, <3>3
  <2>5. StartingSound(r, w, n)
    BY <1>0, <2>3, <2>4 DEF StartingSound
  <2> QED BY <1>0, <1>3, <2>1, <2>2, <2>5
<1>7. CASE p.at = 4
  <2>0. hooks[p.at] = "ipc channel"
    BY <1>7, HookFacts
  <2>1. q = IpcStart(p, w)
    BY <2>0 DEF Startup
  <2>2. /\ Pool(p, n) /\ Held(p, n) = AllListening /\ ListenersSet(p, n)
        /\ n >= M /\ Len(p.free) = n - M
    BY <1>0, <1>7 DEF StartingSound
  <2>3. IF n < M + N THEN q = Ended("refused")
        ELSE /\ q \in Process /\ q.phase = "start" /\ q.at = p.at
             /\ Serving(q, w, n) /\ q.chan[w] # 0
    BY <1>0, <2>1, <2>2, IpcStartFacts
  <2>4. CASE n < M + N
    <3>1. ~Started(q)
      BY <2>3, <2>4, EndedFacts DEF Started, Ends
    <3> QED BY <1>1, <2>3, <2>4, <3>1
  <2>5. CASE ~(n < M + N)
    <3>1. Started(q)
      BY <2>3, <2>5 DEF Started
    <3>2. /\ r.at = 5 /\ r.open = q.open /\ r.fd = q.fd /\ r.free = q.free
          /\ r.lconn = q.lconn /\ r.chan = q.chan
      BY <1>2, <1>7, <2>3, <2>5, <3>1
    <3>3. Serving(r, w, n) /\ r.chan[w] # 0
      <4>1. Same(q, r)
        BY <3>2, Zenon DEF Same
      <4>2. Serving(q, w, n) /\ q.chan[w] # 0
        BY <2>3, <2>5, Zenon
      <4> QED BY <1>0, <3>2, <4>1, <4>2, SameSlots
    <3>4. StartingSound(r, w, n)
      BY <3>2, <3>3 DEF StartingSound
    <3> QED BY <1>3, <2>3, <2>5, <3>1, <3>4
  <2> QED BY <2>4, <2>5
<1> QED BY <1>0, <1>4, <1>5, <1>6, <1>7

-----------------------------------------------------------------------------
(* The main loop.                                                          *)

\* While a slot is free there is a descriptor for one more client.
LEMMA FreshClient ==
    ASSUME NEW n \in Nat, NEW p, Pool(p, n), p.free # <<>>
    PROVE  \E k \in 1..n : Client(k) \notin Held(p, n)
<1> SUFFICES ASSUME \A k \in 1..n : Client(k) \in Held(p, n) PROVE FALSE
  OBVIOUS
<1> DEFINE g == [k \in 1..n |-> CHOOSE s \in 1..n : p.fd[s] = Client(k)]
<1>1. \A k \in 1..n : g[k] \in 1..n /\ p.fd[g[k]] = Client(k)
  BY DEF Held
<1>2. g \in [1..n -> 1..n]
  BY <1>1
<1> HIDE DEF g
<1>3. \A j, k \in 1..n : g[j] = g[k] => j = k
  BY <1>1, FdFacts
<1>4. g \in Injection(1..n, 1..n)
  BY <1>2, <1>3 DEF Injection, IsInjective
<1>5. IsFiniteSet(1..n)
  BY FS_Interval
<1>6. g \in Surjection(1..n, 1..n)
  BY <1>4, <1>5, FS_Injection
<1>7. Head(p.free) \in 1..n /\ Head(p.free) \in ToSet(p.free)
  BY PopFacts DEF Pool
<1>8. p.fd[Head(p.free)] = NoFd
  BY <1>7 DEF Pool
<1>9. PICK k \in 1..n : g[k] = Head(p.free)
  BY <1>6, <1>7 DEF Surjection
<1>10. Client(k) \in Fds
  BY <1>9 DEF Fds, Clients
<1> QED BY <1>1, <1>8, <1>9, <1>10, FdFacts

\* A worker that has accepted a client.
Accepted(p) ==
    LET f == Client(NextClient(p))
        got == ConnGet(p, <<f>>)
    IN  [got EXCEPT !.open = got.open \cup {f}]

\* An accepted client gets a slot.
LEMMA AcceptFacts ==
    ASSUME noconn \in Nat, NEW w \in Workers, NEW p \in Process,
           Serving(p, w, noconn), p.free # <<>>, NEW q, q = Accepted(p)
    PROVE  /\ q \in Process /\ Serving(q, w, noconn)
           /\ q.phase = p.phase /\ q.at = p.at /\ q.chan = p.chan
<1> DEFINE n == noconn
           f == Client(NextClient(p))
           got == ConnGet(p, <<f>>)
<1>0. q = [got EXCEPT !.open = got.open \cup {f}]
  BY DEF Accepted
<1>1. /\ Pool(p, n) /\ p.open = Held(p, n) /\ n >= Len(Kinds) + N
      /\ ListenersSet(p, n) /\ ChannelsSet(p, w, n) /\ ChannelsOpen(p, w)
  BY DEF Serving
<1>2. f \in Clients /\ f \in Fds /\ f \notin Held(p, n)
  <2>1. NextClient(p) \in 1..n /\ Client(NextClient(p)) \notin p.open
    BY <1>1, FreshClient DEF NextClient
  <2> QED BY <1>1, <2>1 DEF Clients, Fds
<1>3. Fits(p, <<f>>, n)
  <2>1. p.free \in Seq(1..n) /\ p.free # <<>>
    BY <1>1 DEF Pool
  <2>2. Len(p.free) >= 1
    BY <2>1
  <2>3. <<f>> \in Seq(Fds) /\ IsInjective(<<f>>) /\ Len(<<f>>) = 1
    BY <1>2 DEF IsInjective
  <2>4. \A k \in DOMAIN <<f>> : <<f>>[k] = f
    OBVIOUS
  <2> QED BY <1>2, <2>1, <2>2, <2>3, <2>4 DEF Fits
<1>4. Placed(p, <<f>>, n, got)
  BY <1>1, <1>3, GetFacts
<1>5. ToSet(<<f>>) = {f}
  BY DEF ToSet
<1> HIDE DEF got, f
<1>6. /\ got \in Process /\ Pool(got, n) /\ got.phase = p.phase /\ got.at = p.at
      /\ got.open = p.open /\ got.lconn = p.lconn /\ got.chan = p.chan
      /\ \A s \in 1..n : p.fd[s] # NoFd => got.fd[s] = p.fd[s]
      /\ Held(got, n) = Held(p, n) \cup {f}
  BY <1>4, <1>5 DEF Placed
<1>7. /\ q \in Process /\ q.phase = p.phase /\ q.at = p.at /\ q.open = p.open \cup {f}
      /\ q.lconn = p.lconn /\ q.chan = p.chan /\ q.fd = got.fd /\ q.free = got.free
  <2> DEFINE o == got.open \cup {f}
  <2>2. o \in SUBSET Fds /\ o = p.open \cup {f}
    BY <1>2, <1>6 DEF Process
  <2> HIDE DEF o
  <2>3. q = [got EXCEPT !.open = o]
    BY <1>0 DEF o
  <2> QED BY <1>6, <2>2, <2>3 DEF Process
<1>8. Pool(q, n) /\ q.open = Held(q, n)
  <2>1. Pool(q, n) /\ Held(q, n) = Held(got, n)
    BY <1>6, <1>7, SamePool, Zenon
  <2> QED BY <1>1, <1>6, <1>7, <2>1
<1>9. ListenersSet(q, n)
  <2>1. \A l \in Listeners : p.fd[p.lconn[l]] = Listening(l) /\ p.lconn[l] \in 1..n
    BY <1>1 DEF ListenersSet
  <2>2. \A l \in Listeners : Listening(l) # NoFd
    BY FdFacts DEF Fds
  <2>3. \A l \in Listeners : q.fd[q.lconn[l]] = Listening(l)
    BY <1>6, <1>7, <2>1, <2>2
  <2> QED BY <1>1, <1>7, <2>3 DEF ListenersSet
<1>10. ChannelsSet(q, w, n)
  <2>1. ASSUME NEW v \in Workers, p.chan[v] # 0 PROVE q.fd[p.chan[v]] = Kept(w, v)
    <3>1. p.chan[v] \in 1..n /\ p.fd[p.chan[v]] = Kept(w, v)
      BY <1>1, <2>1 DEF ChannelsSet
    <3>2. Kept(w, v) # NoFd
      BY KeptFacts, FdFacts DEF Fds
    <3> QED BY <1>6, <1>7, <3>1, <3>2
  <2> QED BY <1>1, <1>7, <2>1 DEF ChannelsSet
<1>11. ChannelsOpen(q, w)
  <2>1. f \notin AllChannels
    BY <1>2, FdFacts
  <2> QED BY <1>1, <1>7, <2>1 DEF ChannelsOpen
<1> QED BY <1>1, <1>7, <1>8, <1>9, <1>10, <1>11 DEF Serving

\* The pointers to the slots that stay in use stay right when a slot is closed.
LEMMA GivenFacts ==
    ASSUME NEW n \in Nat, NEW w \in Workers, NEW p \in Process, Serving(p, w, n),
           NEW c \in 1..n, p.fd[c] \in Fds \ AllListening, NEW q, Given(p, c, n, q)
    PROVE  /\ Pool(q, n) /\ q.open = Held(q, n) /\ ListenersSet(q, n)
           /\ \A v \in Workers : p.chan[v] # 0 /\ p.chan[v] # c =>
                 q.chan[v] \in 1..n /\ q.fd[q.chan[v]] = Kept(w, v)
<1>1. Pool(q, n) /\ q.open = Held(q, n)
  BY DEF Given, Serving
<1>2. ListenersSet(q, n)
  <2>1. \A l \in Listeners : p.fd[p.lconn[l]] = Listening(l) /\ p.lconn[l] \in 1..n
    BY DEF Serving, ListenersSet
  <2>2. \A l \in Listeners : p.lconn[l] # c
    BY <2>1, FdFacts
  <2>3. \A l \in Listeners : q.fd[q.lconn[l]] = Listening(l)
    BY <2>1, <2>2 DEF Given
  <2>4. q.lconn \in [Listeners -> 1..n]
    BY DEF Given, Serving, ListenersSet
  <2> QED BY <2>3, <2>4 DEF ListenersSet
<1>3. ASSUME NEW v \in Workers, p.chan[v] # 0, p.chan[v] # c
      PROVE  q.chan[v] \in 1..n /\ q.fd[q.chan[v]] = Kept(w, v)
  <2>1. p.chan[v] \in 1..n /\ p.fd[p.chan[v]] = Kept(w, v)
    BY <1>3 DEF Serving, ChannelsSet
  <2> QED BY <1>3, <2>1 DEF Given
<1> QED BY <1>1, <1>2, <1>3

\* A client hangs up.
LEMMA HangupFacts ==
    ASSUME NEW n \in Nat, NEW w \in Workers, NEW p \in Process, Serving(p, w, n),
           NEW c \in DOMAIN p.fd, p.fd[c][1] = "client", NEW q, q = ConnClose(p, c)
    PROVE  /\ q \in Process /\ Serving(q, w, n)
           /\ q.phase = p.phase /\ q.at = p.at /\ q.chan = p.chan
<1>1. c \in 1..n /\ p.fd[c] \in Fds \cup {NoFd}
  BY DEF Serving, Pool
<1>2. p.fd[c] \in Clients /\ p.fd[c] # NoFd
  <2>1. p.fd[c] # NoFd
    BY DEF NoFd
  <2> QED BY <1>1, <2>1, FdFacts
<1>3. p.fd[c] \in Fds \ AllListening /\ p.fd[c] \notin AllChannels
  BY <1>1, <1>2, FdFacts
<1>4. Given(p, c, n, q)
  BY <1>1, <1>2, CloseFacts DEF Serving
<1>5. \A v \in Workers : p.chan[v] # c
  <2> SUFFICES ASSUME NEW v \in Workers, p.chan[v] = c PROVE FALSE
    OBVIOUS
  <2>1. p.fd[c] = Kept(w, v)
    BY <1>1 DEF Serving, ChannelsSet
  <2> QED BY <1>3, <2>1, KeptFacts
<1>6. /\ Pool(q, n) /\ q.open = Held(q, n) /\ ListenersSet(q, n)
      /\ \A v \in Workers : p.chan[v] # 0 => q.chan[v] \in 1..n /\ q.fd[q.chan[v]] = Kept(w, v)
  BY <1>1, <1>3, <1>4, <1>5, GivenFacts
<1>7. q.chan = p.chan /\ q.open = p.open \ {p.fd[c]}
  BY <1>4 DEF Given
<1>8. ChannelsSet(q, w, n)
  BY <1>6, <1>7 DEF Serving, ChannelsSet
<1>9. ChannelsOpen(q, w)
  BY <1>7 DEF Serving, ChannelsOpen
<1> QED BY <1>4, <1>6, <1>8, <1>9 DEF Given, Serving

\* The worker's own channel is closed.
LEMMA ReadFailedFacts ==
    ASSUME NEW n \in Nat, NEW w \in Workers, NEW p \in Process, Serving(p, w, n),
           p.chan[w] # 0, NEW q, q = ReadFailed(p, p.chan[w])
    PROVE  /\ q \in Process /\ Serving(q, w, n)
           /\ q.phase = p.phase /\ q.at = p.at
<1> DEFINE c == p.chan[w]
           r == ConnClose(p, c)
           chan == [v \in Workers |-> IF r.chan[v] = c THEN 0 ELSE r.chan[v]]
<1>1. c \in 1..n /\ p.fd[c] = ReadEnd(w)
  BY KeptFacts DEF Serving, ChannelsSet
<1>2. p.fd[c] \in Fds \ AllListening /\ p.fd[c] # NoFd
  BY <1>1, FdFacts DEF Fds
<1>3. Given(p, c, n, r)
  BY <1>1, <1>2, CloseFacts DEF Serving
<1>4. q = [r EXCEPT !.chan = chan]
  BY DEF ReadFailed, SetConn
<1>5. \A v \in Workers \ {w} : p.chan[v] # 0 /\ p.chan[v] # c
  <2> SUFFICES ASSUME NEW v \in Workers \ {w} PROVE p.chan[v] # 0 /\ p.chan[v] # c
    OBVIOUS
  <2>1. p.chan[v] # 0 /\ p.fd[p.chan[v]] = Kept(w, v) /\ Kept(w, v) = WriteEnd(v)
    BY KeptFacts DEF Serving, ChannelsSet
  <2> QED BY <1>1, <2>1, FdFacts
<1> HIDE DEF c, r
<1>6. /\ Pool(r, n) /\ r.open = Held(r, n) /\ ListenersSet(r, n)
      /\ \A v \in Workers : p.chan[v] # 0 /\ p.chan[v] # c =>
            r.chan[v] \in 1..n /\ r.fd[r.chan[v]] = Kept(w, v)
  BY <1>1, <1>2, <1>3, GivenFacts
<1>7. r \in Process /\ r.chan = p.chan /\ r.phase = p.phase /\ r.at = p.at
      /\ r.open = p.open \ {ReadEnd(w)}
  BY <1>1, <1>3 DEF Given
<1>8. /\ chan \in [Workers -> 0..n] /\ chan \in [Workers -> Nat] /\ chan[w] = 0
      /\ \A v \in Workers \ {w} : chan[v] = p.chan[v]
  <2>1. p.chan \in [Workers -> 0..n]
    BY DEF Serving, ChannelsSet
  <2>2. \A v \in Workers \ {w} : chan[v] = p.chan[v]
    BY <1>5, <1>7
  <2>3. chan[w] = 0
    BY <1>7 DEF c
  <2>4. DOMAIN chan = Workers /\ \A v \in Workers : chan[v] \in 0..n
    BY <2>1, <2>2, <2>3
  <2> QED BY <2>2, <2>3, <2>4
<1> HIDE DEF chan
<1>9. /\ q \in Process /\ q.chan = chan /\ q.fd = r.fd /\ q.free = r.free /\ q.open = r.open
      /\ q.lconn = r.lconn /\ q.phase = p.phase /\ q.at = p.at
  BY <1>4, <1>7, <1>8 DEF Process
<1>10. Pool(q, n) /\ q.open = Held(q, n) /\ ListenersSet(q, n)
  BY <1>6, <1>9 DEF Pool, Held, ListenersSet
<1>11. ChannelsSet(q, w, n)
  <2>1. \A v \in Workers \ {w} : q.chan[v] # 0 /\ q.fd[q.chan[v]] = Kept(w, v)
    BY <1>5, <1>6, <1>7, <1>8, <1>9
  <2> QED BY <1>8, <1>9, <2>1 DEF ChannelsSet
<1>12. ChannelsOpen(q, w)
  <2> SUFFICES ASSUME NEW f \in q.open \cap AllChannels
               PROVE  \E v \in Workers : q.chan[v] # 0 /\ f = Kept(w, v)
    BY DEF ChannelsOpen
  <2>1. PICK v \in Workers : p.chan[v] # 0 /\ f = Kept(w, v)
    BY <1>7, <1>9 DEF Serving, ChannelsOpen
  <2>2. v # w
    BY <1>7, <1>9, <2>1, KeptFacts
  <2> QED BY <1>8, <1>9, <2>1, <2>2
<1> QED BY <1>9, <1>10, <1>11, <1>12 DEF Serving

-----------------------------------------------------------------------------
(* The shut-down hooks.                                                    *)

\* Closing a set of slots.
LEMMA EmptiedFacts ==
    ASSUME NEW n \in Nat, NEW p, p.fd \in [1..n -> Fds \cup {NoFd}], NEW S
    PROVE  /\ Emptied(p, S) \in [1..n -> Fds \cup {NoFd}]
           /\ Emptied(p, S) \in Seq(Fds \cup {NoFd})
           /\ \A s \in 1..n \ S : Emptied(p, S)[s] = p.fd[s]
  BY DEF Emptied

\* pgrest_listener_worker_exit closes the listening sockets and nothing else.
LEMMA ListenerExitFacts ==
    ASSUME NEW n \in Nat, NEW w \in Workers, NEW p \in Process, Serving(p, w, n),
           NEW q, q = ListenerExit(p)
    PROVE  /\ q \in Process /\ q.phase = p.phase /\ q.at = p.at
           /\ q.fd \in [1..n -> Fds \cup {NoFd}] /\ q.free \in Seq(1..n)
           /\ q.lconn = p.lconn /\ ChannelsSet(q, w, n) /\ ChannelsOpen(q, w)
           /\ q.open \subseteq AllChannels \cup Clients
<1> DEFINE fd == Emptied(p, ToSet(p.lconn))
           free == Reverse(p.lconn) \o p.free
           o == p.open \ AllListening
<1>1. /\ p.fd \in [1..n -> Fds \cup {NoFd}] /\ p.free \in Seq(1..n)
      /\ p.lconn \in [Listeners -> 1..n]
      /\ \A l \in Listeners : p.fd[p.lconn[l]] = Listening(l)
      /\ ChannelsSet(p, w, n) /\ ChannelsOpen(p, w)
  BY DEF Serving, Pool, ListenersSet
<1>2. Len(Kinds) \in Nat /\ Listeners = 1..Len(Kinds)
  BY LifecycleAssumption DEF Listeners
<1>3. free \in Seq(1..n)
  <2>1. p.lconn \in Seq(1..n)
    BY <1>1, <1>2, IntervalSeq
  <2>2. Reverse(p.lconn) \in Seq(1..n)
    BY <2>1 DEF Reverse
  <2> HIDE DEF Reverse
  <2> QED BY <1>1, <2>2
<1>4. /\ fd \in [1..n -> Fds \cup {NoFd}] /\ fd \in Seq(Fds \cup {NoFd})
      /\ \A s \in 1..n \ ToSet(p.lconn) : fd[s] = p.fd[s]
  BY <1>1, EmptiedFacts
<1>5. o \in SUBSET Fds /\ o \subseteq AllChannels \cup Clients
  BY DEF Process, Fds
<1>6. q = [p EXCEPT !.free = free, !.fd = fd, !.open = o]
  BY DEF ListenerExit
<1> HIDE DEF free, fd, o
<1>7. /\ q \in Process /\ q.phase = p.phase /\ q.at = p.at /\ q.fd = fd /\ q.free = free
      /\ q.open = o /\ q.lconn = p.lconn /\ q.chan = p.chan
  <2>1. free \in Seq(Nat)
    BY <1>3
  <2> QED BY <1>4, <1>5, <1>6, <2>1 DEF Process
<1>8. ChannelsSet(q, w, n)
  <2>1. ASSUME NEW v \in Workers, p.chan[v] # 0 PROVE fd[p.chan[v]] = Kept(w, v)
    <3>1. p.chan[v] \in 1..n /\ p.fd[p.chan[v]] = Kept(w, v) /\ Kept(w, v) \in AllChannels
      BY <1>1, <2>1, KeptFacts DEF ChannelsSet
    <3>2. \A l \in Listeners : p.lconn[l] # p.chan[v]
      BY <1>1, <3>1, FdFacts
    <3>3. p.chan[v] \notin ToSet(p.lconn)
      BY <1>1, <3>2 DEF ToSet
    <3> QED BY <1>4, <3>1, <3>3
  <2> QED BY <1>1, <1>7, <2>1 DEF ChannelsSet
<1>9. ChannelsOpen(q, w)
  BY <1>1, <1>7 DEF ChannelsOpen, o
<1> QED BY <1>3, <1>4, <1>5, <1>7, <1>8, <1>9

\* pgrest_ipc_worker_exit closes every end of a channel that is still open.
LEMMA IpcExitFacts ==
    ASSUME NEW n \in Nat, NEW w \in Workers, NEW p \in Process,
           p.fd \in [1..n -> Fds \cup {NoFd}], p.free \in Seq(1..n),
           ChannelsSet(p, w, n), ChannelsOpen(p, w), p.open \subseteq AllChannels \cup Clients,
           NEW q, q = IpcExit(p)
    PROVE  /\ q \in Process /\ q.phase = p.phase /\ q.at = p.at
           /\ q.fd \in [1..n -> Fds \cup {NoFd}] /\ q.free \in Seq(1..n)
           /\ q.lconn = p.lconn /\ q.chan = p.chan /\ q.open \subseteq Clients
<1> DEFINE left == {s \in {p.chan[v] : v \in Workers} \ {0} : p.fd[s] # NoFd}
           fd == Emptied(p, left)
           free == SetToSeq(left) \o p.free
           o == p.open \ {p.fd[s] : s \in left}
<1>1. left \subseteq 1..n
  BY DEF ChannelsSet
<1>2. \A v \in Workers : p.chan[v] # 0 => p.chan[v] \in left /\ p.fd[p.chan[v]] = Kept(w, v)
  BY KeptFacts, FdFacts DEF ChannelsSet, Fds
<1>3. q = [p EXCEPT !.free = free, !.fd = fd, !.open = o]
  BY DEF IpcExit
<1> HIDE DEF left
<1>4. free \in Seq(1..n)
  <2>1. IsFiniteSet(1..n)
    BY FS_Interval
  <2>2. IsFiniteSet(left)
    BY <1>1, <2>1, FS_Subset
  <2>3. SetToSeq(left) \in Seq(left)
    BY <2>2, SetToSeqFacts
  <2> DEFINE t == SetToSeq(left)
  <2> HIDE DEF t
  <2>4. t \in Seq(1..n)
    BY <1>1, <2>3, LargerSeq DEF t
  <2>5. t \o p.free \in Seq(1..n)
    BY <2>4
  <2> QED BY <2>5 DEF t
<1>5. fd \in [1..n -> Fds \cup {NoFd}] /\ fd \in Seq(Fds \cup {NoFd})
  BY EmptiedFacts
<1>6. o \in SUBSET Fds /\ o \subseteq Clients
  <2>1. ASSUME NEW f \in o PROVE f \notin AllChannels
    BY <1>2, <2>1 DEF ChannelsOpen
  <2> QED BY <2>1 DEF Process
<1> HIDE DEF free, fd, o
<1>7. free \in Seq(Nat)
  BY <1>4
<1>8. /\ q \in Process /\ q.phase = p.phase /\ q.at = p.at /\ q.fd = fd /\ q.free = free
      /\ q.open = o /\ q.lconn = p.lconn /\ q.chan = p.chan
  BY <1>3, <1>5, <1>6, <1>7 DEF Process
<1> QED BY <1>4, <1>5, <1>6, <1>8

\* A serving worker that leaves its loop has what the shut-down hooks expect.
LEMMA ServingExits ==
    ASSUME NEW n \in Nat, NEW w \in Workers, NEW p, Serving(p, w, n), p.at = 1
    PROVE  ExitingSound(p, w, n)
  BY DEF ExitingSound, Serving, Pool, ListenersSet, ChannelsSet

\* A shut-down hook does its part.
LEMMA ExitHookFacts ==
    ASSUME noconn \in Nat, hooks = AllHooks, NEW w \in Workers, NEW p,
           WorkerSound(p, w, noconn), p.phase = "exit", p.at <= 4,
           NEW q, q = Shutdown(hooks[p.at], p),
           NEW r, r = [q EXCEPT !.at = q.at + 1]
    PROVE  WorkerSound(r, w, noconn) /\ r.phase = "exit"
<1> DEFINE n == noconn
<1>0. p \in Process /\ ExitingSound(p, w, n) /\ p.at \in 1..4
  BY DEF WorkerSound, Process
<1>1. ASSUME q \in Process, q.at = p.at, q.phase = "exit"
      PROVE  /\ r \in Process /\ r.phase = "exit" /\ r.at = p.at + 1
             /\ r.open = q.open /\ r.fd = q.fd /\ r.free = q.free
             /\ r.lconn = q.lconn /\ r.chan = q.chan
  <2>1. q.at + 1 \in 1..5
    BY <1>0, <1>1
  <2> QED BY <1>1, <2>1 DEF Process
<1>2. ASSUME r \in Process, r.phase = "exit", ExitingSound(r, w, n)
      PROVE  WorkerSound(r, w, n)
  BY <1>2 DEF WorkerSound
<1>3. CASE p.at \in {1, 3}
  <2>1. q = p
    <3>1. hooks[p.at] \in {"connection", "acceptor"}
      BY <1>3, HookFacts
    <3> QED BY <3>1 DEF Shutdown, ConnExit
  <2>2. /\ r \in Process /\ r.phase = "exit" /\ r.at = p.at + 1
        /\ r.open = p.open /\ r.fd = p.fd /\ r.free = p.free
        /\ r.lconn = p.lconn /\ r.chan = p.chan
    BY <1>0, <1>1, <2>1
  <2>3. /\ Serving(p, w, n) => Serving(r, w, n)
        /\ ChannelsSet(p, w, n) => ChannelsSet(r, w, n)
        /\ ChannelsOpen(p, w) => ChannelsOpen(r, w)
    <3>1. Same(p, r)
      BY <2>2 DEF Same
    <3> QED BY <3>1, SameSlots
  <2>4. ExitingSound(r, w, n)
    BY <1>0, <1>3, <2>2, <2>3 DEF ExitingSound
  <2> QED BY <1>2, <2>2, <2>4
<1>4. CASE p.at = 2
  <2>1. q = ListenerExit(p)
    <3>1. hooks[p.at] = "listener"
      BY <1>4, HookFacts
    <3> QED BY <3>1 DEF Shutdown
  <2>2. Serving(p, w, n)
    BY <1>0, <1>4 DEF ExitingSound
  <2>3. /\ q \in Process /\ q.phase = p.phase /\ q.at = p.at
        /\ q.fd \in [1..n -> Fds \cup {NoFd}] /\ q.free \in Seq(1..n)
        /\ q.lconn = p.lconn /\ ChannelsSet(q, w, n) /\ ChannelsOpen(q, w)
        /\ q.open \subseteq AllChannels \cup Clients
    BY <1>0, <2>1, <2>2, ListenerExitFacts
  <2>4. /\ r \in Process /\ r.phase = "exit" /\ r.at = 3
        /\ r.open = q.open /\ r.fd = q.fd /\ r.free = q.free
        /\ r.lconn = q.lconn /\ r.chan = q.chan
    BY <1>1, <1>4, <2>3
  <2>5. ChannelsSet(r, w, n) /\ ChannelsOpen(r, w)
    <3>1. Same(q, r)
      BY <2>4 DEF Same
    <3> QED BY <2>3, <3>1, SameSlots
  <2>6. r.lconn \in [Listeners -> 1..n] /\ r.chan \in [Workers -> 0..n]
    BY <2>2, <2>3, <2>4, <2>5 DEF Serving, ListenersSet, ChannelsSet
  <2>7. ExitingSound(r, w, n)
    BY <2>3, <2>4, <2>5, <2>6 DEF ExitingSound
  <2> QED BY <1>2, <2>4, <2>7
<1>5. CASE p.at = 4
  <2>1. q = IpcExit(p)
    <3>1. hooks[p.at] = "ipc channel"
      BY <1>5, HookFacts
    <3> QED BY <3>1 DEF Shutdown
  <2>2. /\ p.fd \in [1..n -> Fds \cup {NoFd}] /\ p.free \in Seq(1..n)
        /\ ChannelsSet(p, w, n) /\ ChannelsOpen(p, w)
        /\ p.open \subseteq AllChannels \cup Clients
        /\ p.lconn \in [Listeners -> 1..n] /\ p.chan \in [Workers -> 0..n]
    BY <1>0, <1>5 DEF ExitingSound
  <2>3. /\ q \in Process /\ q.phase = p.phase /\ q.at = p.at
        /\ q.fd \in [1..n -> Fds \cup {NoFd}] /\ q.free \in Seq(1..n)
        /\ q.lconn = p.lconn /\ q.chan = p.chan /\ q.open \subseteq Clients
    BY <1>0, <2>1, <2>2, IpcExitFacts
  <2>4. /\ r \in Process /\ r.phase = "exit" /\ r.at = 5
        /\ r.open = q.open /\ r.fd = q.fd /\ r.free = q.free
        /\ r.lconn = q.lconn /\ r.chan = q.chan
    BY <1>1, <1>5, <2>3
  <2>5. ExitingSound(r, w, n)
    BY <2>2, <2>3, <2>4, SMTT(30) DEF ExitingSound
  <2> QED BY <1>2, <2>4, <2>5
<1> QED BY <1>0, <1>3, <1>4, <1>5

-----------------------------------------------------------------------------
(* Every step keeps the invariant.                                         *)

\* The constants and the settings are numbers.
LEMMA Numbers ==
    ASSUME MasterSound
    PROVE  noconn \in Nat /\ slack \in Nat /\ N \in Nat \ {0} /\ Len(Kinds) \in Nat
<1>1. noconn \in PoolSizes /\ slack \in Slacks
  BY DEF MasterSound, MasterTypes
<1> QED BY <1>1, LifecycleAssumption

\* The postmaster's part of the invariant when only workers move.
LEMMA MasterSame ==
    ASSUME MasterSound, UNCHANGED <<settings, starts, pm, how, pmOpen, tables, files>>
    PROVE  MasterSound'
<1>1. /\ noconn' = noconn /\ slack' = slack /\ starts' = starts /\ pm' = pm /\ how' = how
      /\ pmOpen' = pmOpen /\ hooks' = hooks /\ segs' = segs /\ requested' = requested
      /\ registered' = registered /\ files' = files
  BY DEF settings, tables
<1>2. MasterTypes' /\ HooksSound'
  BY <1>1 DEF MasterSound, MasterTypes, HooksSound
<1>3. SegsSound' /\ OpenSound'
  BY <1>1 DEF MasterSound, SegsSound, OpenSound
<1>4. FilesSound' /\ RoomForShm'
  BY <1>1 DEF MasterSound, FilesSound, CleanStopRestarts, RoomForShm
<1> QED BY <1>2, <1>3, <1>4 DEF MasterSound

\* A step of worker w keeps the rest of the invariant when it leaves w sound,
\* brings no process to life, and leaves w its channel unless w is alone.
LEMMA WorkerFrame ==
    ASSUME LifeInv, NEW w \in Workers, UNCHANGED <<noconn, hooks>>,
           pm' = pm \/ (pm = "up" /\ pm' = "crashed"),
           DOMAIN proc' = Workers, \A v \in Workers \ {w} : proc'[v] = proc[v],
           WorkerSound(proc'[w], w, noconn),
           proc'[w].phase \in {"start", "run", "exit"} => Alive(w),
           proc'[w].phase \in {"start", "run"} => proc[w].phase \in {"start", "run"},
           proc'[w].phase = "run" /\ proc'[w].chan[w] = 0 =>
              \/ Running(w) /\ proc[w].chan[w] = 0
              \/ pm = "down" /\ \A v \in Workers \ {w} : proc[v].phase \notin {"start", "run"}
    PROVE  WorkersSound' /\ ServerSound'
<1>1. WorkersSound'
  <2>1. \A v \in Workers : WorkerSound(proc'[v], v, noconn)
    BY DEF LifeInv, WorkersSound
  <2> QED BY <2>1 DEF WorkersSound
<1>2. ASSUME NEW v \in Workers, proc'[v].phase \in {"start", "run", "exit"}
      PROVE  hooks' = AllHooks /\ pm' \in {"up", "crashed", "stopping", "down"}
  <2>1. Alive(v)
    BY <1>2 DEF Alive
  <2> QED BY <2>1 DEF LifeInv, ServerSound
<1>3. ASSUME NEW v \in Workers, proc'[v].phase = "run", proc'[v].chan[v] = 0
      PROVE  pm' = "down" /\ \A u \in Workers \ {v} : proc'[u].phase \notin {"start", "run"}
  <2>1. /\ pm = "down"
        /\ \A u \in Workers \ {v} : proc[u].phase \notin {"start", "run"}
    <3>1. CASE v = w
      BY <1>3, <3>1 DEF LifeInv, ServerSound
    <3>2. CASE v # w
      BY <1>3, <3>2 DEF LifeInv, ServerSound, Running
    <3> QED BY <3>1, <3>2
  <2> QED BY <2>1
<1>4. ServerSound'
  BY <1>2, <1>3 DEF ServerSound, Alive, Running
<1> QED BY <1>1, <1>4

\* A process that ends, for whatever reason.
LEMMA EndKeeps ==
    ASSUME LifeInv, NEW w \in Workers, NEW ph \in {"broken", "exited", "killed"},
           proc' = [proc EXCEPT ![w] = Ended(ph)], UNCHANGED <<noconn, hooks>>,
           pm' = pm \/ (pm = "up" /\ pm' = "crashed")
    PROVE  WorkersSound' /\ ServerSound'
<1>1. noconn \in Nat
  BY Numbers DEF LifeInv
<1>2. /\ DOMAIN proc' = Workers /\ proc'[w] = Ended(ph)
      /\ \A v \in Workers \ {w} : proc'[v] = proc[v]
  BY DEF LifeInv, WorkersSound
<1>3. WorkerSound(proc'[w], w, noconn) /\ proc'[w].phase \notin {"start", "run", "exit"}
  BY <1>1, <1>2, EndedFacts DEF Ends
<1> QED BY <1>2, <1>3, WorkerFrame

\* A step that changes only the phase, the place among the hooks or the signal.
LEMMA PhaseKeeps ==
    ASSUME LifeInv, NEW w \in Workers, Alive(w), UNCHANGED <<noconn, hooks, pm>>,
           NEW q, proc' = [proc EXCEPT ![w] = q], q \in Process, Same(proc[w], q),
           \/ q.phase = proc[w].phase /\ q.at = proc[w].at
           \/ proc[w].phase = "start" /\ proc[w].at = 5 /\ q.phase = "run" /\ q.at = 1
           \/ proc[w].phase = "run" /\ q.phase = "exit" /\ q.at = proc[w].at
    PROVE  WorkersSound' /\ ServerSound'
<1> DEFINE p == proc[w]
           n == noconn
<1>1. n \in Nat /\ WorkerSound(p, w, n) /\ p.phase \in {"start", "run", "exit"}
  BY Numbers DEF LifeInv, WorkersSound, Alive
<1>2. /\ DOMAIN proc' = Workers /\ proc'[w] = q
      /\ \A v \in Workers \ {w} : proc'[v] = proc[v]
  BY DEF LifeInv, WorkersSound
<1>3. /\ Serving(p, w, n) => Serving(q, w, n)
      /\ q.at = p.at /\ StartingSound(p, w, n) => StartingSound(q, w, n)
      /\ q.at = p.at /\ ExitingSound(p, w, n) => ExitingSound(q, w, n)
  BY <1>1, SameSlots
<1>4. WorkerSound(q, w, n)
  <2>1. CASE q.phase = p.phase /\ q.at = p.at
    BY <1>1, <1>3, <2>1 DEF WorkerSound
  <2>2. CASE p.phase = "start" /\ p.at = 5 /\ q.phase = "run" /\ q.at = 1
    <3>1. Serving(q, w, n)
      BY <1>1, <1>3, <2>2 DEF WorkerSound, StartingSound
    <3> QED BY <2>2, <3>1 DEF WorkerSound
  <2>3. CASE p.phase = "run" /\ q.phase = "exit" /\ q.at = p.at
    <3>1. Serving(q, w, n) /\ q.at = 1
      BY <1>1, <1>3, <2>3 DEF WorkerSound
    <3>2. ExitingSound(q, w, n)
      BY <1>1, <3>1, ServingExits
    <3> QED BY <2>3, <3>2 DEF WorkerSound
  <2> QED BY <2>1, <2>2, <2>3
<1>5. q.chan = p.chan /\ (q.phase \in {"start", "run"} => p.phase \in {"start", "run"})
  BY DEF Same
<1>6. ASSUME q.phase = "run", q.chan[w] = 0 PROVE Running(w) /\ p.chan[w] = 0
  <2>1. CASE p.phase = "start" /\ p.at = 5
    BY <1>1, <1>5, <1>6, <2>1 DEF WorkerSound, StartingSound
  <2>2. CASE p.phase = "run"
    BY <1>5, <1>6, <2>2 DEF Running
  <2> QED BY <1>6, <2>1, <2>2
<1> QED BY <1>2, <1>4, <1>5, <1>6, WorkerFrame

\* A step of the main loop on the slots.
LEMMA LoopKeeps ==
    ASSUME LifeInv, NEW w \in Workers, Running(w), UNCHANGED <<noconn, hooks, pm>>,
           NEW q, proc' = [proc EXCEPT ![w] = q], q \in Process, Serving(q, w, noconn),
           q.phase = proc[w].phase, q.at = proc[w].at,
           \/ q.chan = proc[w].chan
           \/ pm = "down" /\ \A v \in Workers \ {w} : proc[v].phase \notin {"start", "run"}
    PROVE  WorkersSound' /\ ServerSound'
<1>1. WorkerSound(proc[w], w, noconn) /\ proc[w].phase = "run" /\ Alive(w)
  BY DEF LifeInv, WorkersSound, Running, Alive
<1>2. /\ DOMAIN proc' = Workers /\ proc'[w] = q
      /\ \A v \in Workers \ {w} : proc'[v] = proc[v]
  BY DEF LifeInv, WorkersSound
<1>3. WorkerSound(q, w, noconn)
  BY <1>1 DEF WorkerSound
<1> QED BY <1>1, <1>2, <1>3, WorkerFrame

\* A channel reports its end only to the last process of a server: every other
\* worker that starts or serves has a write end open.
LEMMA EofFacts ==
    ASSUME LifeInv, NEW w \in Workers, Running(w), Eof(w)
    PROVE  pm = "down" /\ \A v \in Workers \ {w} : proc[v].phase \notin {"start", "run"}
<1>1. pm = "down"
  <2>1. pm \in {"up", "crashed", "stopping", "down"}
    BY DEF LifeInv, ServerSound, Alive, Running
  <2>2. pm # "down" => pmOpen = Inherited
    BY <2>1 DEF LifeInv, MasterSound, OpenSound, Loaded
  <2>3. WriteEnd(w) \in Inherited
    BY FdFacts DEF Inherited
  <2> QED BY <2>2, <2>3 DEF Eof
<1>2. ASSUME NEW v \in Workers \ {w}, proc[v].phase \in {"start", "run"} PROVE FALSE
  <2> DEFINE p == proc[v]
  <2>1. noconn \in Nat /\ WorkerSound(p, v, noconn) /\ WriteEnd(w) \notin p.open
    BY Numbers DEF LifeInv, WorkersSound, Eof
  <2>2. p.at \in 1..5
    BY <2>1 DEF WorkerSound, Process
  <2>3. CASE p.phase = "start" /\ p.at <= 4
    BY <2>1, <2>3, FdFacts DEF WorkerSound, StartingSound, Inherited
  <2>4. CASE Serving(p, v, noconn)
    <3>1. p.chan[w] \in 1..noconn /\ p.fd[p.chan[w]] = Kept(v, w)
      BY <2>1, <2>4 DEF Serving, ChannelsSet
    <3>2. Kept(v, w) = WriteEnd(w) /\ WriteEnd(w) \in Fds
      BY KeptFacts, FdFacts DEF Fds
    <3> QED BY <2>1, <2>4, <3>1, <3>2 DEF Serving, Held
  <2> QED BY <1>2, <2>1, <2>2, <2>3, <2>4 DEF WorkerSound, StartingSound
<1> QED BY <1>1, <1>2

\* The steps of a worker and what happens to it, but for its death.
LEMMA WorkerKeeps ==
    ASSUME LifeInv, NEW w \in Workers, WorkerStep(w) \/ Outside(w) \/ Quit(w), ~Dies(w)
    PROVE  LifeInv'
<1> DEFINE p == proc[w]
           n == noconn
<1>1. /\ n \in Nat /\ p \in Process /\ WorkerSound(p, w, n)
      /\ DOMAIN proc = Workers
  BY Numbers DEF LifeInv, WorkersSound, WorkerSound
<1>2. Alive(w)
  BY DEF WorkerStep, Outside, Quit, StartHook, StartDone, ReadChannel, LoopEnds, ExitHook,
         ExitDone, StartBreaks, Accept, Hangup, Term, LoopFails, Alive
<1>3. hooks = AllHooks /\ Len(hooks) = 4
  BY <1>2, HookFacts DEF LifeInv, ServerSound
<1>4. UNCHANGED <<settings, starts, pm, how, pmOpen, tables, files>>
  BY DEF WorkerStep, Outside, Quit, StartHook, StartDone, ReadChannel, LoopEnds, ExitHook,
         ExitDone, StartBreaks, Accept, Hangup, Term, LoopFails, Unlinked
<1>5. UNCHANGED <<noconn, hooks, pm>> /\ MasterSound'
  BY <1>4, MasterSame DEF LifeInv, settings, tables
<1>6. SUFFICES WorkersSound' /\ ServerSound'
  BY <1>5 DEF LifeInv
<1>7. CASE StartHook(w)
  <2> DEFINE q == Startup(hooks[p.at], p, w)
             r == IF Started(q) THEN [q EXCEPT !.at = @ + 1] ELSE q
  <2>1. p.phase = "start" /\ p.at <= 4 /\ proc' = [proc EXCEPT ![w] = r]
    BY <1>3, <1>7 DEF StartHook
  <2>2. WorkerSound(r, w, n) /\ r.phase \in {"start", "refused"}
    BY <1>1, <1>3, <2>1, StartHookFacts
  <2> HIDE DEF r
  <2>3. /\ DOMAIN proc' = Workers /\ proc'[w] = r
        /\ \A v \in Workers \ {w} : proc'[v] = proc[v]
    BY <1>1, <2>1
  <2> QED BY <1>2, <1>5, <2>1, <2>2, <2>3, WorkerFrame
<1>8. CASE StartDone(w)
  <2> DEFINE t == Unblocked(p)
             q == [p EXCEPT !.phase = "run", !.at = 1, !.term = t]
  <2>1. p.phase = "start" /\ p.at = 5 /\ proc' = [proc EXCEPT ![w] = q]
    BY <1>1, <1>3, <1>8 DEF StartDone, Process
  <2>2. t \in BOOLEAN
    BY <1>1 DEF Unblocked, Process
  <2> HIDE DEF t
  <2>3. q \in Process /\ Same(p, q) /\ q.phase = "run" /\ q.at = 1
    <3>1. "run" \in Phases /\ 1 \in 1..5
      BY DEF Phases
    <3>2. q \in Process /\ q.phase = "run" /\ q.at = 1
      BY <1>1, <2>2, <3>1 DEF Process
    <3>3. Same(p, q)
      BY <1>1 DEF Same, Process
    <3> QED BY <3>2, <3>3
  <2> HIDE DEF q
  <2> QED BY <1>2, <1>5, <2>1, <2>3, PhaseKeeps
<1>9. CASE ReadChannel(w)
  <2> DEFINE q == ReadFailed(p, p.chan[w])
  <2>1. Running(w) /\ p.chan[w] # 0 /\ Eof(w) /\ proc' = [proc EXCEPT ![w] = q]
    BY <1>9 DEF ReadChannel, Running
  <2>2. Serving(p, w, n)
    BY <1>1, <2>1 DEF WorkerSound, Running
  <2>3. q \in Process /\ Serving(q, w, n) /\ q.phase = p.phase /\ q.at = p.at
    BY <1>1, <2>1, <2>2, ReadFailedFacts
  <2>4. pm = "down" /\ \A v \in Workers \ {w} : proc[v].phase \notin {"start", "run"}
    BY <2>1, EofFacts
  <2> HIDE DEF q
  <2> QED BY <1>5, <2>1, <2>3, <2>4, LoopKeeps
<1>10. CASE LoopEnds(w) \/ LoopFails(w)
  <2> DEFINE q == [p EXCEPT !.phase = "exit"]
  <2>1. p.phase = "run" /\ proc' = [proc EXCEPT ![w] = q]
    BY <1>10 DEF LoopEnds, LoopFails
  <2>2. q \in Process /\ Same(p, q) /\ q.phase = "exit" /\ q.at = p.at
    BY <1>1 DEF Process, Same, Phases
  <2> HIDE DEF q
  <2> QED BY <1>2, <1>5, <2>1, <2>2, PhaseKeeps
<1>11. CASE Term(w)
  <2> DEFINE q == [p EXCEPT !.term = TRUE]
  <2>1. proc' = [proc EXCEPT ![w] = q]
    BY <1>11 DEF Term
  <2>2. q \in Process /\ Same(p, q) /\ q.phase = p.phase /\ q.at = p.at
    BY <1>1 DEF Process, Same
  <2> HIDE DEF q
  <2> QED BY <1>2, <1>5, <2>1, <2>2, PhaseKeeps
<1>12. CASE ExitHook(w)
  <2> DEFINE q == Shutdown(hooks[p.at], p)
             r == [q EXCEPT !.at = q.at + 1]
  <2>1. p.phase = "exit" /\ p.at <= 4 /\ proc' = [proc EXCEPT ![w] = r]
    BY <1>3, <1>12 DEF ExitHook
  <2>2. WorkerSound(r, w, n) /\ r.phase = "exit"
    BY <1>1, <1>3, <2>1, ExitHookFacts
  <2> HIDE DEF r
  <2>3. /\ DOMAIN proc' = Workers /\ proc'[w] = r
        /\ \A v \in Workers \ {w} : proc'[v] = proc[v]
    BY <1>1, <2>1
  <2> QED BY <1>2, <1>5, <2>1, <2>2, <2>3, WorkerFrame
<1>13. CASE ExitDone(w) \/ StartBreaks(w) \/ Quit(w)
  BY <1>5, <1>13, EndKeeps DEF ExitDone, StartBreaks, Quit
<1>14. CASE Accept(w)
  <2> DEFINE q == Accepted(p)
  <2>1. Running(w) /\ p.free # <<>> /\ proc' = [proc EXCEPT ![w] = q]
    BY <1>14 DEF Accept, Running, Accepted
  <2>2. Serving(p, w, n)
    BY <1>1, <2>1 DEF WorkerSound, Running
  <2>3. /\ q \in Process /\ Serving(q, w, n)
        /\ q.phase = p.phase /\ q.at = p.at /\ q.chan = p.chan
    BY <1>1, <2>1, <2>2, AcceptFacts
  <2> HIDE DEF q
  <2> QED BY <1>5, <2>1, <2>3, LoopKeeps
<1>15. CASE Hangup(w)
  <2>1. PICK c \in DOMAIN p.fd :
           p.fd[c][1] = "client" /\ proc' = [proc EXCEPT ![w] = ConnClose(p, c)]
    BY <1>15 DEF Hangup
  <2> DEFINE q == ConnClose(p, c)
  <2>2. Running(w)
    BY <1>15 DEF Hangup, Running
  <2>3. Serving(p, w, n)
    BY <1>1, <2>2 DEF WorkerSound, Running
  <2>4. /\ q \in Process /\ Serving(q, w, n)
        /\ q.phase = p.phase /\ q.at = p.at /\ q.chan = p.chan
    BY <1>1, <2>1, <2>3, HangupFacts
  <2>5. proc' = [proc EXCEPT ![w] = q]
    BY <2>1
  <2> HIDE DEF q
  <2> QED BY <1>5, <2>2, <2>4, <2>5, LoopKeeps
<1> QED BY <1>7, <1>8, <1>9, <1>10, <1>11, <1>12, <1>13, <1>14, <1>15 DEF WorkerStep, Outside

\* The death of a worker, which a running postmaster notices.
LEMMA DiesKeeps ==
    ASSUME LifeInv, NEW w \in Workers, Dies(w)
    PROVE  LifeInv'
<1>1. /\ noconn' = noconn /\ slack' = slack /\ starts' = starts /\ how' = how
      /\ pmOpen' = pmOpen /\ hooks' = hooks /\ segs' = segs /\ requested' = requested
      /\ registered' = registered /\ files' = files
      /\ pm' = pm \/ (pm = "up" /\ pm' = "crashed")
      /\ proc' = [proc EXCEPT ![w] = Ended("killed")]
  BY DEF Dies, settings, tables
<1>2. WorkersSound' /\ ServerSound'
  BY <1>1, EndKeeps
<1>3. MasterSound
  BY DEF LifeInv
<1>4. MasterTypes' /\ HooksSound'
  BY <1>1, <1>3 DEF MasterSound, MasterTypes, HooksSound, Loaded
<1>5. SegsSound' /\ OpenSound'
  BY <1>1, <1>3 DEF MasterSound, SegsSound, OpenSound, Loaded
<1>6. FilesSound' /\ RoomForShm'
  BY <1>1, <1>3 DEF MasterSound, FilesSound, CleanStopRestarts, RoomForShm, Loaded
<1> QED BY <1>2, <1>4, <1>5, <1>6 DEF LifeInv, MasterSound

\* A worker is forked with everything the postmaster has open.
LEMMA ForkKeeps ==
    ASSUME LifeInv, NEW w \in Workers, Fork(w)
    PROVE  LifeInv'
<1> DEFINE q == [NoProcess EXCEPT !.phase = "start", !.open = pmOpen]
<1>1. /\ pm = "up" /\ proc[w].phase = "none" /\ proc' = [proc EXCEPT ![w] = q]
      /\ UNCHANGED <<settings, starts, pm, how, pmOpen, tables, files>>
  BY DEF Fork
<1>2. UNCHANGED <<noconn, hooks, pm>> /\ MasterSound'
  BY <1>1, MasterSame DEF LifeInv, settings, tables
<1>3. hooks = AllHooks /\ pmOpen = Inherited
  BY <1>1 DEF LifeInv, MasterSound, HooksSound, OpenSound, Loaded
<1>4. /\ q \in Process /\ q.phase = "start" /\ q.at = 1 /\ q.open = Inherited
      /\ q.fd = <<>> /\ q.free = <<>> /\ q.lconn = NoListeners /\ q.chan = NoChannels
  <2>1. NoProcess \in Process
    BY EndedFacts DEF NoProcess
  <2>2. pmOpen \in SUBSET Fds
    BY <1>3 DEF Inherited, Fds
  <2>3. /\ NoProcess.at = 1 /\ NoProcess.fd = <<>> /\ NoProcess.free = <<>>
        /\ NoProcess.lconn = NoListeners /\ NoProcess.chan = NoChannels
    BY DEF NoProcess, Ended, NoListeners, NoChannels
  <2> QED BY <1>3, <2>1, <2>2, <2>3 DEF Process, Phases
<1> HIDE DEF q
<1>5. WorkerSound(q, w, noconn)
  BY <1>4 DEF WorkerSound, StartingSound
<1>6. /\ DOMAIN proc' = Workers /\ proc'[w] = q
      /\ \A v \in Workers \ {w} : proc'[v] = proc[v]
  BY <1>1 DEF LifeInv, WorkersSound
<1>7. WorkersSound'
  <2>1. \A v \in Workers : WorkerSound(proc'[v], v, noconn)
    BY <1>5, <1>6 DEF LifeInv, WorkersSound
  <2> QED BY <1>2, <1>6, <2>1 DEF WorkersSound
<1>8. ServerSound'
  <2>1. ASSUME NEW v \in Workers, proc'[v].phase = "run", proc'[v].chan[v] = 0 PROVE FALSE
    <3>1. v # w
      BY <1>4, <1>6, <2>1
    <3> QED BY <1>1, <1>6, <2>1, <3>1 DEF LifeInv, ServerSound, Running
  <2> QED BY <1>1, <1>2, <1>3, <2>1 DEF ServerSound, Running
<1> QED BY <1>2, <1>7, <1>8 DEF LifeInv

\* The sizes that are compared when the shared memory is made.
LEMMA SizeFacts ==
    /\ Total(<<"acceptor data">>) = 2
    /\ Total(<<"acceptor data", "worker stat">>) = N + 3
    /\ Sizes["worker stat"] = N + 1
<1>0. N \in Nat
  BY LifecycleAssumption
<1>1. Sizes["acceptor data"] = 2 /\ Sizes["worker stat"] = N + 1
  BY DEF Sizes
<1>2. \A a : ToSet(<<a>>) = {a}
  BY DEF ToSet
<1>3. \A a, b : ToSet(<<a, b>>) = {a, b}
  <2> SUFFICES ASSUME NEW a, NEW b PROVE ToSet(<<a, b>>) = {a, b}
    OBVIOUS
  <2> DEFINE s == <<a, b>>
  <2>1. DOMAIN s = {1, 2} /\ s[1] = a /\ s[2] = b
    OBVIOUS
  <2> HIDE DEF s
  <2>2. ToSet(s) = {a, b}
    BY <2>1 DEF ToSet
  <2> QED BY <2>2 DEF s
<1>4. Total(<<"acceptor data">>) = 2
  <2> DEFINE s == <<"acceptor data">>
  <2>1. ToSet(s) = {"acceptor data"}
    BY <1>2
  <2> HIDE DEF s
  <2>2. Size("acceptor data", s) = 2
    BY <1>1, <2>1 DEF Size
  <2>3. Size("worker stat", s) = 0
    BY <1>1, <2>1 DEF Size
  <2>4. Total(s) = 2 + 0
    BY <2>2, <2>3, Zenon DEF Total
  <2>5. Total(s) = 2
    BY <2>4
  <2> QED BY <2>5, Zenon DEF s
<1>5. Total(<<"acceptor data", "worker stat">>) = N + 3
  <2> DEFINE s == <<"acceptor data", "worker stat">>
  <2>1. ToSet(s) = {"acceptor data", "worker stat"}
    BY <1>3
  <2> HIDE DEF s
  <2>2. Size("acceptor data", s) = 2
    BY <1>1, <2>1 DEF Size
  <2>3. Size("worker stat", s) = N + 1
    BY <1>1, <2>1 DEF Size
  <2>4. Total(s) = 2 + (N + 1)
    BY <2>2, <2>3, Zenon DEF Total
  <2>5. Total(s) = N + 3
    BY <1>0, <2>4
  <2> QED BY <2>5, Zenon DEF s
<1> QED BY <1>1, <1>4, <1>5

\* The postmaster's steps before there are workers, or when they are all gone.
LEMMA IdleKeeps ==
    ASSUME WorkersSound, \A w \in Workers : ~Alive(w), UNCHANGED <<noconn, proc>>
    PROVE  WorkersSound' /\ ServerSound'
<1>1. WorkersSound'
  BY DEF WorkersSound
<1>2. \A w \in Workers : proc'[w].phase \notin {"start", "run", "exit"}
  BY DEF Alive
<1>3. ServerSound'
  BY <1>2 DEF ServerSound, Alive, Running
<1> QED BY <1>1, <1>3

\* No worker is alive while the library is loaded.
LEMMA NobodyYet ==
    ASSUME LifeInv, pm \in Loading \cup {"shmem"}
    PROVE  \A w \in Workers : ~Alive(w)
  BY DEF LifeInv, ServerSound, Loading

\* Append, on short lists.
LEMMA Appends ==
    ASSUME NEW S
    PROVE  /\ <<>> \in Seq(S)
           /\ \A a \in S : Append(<<>>, a) = <<a>> /\ <<a>> \in Seq(S)
           /\ \A a, b \in S : Append(<<a>>, b) = <<a, b>> /\ <<a, b>> \in Seq(S)
           /\ \A a, b, c \in S :
                 Append(<<a, b>>, c) = <<a, b, c>> /\ <<a, b, c>> \in Seq(S)
           /\ \A a, b, c, d \in S :
                 Append(<<a, b, c>>, d) = <<a, b, c, d>> /\ <<a, b, c, d>> \in Seq(S)
<1>1. ASSUME NEW a \in S, NEW b \in S PROVE Append(<<a>>, b) = <<a, b>>
  <2> DEFINE u == Append(<<a>>, b)
             v == <<a, b>>
  <2>1. u \in Seq(S) /\ Len(u) = 2 /\ u[1] = a /\ u[2] = b
    OBVIOUS
  <2>2. v \in Seq(S) /\ Len(v) = 2 /\ v[1] = a /\ v[2] = b
    OBVIOUS
  <2> HIDE DEF u, v
  <2>3. u = v
    BY <2>1, <2>2, SeqEqual
  <2> QED BY <2>3 DEF u, v
<1>2. ASSUME NEW a \in S, NEW b \in S, NEW c \in S
      PROVE  Append(<<a, b>>, c) = <<a, b, c>>
  <2> DEFINE u == Append(<<a, b>>, c)
             v == <<a, b, c>>
  <2>1. u \in Seq(S) /\ Len(u) = 3 /\ u[1] = a /\ u[2] = b /\ u[3] = c
    OBVIOUS
  <2>2. v \in Seq(S) /\ Len(v) = 3 /\ v[1] = a /\ v[2] = b /\ v[3] = c
    OBVIOUS
  <2> HIDE DEF u, v
  <2>3. u = v
    BY <2>1, <2>2, SeqEqual
  <2> QED BY <2>3 DEF u, v
<1>3. ASSUME NEW a \in S, NEW b \in S, NEW c \in S, NEW d \in S
      PROVE  Append(<<a, b, c>>, d) = <<a, b, c, d>>
  <2> DEFINE u == Append(<<a, b, c>>, d)
             v == <<a, b, c, d>>
  <2>1. u \in Seq(S) /\ Len(u) = 4 /\ u[1] = a /\ u[2] = b /\ u[3] = c /\ u[4] = d
    OBVIOUS
  <2>2. v \in Seq(S) /\ Len(v) = 4 /\ v[1] = a /\ v[2] = b /\ v[3] = c /\ v[4] = d
    OBVIOUS
  <2> HIDE DEF u, v
  <2>3. u = v
    BY <2>1, <2>2, SeqEqual
  <2> QED BY <2>3 DEF u, v
<1>4. \A a, b \in S : <<a, b>> \in Seq(S)
  OBVIOUS
<1>5. \A a, b, c \in S : <<a, b, c>> \in Seq(S)
  OBVIOUS
<1>6. \A a, b, c, d \in S : <<a, b, c, d>> \in Seq(S)
  OBVIOUS
<1> QED BY <1>1, <1>2, <1>3, <1>4, <1>5, <1>6

\* The start of the postmaster and its initialisation up to the sockets.
LEMMA BootKeeps ==
    ASSUME LifeInv, Boot
    PROVE  LifeInv'
<1>1. /\ pm = "down" /\ pm' = "conn" /\ starts < MaxStarts /\ starts' = starts + 1
      /\ hooks' = <<>> /\ segs' = <<>> /\ requested' = 0 /\ registered' = FALSE
      /\ proc' = [w \in Workers |-> NoProcess]
      /\ noconn' = noconn /\ slack' = slack /\ how' = how /\ pmOpen' = pmOpen
      /\ files' = files
  BY DEF Boot, settings
<1>2. MasterSound /\ noconn \in Nat
  BY Numbers DEF LifeInv
<1>3. MasterTypes'
  <2>1. starts' \in 0..MaxStarts
    <3>1. starts \in Nat /\ MaxStarts \in Nat
      BY <1>2, LifecycleAssumption DEF MasterSound, MasterTypes
    <3> QED BY <1>1, <3>1
  <2> QED BY <1>1, <1>2, <2>1 DEF MasterSound, MasterTypes, Loading
<1>4. HooksSound' /\ SegsSound' /\ OpenSound'
  <2>1. <<>> \in Seq(HookNames) /\ <<>> \in Seq(SegmentNames)
    BY Appends
  <2>2. HooksSound'
    BY <1>1, <2>1 DEF HooksSound, Loaded
  <2>3. SegsSound'
    BY <1>1, <2>1 DEF SegsSound, Loaded
  <2>4. OpenSound'
    BY <1>1, <1>2 DEF MasterSound, OpenSound, Loaded
  <2> QED BY <2>2, <2>3, <2>4
<1>5. FilesSound' /\ RoomForShm'
  BY <1>1, <1>2 DEF MasterSound, FilesSound, CleanStopRestarts, RoomForShm, Loaded
<1>6. /\ DOMAIN proc' = Workers
      /\ \A w \in Workers : proc'[w] = NoProcess /\ WorkerSound(NoProcess, w, noconn)
      /\ NoProcess.phase = "none"
  BY <1>1, <1>2, EndedFacts DEF NoProcess
<1>7. WorkersSound' /\ ServerSound'
  <2>1. WorkersSound'
    BY <1>1, <1>6 DEF WorkersSound
  <2>2. \A w \in Workers : proc'[w].phase = "none"
    BY <1>6
  <2> QED BY <2>1, <2>2 DEF ServerSound, Alive, Running
<1> QED BY <1>3, <1>4, <1>5, <1>7 DEF LifeInv, MasterSound

LEMMA SocketsKeep ==
    ASSUME LifeInv, ConnInit \/ ListenerInit \/ ListenerInitFails \/ AcceptorInit
    PROVE  LifeInv'
<1>1. MasterSound /\ pm \in {"conn", "listener", "acceptor"} /\ WorkersSound
  BY DEF LifeInv, ConnInit, ListenerInit, ListenerInitFails, AcceptorInit
<1>2. UNCHANGED <<noconn, slack, starts, requested, registered, proc>>
  BY DEF ConnInit, ListenerInit, ListenerInitFails, AcceptorInit, settings, tables
<1>3. WorkersSound' /\ ServerSound'
  BY <1>1, <1>2, NobodyYet, IdleKeeps DEF Loading
<1>4. CASE ConnInit
  <2>1. /\ pm = "conn" /\ pm' = "listener" /\ hooks' = Append(hooks, "connection")
        /\ how' = how /\ pmOpen' = pmOpen /\ segs' = segs /\ files' = files
    BY <1>4 DEF ConnInit
  <2>2. MasterTypes'
    BY <1>1, <1>2, <2>1 DEF MasterSound, MasterTypes, Loading
  <2>3. HooksSound'
    <3>1. hooks' = <<"connection">> /\ <<"connection">> \in Seq(HookNames)
      BY <1>1, <2>1, Appends DEF MasterSound, HooksSound, HookNames
    <3> QED BY <2>1, <3>1 DEF HooksSound, Loaded
  <2>4. SegsSound' /\ OpenSound'
    BY <1>1, <1>2, <2>1 DEF MasterSound, SegsSound, OpenSound, Loaded
  <2>5. FilesSound' /\ RoomForShm'
    BY <1>1, <1>2, <2>1 DEF MasterSound, FilesSound, CleanStopRestarts, RoomForShm, Loaded
  <2> QED BY <1>3, <2>2, <2>3, <2>4, <2>5 DEF LifeInv, MasterSound
<1>5. CASE ListenerInit
  <2>1. /\ pm = "listener" /\ pm' = "acceptor" /\ hooks' = Append(hooks, "listener")
        /\ how' = how /\ pmOpen' = AllListening /\ segs' = segs /\ files' = Unix
    BY <1>5 DEF ListenerInit
  <2>2. MasterTypes'
    BY <1>1, <1>2, <2>1 DEF MasterSound, MasterTypes, Loading
  <2>3. HooksSound'
    <3>0. hooks = <<"connection">>
      BY <1>1, <2>1 DEF MasterSound, HooksSound
    <3>1. hooks' = <<"connection", "listener">> /\ <<"connection", "listener">> \in Seq(HookNames)
      <4>1. \A h \in {"connection", "listener"} : h \in HookNames
        BY DEF HookNames
      <4>2. Append(<<"connection">>, "listener") = <<"connection", "listener">> /\ <<"connection", "listener">> \in Seq(HookNames)
        BY <4>1, Appends
      <4> QED BY <2>1, <3>0, <4>2
    <3> QED BY <2>1, <3>1 DEF HooksSound, Loaded
  <2>4. SegsSound' /\ OpenSound'
    BY <1>1, <1>2, <2>1 DEF MasterSound, SegsSound, OpenSound, Loaded
  <2>5. FilesSound' /\ RoomForShm'
    BY <1>1, <1>2, <2>1 DEF MasterSound, FilesSound, CleanStopRestarts, RoomForShm, Loaded
  <2> QED BY <1>3, <2>2, <2>3, <2>4, <2>5 DEF LifeInv, MasterSound
<1>6. CASE ListenerInitFails
  <2>1. /\ pm = "listener" /\ pm' = "down" /\ how' = "failed" /\ hooks' = hooks
        /\ pmOpen' = pmOpen /\ segs' = segs
    BY <1>6 DEF ListenerInitFails, tables
  <2>2. PICK bound \in 0..Len(Kinds) : files' = files \cup (Unix \cap (1..bound))
    BY <1>6 DEF ListenerInitFails
  <2>3. MasterTypes'
    BY <1>1, <1>2, <2>1 DEF MasterSound, MasterTypes
  <2>4. HooksSound'
    BY <1>1, <2>1 DEF MasterSound, HooksSound, Loaded
  <2>5. SegsSound' /\ OpenSound'
    BY <1>1, <1>2, <2>1 DEF MasterSound, SegsSound, OpenSound, Loaded
  <2>6. FilesSound' /\ RoomForShm'
    BY <1>1, <1>2, <2>1, <2>2 DEF MasterSound, FilesSound, CleanStopRestarts, RoomForShm, Loaded
  <2> QED BY <1>3, <2>3, <2>4, <2>5, <2>6 DEF LifeInv, MasterSound
<1>7. CASE AcceptorInit
  <2>1. /\ pm = "acceptor" /\ pm' = "shm" /\ hooks' = Append(hooks, "acceptor")
        /\ segs' = Append(segs, "acceptor data")
        /\ how' = how /\ pmOpen' = pmOpen /\ files' = files
    BY <1>7 DEF AcceptorInit
  <2>2. MasterTypes'
    BY <1>1, <1>2, <2>1 DEF MasterSound, MasterTypes, Loading
  <2>3. HooksSound'
    <3>0. hooks = <<"connection", "listener">>
      BY <1>1, <2>1 DEF MasterSound, HooksSound
    <3>1. hooks' = <<"connection", "listener", "acceptor">> /\ <<"connection", "listener", "acceptor">> \in Seq(HookNames)
      <4>1. \A h \in {"connection", "listener", "acceptor"} : h \in HookNames
        BY DEF HookNames
      <4>2. Append(<<"connection", "listener">>, "acceptor") = <<"connection", "listener", "acceptor">> /\ <<"connection", "listener", "acceptor">> \in Seq(HookNames)
        BY <4>1, Appends
      <4> QED BY <2>1, <3>0, <4>2
    <3> QED BY <2>1, <3>1 DEF HooksSound, Loaded
  <2>4. SegsSound'
    <3>1. segs' = <<"acceptor data">> /\ <<"acceptor data">> \in Seq(SegmentNames)
      BY <1>1, <2>1, Appends DEF MasterSound, SegsSound, SegmentNames
    <3> QED BY <1>1, <1>2, <2>1, <3>1 DEF MasterSound, SegsSound, Loaded
  <2>5. OpenSound'
    BY <1>1, <2>1 DEF MasterSound, OpenSound, Loaded
  <2>6. FilesSound' /\ RoomForShm'
    BY <1>1, <1>2, <2>1 DEF MasterSound, FilesSound, CleanStopRestarts, RoomForShm, Loaded
  <2> QED BY <1>3, <2>2, <2>3, <2>4, <2>5, <2>6 DEF LifeInv, MasterSound
<1> QED BY <1>4, <1>5, <1>6, <1>7

\* The rest of the initialisation: the request for memory, the channels and the
\* registration of the workers.
LEMMA LoadingKeeps ==
    ASSUME LifeInv, ShmInit \/ IpcInit \/ WorkerInit
    PROVE  LifeInv'
<1>1. MasterSound /\ pm \in {"shm", "ipc", "worker"} /\ WorkersSound
  BY DEF LifeInv, ShmInit, IpcInit, WorkerInit
<1>2. UNCHANGED <<noconn, slack, starts, how, files, proc>>
  BY DEF ShmInit, IpcInit, WorkerInit, settings
<1>3. WorkersSound' /\ ServerSound'
  BY <1>1, <1>2, NobodyYet, IdleKeeps DEF Loading
<1>4. RoomForShm'
  <2>1. pm' # "up"
    BY DEF ShmInit, IpcInit, WorkerInit
  <2> QED BY <1>1, <1>2, <2>1 DEF MasterSound, RoomForShm
<1>5. CASE ShmInit
  <2>1. /\ pm = "shm" /\ pm' = "ipc" /\ requested' = MemSize(segs)
        /\ hooks' = hooks /\ segs' = segs /\ pmOpen' = pmOpen /\ registered' = registered
    BY <1>5 DEF ShmInit
  <2>2. MasterTypes'
    BY <1>1, <1>2, <2>1 DEF MasterSound, MasterTypes, Loading
  <2>3. HooksSound' /\ OpenSound'
    BY <1>1, <2>1 DEF MasterSound, HooksSound, OpenSound, Loaded
  <2>4. SegsSound'
    <3>1. segs = <<"acceptor data">> /\ segs \in Seq(SegmentNames)
      BY <1>1, <2>1 DEF MasterSound, SegsSound
    <3>2. requested' = 2
      BY <2>1, <3>1, SizeFacts, Zenon DEF MemSize
    <3>3. pm' = "ipc" /\ segs' = <<"acceptor data">> /\ segs' \in Seq(SegmentNames)
      BY <2>1, <3>1, Zenon
    <3>4. 2 \in Nat
      OBVIOUS
    <3> QED BY <3>2, <3>3, <3>4 DEF SegsSound, Loaded
  <2>5. FilesSound'
    BY <1>1, <1>2, <2>1 DEF MasterSound, FilesSound, CleanStopRestarts, Loaded
  <2> QED BY <1>3, <1>4, <2>1, <2>2, <2>3, <2>4, <2>5 DEF LifeInv, MasterSound
<1>6. CASE IpcInit
  <2>1. /\ pm = "ipc" /\ pm' = "worker" /\ hooks' = Append(hooks, "ipc channel")
        /\ requested' = requested /\ segs' = segs /\ registered' = registered
        /\ pmOpen' = pmOpen \cup AllChannels
    BY <1>6 DEF IpcInit
  <2>2. MasterTypes'
    BY <1>1, <1>2, <2>1 DEF MasterSound, MasterTypes, Loading
  <2>3. HooksSound'
    <3>1. hooks = <<"connection", "listener", "acceptor">>
      BY <1>1, <2>1 DEF MasterSound, HooksSound
    <3>2. hooks' = AllHooks /\ AllHooks \in Seq(HookNames)
      <4>1. \A h \in {"connection", "listener", "acceptor", "ipc channel"} : h \in HookNames
        BY DEF HookNames
      <4>2. /\ Append(<<"connection", "listener", "acceptor">>, "ipc channel") =
                  <<"connection", "listener", "acceptor", "ipc channel">>
            /\ <<"connection", "listener", "acceptor", "ipc channel">> \in Seq(HookNames)
        BY <4>1, Appends
      <4> QED BY <2>1, <3>1, <4>2 DEF AllHooks
    <3> QED BY <2>1, <3>2 DEF HooksSound, Loaded
  <2>4. SegsSound'
    BY <1>1, <2>1 DEF MasterSound, SegsSound, Loaded
  <2>5. OpenSound'
    BY <1>1, <2>1 DEF MasterSound, OpenSound, Loaded, Inherited
  <2>6. FilesSound'
    BY <1>1, <1>2, <2>1 DEF MasterSound, FilesSound, CleanStopRestarts, Loaded
  <2> QED BY <1>3, <1>4, <2>1, <2>2, <2>3, <2>4, <2>5, <2>6 DEF LifeInv, MasterSound
<1>7. CASE WorkerInit
  <2>1. /\ pm = "worker" /\ pm' = "shmem" /\ segs' = Append(segs, "worker stat")
        /\ hooks' = hooks /\ requested' = requested /\ registered' = TRUE
        /\ pmOpen' = pmOpen
    BY <1>7 DEF WorkerInit
  <2>2. MasterTypes'
    BY <1>1, <1>2, <2>1 DEF MasterSound, MasterTypes, Loaded
  <2>3. HooksSound' /\ OpenSound'
    BY <1>1, <2>1 DEF MasterSound, HooksSound, OpenSound, Loaded
  <2>4. SegsSound'
    <3>1. segs = <<"acceptor data">> /\ requested = 2
      BY <1>1, <2>1 DEF MasterSound, SegsSound
    <3>2. /\ segs' = <<"acceptor data", "worker stat">>
          /\ <<"acceptor data", "worker stat">> \in Seq(SegmentNames)
      <4>1. \A x \in {"acceptor data", "worker stat"} : x \in SegmentNames
        BY DEF SegmentNames
      <4>2. /\ Append(<<"acceptor data">>, "worker stat") = <<"acceptor data", "worker stat">>
            /\ <<"acceptor data", "worker stat">> \in Seq(SegmentNames)
        BY <4>1, Appends
      <4> QED BY <2>1, <3>1, <4>2
    <3> QED BY <2>1, <3>1, <3>2 DEF SegsSound, Loaded
  <2>5. FilesSound'
    BY <1>1, <1>2, <2>1 DEF MasterSound, FilesSound, CleanStopRestarts, Loaded
  <2> QED BY <1>3, <1>4, <2>1, <2>2, <2>3, <2>4, <2>5 DEF LifeInv, MasterSound
<1> QED BY <1>5, <1>6, <1>7

\* The shared memory is made, or there is no room for the second segment.
LEMMA RoomFacts ==
    ASSUME MasterSound, pm = "shmem"
    PROVE  Total(segs) <= requested + slack <=> slack >= Sizes["worker stat"]
<1>1. segs = <<"acceptor data", "worker stat">> /\ requested = 2
  BY DEF MasterSound, SegsSound, Loaded
<1>2. Total(segs) = N + 3
  BY <1>1, SizeFacts, Zenon
<1>3. slack \in Nat /\ N \in Nat
  BY Numbers
<1>4. requested = 2 /\ Sizes["worker stat"] = N + 1
  BY <1>1, SizeFacts, Zenon
<1>5. N + 3 <= 2 + slack <=> slack >= N + 1
  BY <1>3
<1> QED BY <1>2, <1>4, <1>5, Zenon

\* The postmaster ends through proc_exit when no worker is left.
LEMMA ProcExitKeeps ==
    ASSUME LifeInv, \A w \in Workers : ~Alive(w),
           NEW why \in {"clean", "noipc", "noshm"}, ProcExit(why),
           why = "noshm" => slack < Sizes["worker stat"],
           UNCHANGED <<settings, starts, tables, proc>>
    PROVE  LifeInv'
<1>1. /\ pm' = "down" /\ how' = why /\ pmOpen' = {} /\ files' = files \ Unix
      /\ noconn' = noconn /\ slack' = slack /\ starts' = starts /\ hooks' = hooks
      /\ segs' = segs /\ requested' = requested /\ registered' = registered
      /\ proc' = proc
  BY DEF ProcExit, Unlinked, settings, tables
<1>2. MasterSound /\ WorkersSound
  BY DEF LifeInv
<1>3. WorkersSound' /\ ServerSound'
  BY <1>1, <1>2, IdleKeeps
<1>4. MasterTypes'
  BY <1>1, <1>2 DEF MasterSound, MasterTypes
<1>5. HooksSound' /\ SegsSound' /\ OpenSound'
  BY <1>1, <1>2 DEF MasterSound, HooksSound, SegsSound, OpenSound, Loaded
<1>6. FilesSound' /\ RoomForShm'
  BY <1>1, <1>2 DEF MasterSound, FilesSound, CleanStopRestarts, RoomForShm, Loaded
<1> QED BY <1>3, <1>4, <1>5, <1>6 DEF LifeInv, MasterSound

\* The steps of the postmaster once the library is loaded, and its failures.
LEMMA AfterKeeps ==
    ASSUME LifeInv, IpcInitFails \/ ShmStartup \/ ShmStartupFails \/ Reinit \/ Stopped
    PROVE  LifeInv'
<1>1. MasterSound /\ WorkersSound
  BY DEF LifeInv
<1>2. CASE IpcInitFails
  <2>1. /\ \A w \in Workers : ~Alive(w)
        /\ ProcExit("noipc") /\ UNCHANGED <<settings, starts, tables, proc>>
    BY <1>2, NobodyYet DEF IpcInitFails, Loading
  <2> QED BY <2>1, ProcExitKeeps
<1>3. CASE ShmStartupFails
  <2>1. /\ \A w \in Workers : ~Alive(w)
        /\ pm = "shmem" /\ ProcExit("noshm") /\ UNCHANGED <<settings, starts, tables, proc>>
        /\ Total(segs) > requested + slack
    BY <1>3, NobodyYet DEF ShmStartupFails
  <2>2. slack < Sizes["worker stat"]
    <3>1. Total(segs) \in Nat /\ requested \in Nat /\ slack \in Nat /\ N \in Nat
      <4>1. segs = <<"acceptor data", "worker stat">> /\ requested \in Nat
        BY <1>1, <2>1 DEF MasterSound, SegsSound, Loaded
      <4>2. Total(segs) = N + 3
        BY <4>1, SizeFacts, Zenon
      <4>3. slack \in Nat /\ N \in Nat
        BY <1>1, Numbers
      <4>4. N + 3 \in Nat
        BY <4>3
      <4> QED BY <4>1, <4>2, <4>3, <4>4, Zenon
    <3>2. Sizes["worker stat"] = N + 1
      BY SizeFacts, Zenon
    <3>3. ~(Total(segs) <= requested + slack)
      BY <2>1, <3>1
    <3>4. ~(slack >= Sizes["worker stat"])
      BY <1>1, <2>1, <3>3, RoomFacts
    <3> DEFINE z == Sizes["worker stat"]
    <3>5. z = N + 1 /\ ~(slack >= z)
      BY <3>2, <3>4, Zenon
    <3> HIDE DEF z
    <3>6. slack < z
      BY <3>1, <3>5
    <3> QED BY <3>6 DEF z
  <2> QED BY <2>1, <2>2, ProcExitKeeps
<1>4. CASE Stopped
  <2>1. /\ \A w \in Workers : ~Alive(w)
        /\ ProcExit("clean") /\ UNCHANGED <<settings, starts, tables, proc>>
    BY <1>4 DEF Stopped
  <2> QED BY <2>1, ProcExitKeeps
<1>5. CASE ShmStartup \/ Reinit
  <2>1. /\ noconn' = noconn /\ slack' = slack /\ starts' = starts /\ hooks' = hooks
        /\ segs' = segs /\ requested' = requested /\ proc' = proc /\ how' = how
        /\ pmOpen' = pmOpen /\ files' = files
        /\ registered' \in {registered, FALSE}
        /\ pm \in {"shmem", "crashed"} /\ pm' \in {"up", "shmem"}
        /\ pm' = "up" => pm = "shmem" /\ Total(segs) <= requested + slack
    BY <1>5 DEF ShmStartup, Reinit, settings, tables
  <2>2. \A w \in Workers : ~Alive(w)
    BY <1>5, NobodyYet DEF ShmStartup, Reinit
  <2>3. WorkersSound' /\ ServerSound'
    BY <1>1, <2>1, <2>2, IdleKeeps
  <2>4. MasterTypes'
    BY <1>1, <2>1 DEF MasterSound, MasterTypes, Loaded
  <2>5. HooksSound' /\ SegsSound'
    BY <1>1, <2>1 DEF MasterSound, HooksSound, SegsSound, Loaded
  <2>6. OpenSound' /\ FilesSound'
    BY <1>1, <2>1 DEF MasterSound, OpenSound, FilesSound, CleanStopRestarts, Loaded
  <2>7. RoomForShm'
    <3>1. pm' = "up" => slack >= Sizes["worker stat"]
      BY <1>1, <2>1, RoomFacts
    <3> QED BY <1>1, <2>1, <3>1 DEF MasterSound, RoomForShm
  <2> QED BY <2>3, <2>4, <2>5, <2>6, <2>7 DEF LifeInv, MasterSound
<1> QED BY <1>2, <1>3, <1>4, <1>5

\* While the postmaster runs, no running worker has lost its channel.
LEMMA ChannelsWhileUp ==
    ASSUME LifeInv, pm # "down", NEW w \in Workers, Running(w)
    PROVE  proc[w].chan[w] # 0
  BY DEF LifeInv, ServerSound

\* The postmaster signals every worker.
LEMMA StopKeeps ==
    ASSUME LifeInv, Stop
    PROVE  LifeInv'
<1>1. /\ noconn' = noconn /\ slack' = slack /\ starts' = starts /\ hooks' = hooks
      /\ segs' = segs /\ requested' = requested /\ how' = how /\ registered' = registered
      /\ pmOpen' = pmOpen /\ files' = files /\ pm = "up" /\ pm' = "stopping"
      /\ proc' = [w \in Workers |->
                     IF Alive(w) THEN [proc[w] EXCEPT !.term = TRUE] ELSE proc[w]]
  BY DEF Stop, settings, tables
<1>2. MasterSound /\ WorkersSound /\ ServerSound /\ noconn \in Nat
  BY Numbers DEF LifeInv
<1>3. DOMAIN proc' = Workers
  BY <1>1
<1>4. ASSUME NEW w \in Workers
      PROVE  /\ WorkerSound(proc'[w], w, noconn) /\ proc'[w].phase = proc[w].phase
             /\ proc'[w].chan = proc[w].chan
  <2> DEFINE p == proc[w]
             q == [p EXCEPT !.term = TRUE]
  <2>1. WorkerSound(p, w, noconn) /\ p \in Process
    BY <1>2 DEF WorkersSound, WorkerSound
  <2>2. CASE ~Alive(w)
    <3>1. proc'[w] = p
      BY <1>1, <2>2
    <3> QED BY <2>1, <3>1
  <2>3. CASE Alive(w)
    <3>1. proc'[w] = q
      BY <1>1, <2>3
    <3>2. q \in Process /\ Same(p, q) /\ q.phase = p.phase /\ q.at = p.at
      BY <2>1 DEF Process, Same
    <3>3. p.phase \in {"start", "run", "exit"}
      BY <2>3 DEF Alive
    <3> HIDE DEF q
    <3>4. /\ Serving(p, w, noconn) => Serving(q, w, noconn)
          /\ StartingSound(p, w, noconn) => StartingSound(q, w, noconn)
          /\ ExitingSound(p, w, noconn) => ExitingSound(q, w, noconn)
      BY <1>2, <3>2, SameSlots
    <3>5. WorkerSound(q, w, noconn)
      BY <2>1, <3>2, <3>3, <3>4 DEF WorkerSound
    <3> QED BY <3>1, <3>2, <3>5 DEF Same
  <2> QED BY <2>2, <2>3
<1>5. WorkersSound'
  BY <1>1, <1>3, <1>4 DEF WorkersSound
<1>6. ServerSound'
  <2>1. ASSUME NEW w \in Workers, proc'[w].phase \in {"start", "run", "exit"}
        PROVE  hooks' = AllHooks
    BY <1>1, <1>2, <1>4, <2>1 DEF ServerSound, Alive
  <2>2. ASSUME NEW w \in Workers, proc'[w].phase = "run" PROVE proc'[w].chan[w] # 0
    BY <1>1, <1>4, <2>2, ChannelsWhileUp DEF Running
  <2> QED BY <1>1, <2>1, <2>2 DEF ServerSound, Alive, Running
<1>7. MasterTypes' /\ HooksSound'
  BY <1>1, <1>2 DEF MasterSound, MasterTypes, HooksSound, Loaded
<1>8. SegsSound' /\ OpenSound'
  BY <1>1, <1>2 DEF MasterSound, SegsSound, OpenSound, Loaded
<1>9. FilesSound' /\ RoomForShm'
  BY <1>1, <1>2 DEF MasterSound, FilesSound, CleanStopRestarts, RoomForShm, Loaded
<1> QED BY <1>5, <1>6, <1>7, <1>8, <1>9 DEF LifeInv, MasterSound

\* The postmaster is killed: its descriptors are closed, its files stay.
LEMMA KilledKeeps ==
    ASSUME LifeInv, PmKilled
    PROVE  LifeInv'
<1>1. /\ noconn' = noconn /\ slack' = slack /\ starts' = starts /\ hooks' = hooks
      /\ segs' = segs /\ requested' = requested /\ how' = "crash"
      /\ registered' = registered /\ pmOpen' = {} /\ files' = files
      /\ pm # "down" /\ pm' = "down" /\ proc' = proc
  BY DEF PmKilled, settings, tables
<1>2. MasterSound /\ WorkersSound /\ ServerSound
  BY DEF LifeInv
<1>3. WorkersSound'
  BY <1>1, <1>2 DEF WorkersSound
<1>4. ServerSound'
  <2>1. ASSUME NEW w \in Workers, proc'[w].phase \in {"start", "run", "exit"}
        PROVE  hooks' = AllHooks
    BY <1>1, <1>2, <2>1 DEF ServerSound, Alive
  <2>2. ASSUME NEW w \in Workers, proc'[w].phase = "run" PROVE proc'[w].chan[w] # 0
    BY <1>1, <2>2, ChannelsWhileUp DEF Running
  <2> QED BY <1>1, <2>1, <2>2 DEF ServerSound, Alive, Running
<1>5. MasterTypes' /\ HooksSound'
  BY <1>1, <1>2 DEF MasterSound, MasterTypes, HooksSound, Loaded
<1>6. SegsSound' /\ OpenSound'
  BY <1>1, <1>2 DEF MasterSound, SegsSound, OpenSound, Loaded
<1>7. FilesSound' /\ RoomForShm'
  BY <1>1, <1>2 DEF MasterSound, FilesSound, CleanStopRestarts, RoomForShm, Loaded
<1> QED BY <1>3, <1>4, <1>5, <1>6, <1>7 DEF LifeInv, MasterSound

\* Nothing has been started.
LEMMA LifeInit ==
    ASSUME Init
    PROVE  LifeInv
<1>1. /\ noconn \in PoolSizes /\ slack \in Slacks
      /\ starts = 0 /\ pm = "down" /\ how = "new" /\ pmOpen = {}
      /\ hooks = <<>> /\ segs = <<>> /\ requested = 0 /\ registered = FALSE
      /\ files = {} /\ proc = [w \in Workers |-> NoProcess]
  BY DEF Init
<1>2. noconn \in Nat /\ MaxStarts \in Nat
  BY <1>1, LifecycleAssumption
<1>3. MasterTypes
  <2>1. starts \in 0..MaxStarts
    BY <1>1, <1>2
  <2> QED BY <1>1, <2>1 DEF MasterTypes
<1>4. HooksSound /\ SegsSound /\ OpenSound
  <2>1. <<>> \in Seq(HookNames) /\ <<>> \in Seq(SegmentNames)
    BY Appends
  <2> QED BY <1>1, <2>1 DEF HooksSound, SegsSound, OpenSound, Loaded
<1>5. FilesSound /\ RoomForShm
  BY <1>1 DEF FilesSound, CleanStopRestarts, RoomForShm, Loaded
<1>6. /\ DOMAIN proc = Workers
      /\ \A w \in Workers : proc[w] = NoProcess /\ WorkerSound(NoProcess, w, noconn)
      /\ NoProcess.phase = "none"
  BY <1>1, <1>2, EndedFacts DEF NoProcess
<1>7. WorkersSound
  BY <1>6 DEF WorkersSound
<1>8. ServerSound
  BY <1>6 DEF ServerSound, Alive, Running
<1> QED BY <1>3, <1>4, <1>5, <1>7, <1>8 DEF LifeInv, MasterSound

\* Every step, and every stuttering step, keeps the invariant.
LEMMA LifeStep ==
    ASSUME LifeInv, [Next]_vars
    PROVE  LifeInv'
<1>1. CASE Boot \/ Stop \/ PmKilled
  BY <1>1, BootKeeps, StopKeeps, KilledKeeps
<1>2. CASE Master
  BY <1>2, SocketsKeep, LoadingKeeps, AfterKeeps DEF Master
<1>3. CASE \E w \in Workers : Fork(w) \/ WorkerStep(w) \/ Outside(w) \/ Quit(w)
  <2>1. PICK w \in Workers : Fork(w) \/ WorkerStep(w) \/ Outside(w) \/ Quit(w)
    BY <1>3
  <2>2. CASE Fork(w)
    BY <2>2, ForkKeeps
  <2>3. CASE Dies(w)
    BY <2>3, DiesKeeps
  <2>4. CASE ~Fork(w) /\ ~Dies(w)
    BY <2>1, <2>4, WorkerKeeps
  <2> QED BY <2>2, <2>3, <2>4
<1>4. CASE UNCHANGED vars
  <2>1. /\ UNCHANGED <<settings, starts, pm, how, pmOpen, tables, files>>
        /\ noconn' = noconn /\ hooks' = hooks /\ pm' = pm /\ proc' = proc
    BY <1>4 DEF vars, settings, tables
  <2>2. MasterSound'
    BY <2>1, MasterSame DEF LifeInv
  <2>3. WorkersSound'
    BY <2>1 DEF LifeInv, WorkersSound
  <2>4. ServerSound'
    BY <2>1 DEF LifeInv, ServerSound, Alive, Running
  <2> QED BY <2>2, <2>3, <2>4 DEF LifeInv
<1> QED BY <1>1, <1>2, <1>3, <1>4 DEF Next

-----------------------------------------------------------------------------
(* The theorems.                                                           *)

\* The inductive invariant: what the hooks have registered, requested, opened
\* and bound at each stage of the postmaster, and what each worker holds after
\* each of its hooks, whoever dies, fails or is signalled in between
\* (pg_rest.c:50-90, listener.c, ipc.c, conn.c, worker.c).
THEOREM LifeInvariant == Spec => []LifeInv
<1>1. Init => LifeInv
  BY LifeInit
<1>2. LifeInv /\ [Next]_vars => LifeInv'
  BY LifeStep
<1> QED BY <1>1, <1>2, PTL DEF Spec

\* A worker takes its channel for closed only when postmaster and every other
\* worker are gone (ipc.c:133).
THEOREM LifeEofMeansAlone == Spec => []EofMeansAlone
<1>1. LifeInv => EofMeansAlone
  BY DEF LifeInv, ServerSound, EofMeansAlone, Running
<1> QED BY <1>1, LifeInvariant, PTL

\* Server and workers start exactly when the configured limits suffice, for
\* every pool size, number of workers and amount of spare shared memory.
THEOREM LifeStartsIffEnough == Spec => []StartsIffEnough
<1>1. LifeInv => StartsIffEnough
  <2> SUFFICES ASSUME LifeInv PROVE StartsIffEnough
    OBVIOUS
  <2>1. ASSUME NEW w \in Workers
        PROVE  /\ Running(w) => noconn >= Len(Kinds) + N
               /\ proc[w].phase = "refused" => noconn < Len(Kinds) + N
    <3>1. WorkerSound(proc[w], w, noconn)
      BY DEF LifeInv, WorkersSound
    <3> QED BY <3>1 DEF WorkerSound, Serving, Running
  <2>2. RoomForShm
    BY DEF LifeInv, MasterSound
  <2> QED BY <2>1, <2>2 DEF StartsIffEnough, StartsIffRoom
<1> QED BY <1>1, LifeInvariant, PTL

\* The files of the unix listeners are there while the postmaster runs,
\* and gone after every stop through proc_exit.
THEOREM LifeFilesExact == Spec => []FilesExact
<1>1. LifeInv => FilesExact
  BY DEF LifeInv, MasterSound, FilesSound, FilesExact, FilesStay, Loaded
<1> QED BY <1>1, LifeInvariant, PTL

\* The slots of a serving worker, in the words of SlotsExact.
LEMMA ServingExact ==
    ASSUME NEW n \in Nat, NEW w \in Workers, NEW p \in Process, Serving(p, w, n)
    PROVE  /\ IsInjective(p.free) /\ ToSet(p.free) = DOMAIN p.fd \ Used(p)
           /\ p.open = {p.fd[s] : s \in Used(p)}
           /\ Cardinality(p.open) = Cardinality(Used(p))
<1>1. /\ p.fd \in [1..n -> Fds \cup {NoFd}] /\ DOMAIN p.fd = 1..n
      /\ p.free \in Seq(1..n) /\ IsInjective(p.free)
      /\ \A s \in 1..n : s \in ToSet(p.free) <=> p.fd[s] = NoFd
      /\ \A s, t \in 1..n : p.fd[s] = p.fd[t] /\ p.fd[s] # NoFd => s = t
      /\ p.open = Held(p, n)
  BY DEF Serving, Pool
<1>2. Used(p) = {s \in 1..n : p.fd[s] # NoFd}
  BY <1>1 DEF Used
<1>3. ToSet(p.free) = DOMAIN p.fd \ Used(p)
  <2>1. ToSet(p.free) \subseteq 1..n
    BY <1>1 DEF ToSet
  <2> QED BY <1>1, <1>2, <2>1
<1>4. p.open = {p.fd[s] : s \in Used(p)}
  <2>1. \A s \in Used(p) : p.fd[s] \in Fds /\ s \in 1..n
    BY <1>1, <1>2
  <2>2. \A f \in Fds : \A s \in 1..n : p.fd[s] = f => s \in Used(p)
    BY <1>2, FdFacts
  <2> QED BY <1>1, <2>1, <2>2 DEF Held
<1>5. Cardinality(p.open) = Cardinality(Used(p))
  <2> DEFINE U == Used(p)
             g == [s \in U |-> p.fd[s]]
  <2>1. IsFiniteSet(1..n)
    BY FS_Interval
  <2>2. U \subseteq 1..n
    BY <1>2
  <2>3. IsFiniteSet(U)
    BY <2>1, <2>2, FS_Subset
  <2>4. g \in Bijection(U, p.open)
    <3>1. g \in [U -> p.open]
      BY <1>4
    <3>2. \A a, b \in U : g[a] = g[b] => a = b
      BY <1>1, <1>2
    <3>3. \A f \in p.open : \E a \in U : g[a] = f
      BY <1>4
    <3> HIDE DEF g, U
    <3>4. g \in Injection(U, p.open)
      BY <3>1, <3>2 DEF Injection, IsInjective
    <3>5. g \in Surjection(U, p.open)
      BY <3>1, <3>3 DEF Surjection
    <3> QED BY <3>4, <3>5 DEF Bijection
  <2> HIDE DEF g, U
  <2>5. Cardinality(p.open) = Cardinality(U)
    <3>1. ExistsBijection(U, p.open)
      BY <2>4 DEF ExistsBijection
    <3> QED BY <2>3, <3>1, FS_Bijection
  <2> QED BY <2>5 DEF U
<1> QED BY <1>1, <1>3, <1>4, <1>5

\* Slots, free list, descriptor table and the pointers to slots agree in every
\* running worker, and a worker that ends by its hooks leaves nothing open but
\* sockets of clients (conn.c:27-135, listener.c:347-490, ipc.c:92-107, 234-294).
THEOREM LifeSlotsSound == Spec => []SlotsSound
<1>1. LifeInv => SlotsSound
  <2> SUFFICES ASSUME LifeInv, NEW w \in Workers
               PROVE  LET p == proc[w] IN
                      /\ Running(w) =>
                            /\ IsInjective(p.free)
                            /\ ToSet(p.free) = DOMAIN p.fd \ Used(p)
                            /\ p.open = {p.fd[s] : s \in Used(p)}
                            /\ Cardinality(p.open) = Cardinality(Used(p))
                            /\ \A l \in Listeners : p.fd[p.lconn[l]] = Listening(l)
                            /\ \A v \in Workers \ {w} : p.fd[p.chan[v]] = WriteEnd(v)
                            /\ p.chan[w] # 0 => p.fd[p.chan[w]] = ReadEnd(w)
                      /\ p.phase = "exit" /\ p.at > Len(hooks) =>
                            \A f \in p.open : f[1] = "client"
    BY DEF SlotsSound, SlotsExact, PointersExact
  <2> DEFINE p == proc[w]
  <2>1. noconn \in Nat /\ WorkerSound(p, w, noconn) /\ p \in Process
    BY Numbers DEF LifeInv, WorkersSound, WorkerSound
  <2>2. ASSUME Running(w)
        PROVE  /\ IsInjective(p.free)
               /\ ToSet(p.free) = DOMAIN p.fd \ Used(p)
               /\ p.open = {p.fd[s] : s \in Used(p)}
               /\ Cardinality(p.open) = Cardinality(Used(p))
               /\ \A l \in Listeners : p.fd[p.lconn[l]] = Listening(l)
               /\ \A v \in Workers \ {w} : p.fd[p.chan[v]] = WriteEnd(v)
               /\ p.chan[w] # 0 => p.fd[p.chan[w]] = ReadEnd(w)
    <3>1. Serving(p, w, noconn)
      BY <2>1, <2>2 DEF WorkerSound, Running
    <3>2. /\ \A l \in Listeners : p.fd[p.lconn[l]] = Listening(l)
          /\ \A v \in Workers \ {w} : p.chan[v] # 0
          /\ \A v \in Workers : p.chan[v] # 0 => p.fd[p.chan[v]] = Kept(w, v)
      BY <3>1 DEF Serving, ListenersSet, ChannelsSet
    <3>3. \A v \in Workers \ {w} : Kept(w, v) = WriteEnd(v)
      BY DEF Kept
    <3>4. Kept(w, w) = ReadEnd(w)
      BY DEF Kept
    <3> QED BY <2>1, <3>1, <3>2, <3>3, <3>4, ServingExact
  <2>3. ASSUME p.phase = "exit", p.at > Len(hooks)
        PROVE  \A f \in p.open : f[1] = "client"
    <3>1. hooks = AllHooks /\ Len(hooks) = 4
      BY <2>3, HookFacts DEF LifeInv, ServerSound, Alive
    <3>2. p.at = 5
      BY <2>1, <2>3, <3>1 DEF Process
    <3>3. p.open \subseteq Clients
      BY <2>1, <2>3, <3>2 DEF WorkerSound, ExitingSound
    <3>4. \A f \in Clients : f \in Fds
      BY DEF Fds
    <3> QED BY <3>3, <3>4, FdFacts
  <2> QED BY <2>2, <2>3
<1> QED BY <1>1, LifeInvariant, PTL

\* What a sound worker stores is within its slots.
LEMMA WorkerTypes ==
    ASSUME NEW n \in Nat, NEW w \in Workers, NEW p, WorkerSound(p, w, n)
    PROVE  /\ p.phase \in {"none", "start", "run", "exit"} \cup Ends
           /\ p.at \in 1..5
           /\ p.phase \notin {"start", "run", "exit"} => p.at = 1
           /\ p.free \in Seq(DOMAIN p.fd)
           /\ \A l \in Listeners : p.lconn[l] \in 0..Len(p.fd)
           /\ \A v \in Workers : p.chan[v] \in 0..Len(p.fd)
           /\ p.term \in BOOLEAN
<1>1. p \in Process
  BY DEF WorkerSound
<1>2. /\ p.phase \in {"none", "start", "run", "exit"} \cup Ends
      /\ p.at \in 1..5 /\ p.term \in BOOLEAN
  BY <1>1 DEF Process, Phases
<1> DEFINE Within == /\ p.free \in Seq(DOMAIN p.fd)
                     /\ \A l \in Listeners : p.lconn[l] \in 0..Len(p.fd)
                     /\ \A v \in Workers : p.chan[v] \in 0..Len(p.fd)
<1>3. ASSUME p.free \in Seq(1..n), p.fd \in [1..n -> Fds \cup {NoFd}],
             \A l \in Listeners : p.lconn[l] \in 0..n,
             \A v \in Workers : p.chan[v] \in 0..n
      PROVE  Within
  <2>1. DOMAIN p.fd = 1..n /\ Len(p.fd) = n
    BY <1>1, <1>3 DEF Process
  <2> QED BY <1>3, <2>1
<1>4. ASSUME p.fd = <<>>, p.free = <<>>, p.lconn = NoListeners, p.chan = NoChannels
      PROVE  Within
  <2>1. p.free \in Seq(DOMAIN p.fd) /\ Len(p.fd) = 0
    BY <1>4
  <2>2. /\ \A l \in Listeners : p.lconn[l] = 0
        /\ \A v \in Workers : p.chan[v] = 0
    BY <1>4 DEF NoListeners, NoChannels
  <2> QED BY <2>1, <2>2
<1>5. ASSUME Serving(p, w, n) PROVE Within
  BY <1>3, <1>5 DEF Serving, Pool, ListenersSet, ChannelsSet
<1>6. CASE p.phase = "start"
  <2>1. StartingSound(p, w, n)
    BY <1>6 DEF WorkerSound
  <2>2. CASE p.at = 1
    <3>1. p.fd = <<>> /\ p.free = <<>> /\ p.lconn = NoListeners /\ p.chan = NoChannels
      BY <2>1, <2>2 DEF StartingSound
    <3> QED BY <1>2, <1>4, <1>6, <3>1
  <2>3. CASE p.at = 2
    <3>1. Pool(p, n) /\ p.lconn = NoListeners /\ p.chan = NoChannels
      BY <2>1, <2>3 DEF StartingSound
    <3>2. Within
      BY <1>3, <3>1 DEF Pool, NoListeners, NoChannels
    <3> QED BY <1>2, <1>6, <3>2
  <2>4. CASE p.at \in {3, 4}
    <3>1. Pool(p, n) /\ ListenersSet(p, n) /\ p.chan = NoChannels
      BY <2>1, <2>4 DEF StartingSound
    <3>2. Within
      BY <1>3, <3>1 DEF Pool, ListenersSet, NoChannels
    <3> QED BY <1>2, <1>6, <3>2
  <2>5. CASE p.at = 5
    BY <1>2, <1>5, <1>6, <2>1, <2>5 DEF StartingSound
  <2> QED BY <1>2, <2>2, <2>3, <2>4, <2>5
<1>7. CASE p.phase = "run"
  BY <1>2, <1>5, <1>7 DEF WorkerSound
<1>8. CASE p.phase = "exit"
  <2>1. ExitingSound(p, w, n)
    BY <1>8 DEF WorkerSound
  <2>2. Within
    BY <1>3, <2>1 DEF ExitingSound
  <2> QED BY <1>2, <1>8, <2>2
<1>9. CASE p.phase \notin {"start", "run", "exit"}
  <2>1. p = Ended(p.phase)
    BY <1>9 DEF WorkerSound
  <2>2. \A ph : /\ Ended(ph).fd = <<>> /\ Ended(ph).free = <<>> /\ Ended(ph).at = 1
                /\ Ended(ph).lconn = NoListeners /\ Ended(ph).chan = NoChannels
    BY DEF Ended, NoListeners, NoChannels
  <2>3. /\ p.fd = <<>> /\ p.free = <<>> /\ p.at = 1
        /\ p.lconn = NoListeners /\ p.chan = NoChannels
    BY <2>1, <2>2, Zenon
  <2> QED BY <1>2, <1>4, <2>3
<1> QED BY <1>6, <1>7, <1>8, <1>9

\* Type correctness: the pointers of a worker stay within the slots it has
\* allocated and its hooks within the list of hooks.
THEOREM LifeTypeCorrect == Spec => []TypeOK
<1>1. LifeInv => TypeOK
  <2> SUFFICES ASSUME LifeInv PROVE TypeOK
    OBVIOUS
  <2>1. MasterTypes /\ HooksSound /\ SegsSound /\ OpenSound /\ FilesSound
    BY DEF LifeInv, MasterSound
  <2>2. pm \in {"conn", "listener", "acceptor", "shm", "ipc", "worker", "shmem",
                "up", "crashed", "stopping", "down"}
    BY <2>1 DEF MasterTypes, Loading, Loaded
  <2>3. pmOpen \in {{}, AllListening, AllListening \cup AllChannels}
    BY <2>1, <2>2 DEF OpenSound, Loaded, Inherited
  <2>4. hooks \in Seq({"connection", "listener", "acceptor", "ipc channel"})
    BY <2>1 DEF HooksSound, HookNames
  <2>5. segs \in Seq(DOMAIN Sizes)
    BY <2>1 DEF SegsSound, SegmentNames, Sizes
  <2>6. ASSUME NEW w \in Workers
        PROVE  LET p == proc[w] IN
               /\ p.phase \in {"none", "start", "run", "exit"} \cup Ends
               /\ p.at \in 1..(Len(hooks) + 1)
               /\ p.free \in Seq(DOMAIN p.fd)
               /\ \A x \in {p.lconn[l] : l \in Listeners}
                           \cup {p.chan[v] : v \in Workers} : x \in 0..Len(p.fd)
               /\ p.term \in BOOLEAN
    <3> DEFINE p == proc[w]
    <3>1. noconn \in Nat /\ WorkerSound(p, w, noconn)
      BY Numbers DEF LifeInv, WorkersSound
    <3>2. /\ p.phase \in {"none", "start", "run", "exit"} \cup Ends
          /\ p.at \in 1..5
          /\ p.phase \notin {"start", "run", "exit"} => p.at = 1
          /\ p.free \in Seq(DOMAIN p.fd)
          /\ \A l \in Listeners : p.lconn[l] \in 0..Len(p.fd)
          /\ \A v \in Workers : p.chan[v] \in 0..Len(p.fd)
          /\ p.term \in BOOLEAN
      BY <3>1, WorkerTypes
    <3>3. Len(hooks) \in Nat
      BY <2>1 DEF HooksSound
    <3>4. p.phase \in {"start", "run", "exit"} => Len(hooks) = 4
      BY HookFacts DEF LifeInv, ServerSound, Alive
    <3>5. p.at \in 1..(Len(hooks) + 1)
      <4>1. CASE p.phase \in {"start", "run", "exit"}
        <5>1. p.at \in 1..5 /\ Len(hooks) = 4
          BY <3>2, <3>4, <4>1
        <5> QED BY <5>1
      <4>2. CASE p.phase \notin {"start", "run", "exit"}
        <5>1. p.at = 1
          BY <3>2, <4>2
        <5> QED BY <3>3, <5>1
      <4> QED BY <4>1, <4>2
    <3> QED BY <3>2, <3>5
  <2>7. DOMAIN proc = Workers
    BY DEF LifeInv, WorkersSound
  <2> QED BY <2>1, <2>2, <2>3, <2>4, <2>5, <2>6, <2>7
          DEF TypeOK, MasterTypes, SegsSound, FilesSound
<1> QED BY <1>1, LifeInvariant, PTL

=============================================================================
