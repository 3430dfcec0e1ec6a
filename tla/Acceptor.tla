------------------------------ MODULE Acceptor ------------------------------
(***************************************************************************)
(* The accept path of pg_rest: background workers that share the listening *)
(* sockets inherited from the postmaster and take turns at accepting with  *)
(* a spinlock in shared memory (pg_rest_acceptor.c, pg_rest_worker.c, the  *)
(* pause/resume half of pg_rest_listener.c).                               *)
(*                                                                         *)
(* Every worker is one process running the loop of pgrest_worker_main.     *)
(* Its program counter is                                                  *)
(*   "loop"    at the head of pgrest_worker_event_dispatch                 *)
(*   "poll"    blocked in event_base_loop(EVLOOP_ONCE)                     *)
(*   "run"     in the same call, running the callbacks of active events    *)
(*   "accept"  inside pgrest_acceptor_accept_handler, before an accept()   *)
(*   "exited"  past pgrest_worker_process_exit                             *)
(***************************************************************************)
EXTENDS Integers, FiniteSets

CONSTANTS
    Workers,      \* worker processes
    NoWorker,     \* "nobody": the spinlock is free
    Listeners,    \* listening sockets
    Reuseport,    \* the listeners configured with reuseport
    UseMutex,     \* pgrest_acceptor_use_mutex as pgrest_acceptor_init sets it
    MultiAccept,  \* pgrest_setting.acceptor_multi_accept
    NoConn,       \* pgrest_setting.worker_noconn, slots of the pool of a worker
    Pinned,       \* slots of listeners, channel and connections that never end
    MaxBacklog,   \* bound: connections queued on one listener
    Faults        \* the failures the environment may inject, see FaultKinds

FaultKinds == {"aborted", "emfile", "nomem", "evfail", "error", "term"}

\* The events of libevent other than the listeners' read events.
Timers == {"delay", "resume"}
OtherEvents == Timers \cup {"io", "term"}

ASSUME AcceptorAssumption ==
    /\ NoWorker \notin Workers
    /\ Reuseport \subseteq Listeners
    /\ Listeners \cap OtherEvents = {}
    /\ UseMutex \in BOOLEAN
    /\ MultiAccept \in BOOLEAN
    /\ NoConn \in Nat
    /\ Pinned \in 0 .. NoConn
    /\ MaxBacklog \in Nat
    /\ Faults \subseteq FaultKinds

VARIABLES
    lock,       \* acceptor_mutex: the worker that acquired it, or NoWorker
    backlog,    \* per listener: connections the kernel has queued
    pc,         \* per worker: where it is, see above
    mode,       \* per worker: the branch of event_dispatch it polls in
    held,       \* per worker: pgrest_acceptor_mutex_held
    disabled,   \* per worker: pgrest_acceptor_disabled
    listening,  \* per worker: listeners whose read event is registered
    act,        \* per worker: active events whose callback has not run
    timers,     \* per worker: pending timers (ev_timer, acceptor_event_timer)
    free,       \* per worker: pgrest_conn_free_noconn
    quit,       \* per worker: pgrest_worker_terminate or _event_error
    cur         \* per worker: the listener of the running accept handler

sharedVars == <<lock, backlog>>
vars == <<lock, backlog, pc, mode, held, disabled, listening, act, timers,
          free, quit, cur>>

Slots == NoConn - Pinned
Modes == {"plain", "disabled", "mutex"}

TypeOK ==
    /\ lock \in Workers \cup {NoWorker}
    /\ backlog \in [Listeners -> 0 .. MaxBacklog]
    /\ pc \in [Workers -> {"loop", "poll", "run", "accept", "exited"}]
    /\ mode \in [Workers -> Modes]
    /\ held \in [Workers -> BOOLEAN]
    /\ disabled \in [Workers -> Int]
    /\ listening \in [Workers -> SUBSET Listeners]
    /\ act \in [Workers -> SUBSET (Listeners \cup OtherEvents)]
    /\ timers \in [Workers -> SUBSET Timers]
    /\ free \in [Workers -> 0 .. Slots]
    /\ quit \in [Workers -> BOOLEAN]
    /\ cur \in [Workers -> Listeners \cup {NoWorker}]
    /\ \A w \in Workers : pc[w] = "accept" => cur[w] \in Listeners

\* pgrest_listener_worker_init: reuseport listeners are always registered,
\* the others only when no mutex decides who may watch them.
Init ==
    /\ lock = NoWorker
    /\ backlog = [l \in Listeners |-> 0]
    /\ pc = [w \in Workers |-> "loop"]
    /\ mode = [w \in Workers |-> "plain"]
    /\ held = [w \in Workers |-> FALSE]
    /\ disabled = [w \in Workers |-> 0]
    /\ listening = [w \in Workers |->
                      IF UseMutex THEN Reuseport ELSE Listeners]
    /\ act = [w \in Workers |-> {}]
    /\ timers = [w \in Workers |-> {}]
    /\ free = [w \in Workers |-> Slots]
    /\ quit = [w \in Workers |-> FALSE]
    /\ cur = [w \in Workers |-> NoWorker]

-----------------------------------------------------------------------------
(* Small pieces of the handlers.                                           *)

Goto(w, place) == pc' = [pc EXCEPT ![w] = place]

EnterPoll(w, m) ==
    /\ Goto(w, "poll")
    /\ mode' = [mode EXCEPT ![w] = m]

\* Seeded fault: pgrest_listener_resume tests reuseport the way pause does.
ResumeReuseport(w) == listening' = [listening EXCEPT ![w] = @ \cup Reuseport]

\* pgrest_listener_resume, succeeding.
Resume(w) == listening' = [listening EXCEPT ![w] = Listeners]

\* Seeded fault: the reuseport test of pgrest_listener_pause is inverted.
KeptInverted(all) == IF all THEN {} ELSE Listeners \ Reuseport

\* pgrest_listener_pause(all): deregistering an event also takes it off the
\* list of active events; reuseport listeners stay unless all.
Kept(all) == IF all THEN {} ELSE Reuseport
Pause(w, all) ==
    /\ listening' = [listening EXCEPT ![w] = @ \cap Kept(all)]
    /\ act' = [act EXCEPT ![w] = @ \ (Listeners \ Kept(all))]

\* pgrest_acceptor_unlock_mutex: SpinLockRelease clears the lock whoever
\* has acquired it.
Unlock == lock' = NoWorker

\* Seeded faults: the flag is cleared and the lock kept, or the lock released
\* and the flag left set.
GiveBackFlagOnly(w) == held' = [held EXCEPT ![w] = FALSE] /\ UNCHANGED lock
GiveBackLockOnly(w) ==
    /\ IF held[w] THEN Unlock ELSE UNCHANGED lock
    /\ UNCHANGED held

\* A worker that cannot go on accepting gives the mutex back, if its flag says
\* that it has it.
GiveBack(w) ==
    /\ IF held[w] THEN Unlock ELSE UNCHANGED lock
    /\ held' = [held EXCEPT ![w] = FALSE]

\* Seeded fault: the timer is not added, and nobody notices.
ForgetTimer(w, t) == UNCHANGED timers

\* pgrest_event_add of a timer, succeeding.
AddTimer(w, t) == timers' = [timers EXCEPT ![w] = @ \cup {t}]

\* pgrest_worker_process_exit: pgrest_listener_close drops the flags, the
\* registrations and the sockets of the worker.
ProcessExit(w) ==
    /\ Goto(w, "exited")
    /\ held' = [held EXCEPT ![w] = FALSE]
    /\ listening' = [listening EXCEPT ![w] = {}]
    /\ act' = [act EXCEPT ![w] = {}]
    /\ timers' = [timers EXCEPT ![w] = {}]

-----------------------------------------------------------------------------
(* pgrest_worker_event_dispatch up to the call of event_base_loop.         *)

DispatchPlain(w) ==
    /\ pc[w] = "loop"
    /\ ~UseMutex
    /\ EnterPoll(w, "plain")
    /\ UNCHANGED <<sharedVars, held, disabled, listening, act, timers, free,
                   quit, cur>>

\* Too few free connections: one round without asking for the mutex, and
\* without the timer that would end the wait.
DispatchDisabled(w) ==
    /\ pc[w] = "loop"
    /\ UseMutex
    /\ disabled[w] > 0
    /\ disabled' = [disabled EXCEPT ![w] = @ - 1]
    /\ EnterPoll(w, "disabled")
    /\ UNCHANGED <<sharedVars, held, listening, act, timers, free, quit, cur>>

MayTry(w) == pc[w] = "loop" /\ UseMutex /\ disabled[w] <= 0

\* pgrest_acceptor_trylock_mutex wins. A worker that believes it still holds
\* the mutex has kept its listeners registered and skips the resume.
TryLockWin(w) ==
    /\ MayTry(w)
    /\ lock = NoWorker
    /\ lock' = w
    /\ IF held[w] THEN UNCHANGED listening ELSE Resume(w)
    /\ held' = [held EXCEPT ![w] = TRUE]
    /\ EnterPoll(w, "mutex")
    /\ UNCHANGED <<backlog, disabled, act, timers, free, quit, cur>>

\* Seeded fault: the lock is not given back when the resume fails.
TryLockResumeFailsLocked(w) ==
    /\ MayTry(w)
    /\ "evfail" \in Faults
    /\ lock = NoWorker
    /\ ~held[w]
    /\ lock' = w
    /\ quit' = [quit EXCEPT ![w] = TRUE]
    /\ ProcessExit(w)
    /\ UNCHANGED <<backlog, mode, disabled, free, cur>>

\* ... wins, but registering a listener fails: the lock is given back and the
\* main loop ends on pgrest_worker_event_error.
TryLockResumeFails(w) ==
    /\ MayTry(w)
    /\ "evfail" \in Faults
    /\ lock = NoWorker
    /\ ~held[w]
    /\ Unlock
    /\ quit' = [quit EXCEPT ![w] = TRUE]
    /\ ProcessExit(w)
    /\ UNCHANGED <<backlog, mode, disabled, free, cur>>

\* pgrest_acceptor_trylock_mutex loses: the listeners are paused if they were
\* still registered, and ev_timer bounds the wait.
TryLockLose(w) ==
    /\ MayTry(w)
    /\ lock # NoWorker
    /\ IF held[w] THEN Pause(w, FALSE) ELSE UNCHANGED <<listening, act>>
    /\ held' = [held EXCEPT ![w] = FALSE]
    /\ AddTimer(w, "delay")
    /\ EnterPoll(w, "mutex")
    /\ UNCHANGED <<sharedVars, disabled, free, quit, cur>>

\* ... loses, and removing a listener (event_error) or adding ev_timer
\* (dispatch returns false) fails: the worker leaves the loop.
TryLockLoseFails(w) ==
    /\ MayTry(w)
    /\ "evfail" \in Faults
    /\ lock # NoWorker
    /\ quit' = [quit EXCEPT ![w] = @ \/ held[w]]
    /\ ProcessExit(w)
    /\ UNCHANGED <<sharedVars, mode, disabled, free, cur>>

-----------------------------------------------------------------------------
(* event_base_loop: wait for events, run their callbacks by priority, and  *)
(* poll again as long as callbacks of a lower priority are left.           *)

Ready(w) == {l \in listening[w] : backlog[l] > 0}
Open(w) == Slots - free[w]

\* What a poll may find besides the listeners that are ready: expired timers,
\* traffic on an open connection, a SIGTERM.
Noticed(w) ==
    SUBSET (timers[w]
            \cup (IF Open(w) > 0 THEN {"io"} ELSE {})
            \cup (IF "term" \in Faults THEN {"term"} ELSE {}))

Poll(w) ==
    /\ \/ pc[w] = "poll"
       \/ pc[w] = "run" /\ UseMutex /\ act[w] = {"io"}
    /\ \E n \in Noticed(w) :
          LET found == act[w] \cup Ready(w) \cup n
          IN  /\ found # act[w]
              /\ act' = [act EXCEPT ![w] = found]
    /\ Goto(w, "run")
    /\ UNCHANGED <<sharedVars, mode, held, disabled, listening, timers, free,
                   quit, cur>>

\* With the mutex, connection events have the lower of two priorities.
Runnable(w) ==
    IF UseMutex /\ act[w] # {"io"} THEN act[w] \ {"io"} ELSE act[w]

StartAccept(w) ==
    /\ pc[w] = "run"
    /\ \E l \in Runnable(w) \cap Listeners :
          /\ act' = [act EXCEPT ![w] = @ \ {l}]
          /\ cur' = [cur EXCEPT ![w] = l]
    /\ Goto(w, "accept")
    /\ UNCHANGED <<sharedVars, mode, held, disabled, listening, timers, free,
                   quit>>

\* pgrest_worker_timer_handler: only wakes the loop up.
DelayTimer(w) ==
    /\ pc[w] = "run"
    /\ "delay" \in Runnable(w)
    /\ act' = [act EXCEPT ![w] = @ \ {"delay"}]
    /\ timers' = [timers EXCEPT ![w] = @ \ {"delay"}]
    /\ UNCHANGED <<sharedVars, pc, mode, held, disabled, listening, free,
                   quit, cur>>

\* pgrest_acceptor_timer_handler: registers the listeners again. When that
\* fails the worker quits, with only some of them registered.
ResumeTimer(w) ==
    /\ pc[w] = "run"
    /\ "resume" \in Runnable(w)
    /\ act' = [act EXCEPT ![w] = @ \ {"resume"}]
    /\ timers' = [timers EXCEPT ![w] = @ \ {"resume"}]
    /\ \/ Resume(w) /\ UNCHANGED quit
       \/ /\ "evfail" \in Faults
          /\ \E some \in SUBSET Listeners :
                listening' = [listening EXCEPT ![w] = @ \cup some]
          /\ quit' = [quit EXCEPT ![w] = TRUE]
    /\ UNCHANGED <<sharedVars, pc, mode, held, disabled, free, cur>>

\* A read or write event of an HTTP connection: the request goes on, or the
\* connection is closed and its slot freed.
Io(w) ==
    /\ pc[w] = "run"
    /\ "io" \in Runnable(w)
    /\ act' = [act EXCEPT ![w] = @ \ {"io"}]
    /\ \/ UNCHANGED free
       \/ Open(w) > 0 /\ free' = [free EXCEPT ![w] = @ + 1]
    /\ UNCHANGED <<sharedVars, pc, mode, held, disabled, listening, timers,
                   quit, cur>>

\* pgrest_worker_signal_handler on SIGTERM.
Term(w) ==
    /\ pc[w] = "run"
    /\ "term" \in Runnable(w)
    /\ act' = [act EXCEPT ![w] = @ \ {"term"}]
    /\ quit' = [quit EXCEPT ![w] = TRUE]
    /\ UNCHANGED <<sharedVars, pc, mode, held, disabled, listening, timers,
                   free, cur>>

-----------------------------------------------------------------------------
(* pgrest_acceptor_accept_handler, one action per way an iteration of its  *)
(* do loop can go.                                                         *)

\* Leave the handler, or go round the loop again (while (available)).
AcceptReturn(w) == Goto(w, "run") /\ cur' = [cur EXCEPT ![w] = NoWorker]
AcceptNext(w) ==
    IF MultiAccept THEN UNCHANGED <<pc, cur>> ELSE AcceptReturn(w)

Dequeue(w) ==
    /\ backlog[cur[w]] > 0
    /\ backlog' = [backlog EXCEPT ![cur[w]] = @ - 1]

\* accept() would block: another worker was faster, or the queue is drained.
AcceptAgain(w) ==
    /\ pc[w] = "accept"
    /\ backlog[cur[w]] = 0
    /\ AcceptReturn(w)
    /\ UNCHANGED <<sharedVars, mode, held, disabled, listening, act, timers,
                   free, quit>>

\* ECONNABORTED: the connection is gone, the loop goes on. Any other error
\* that is not EMFILE or ENFILE leaves the handler.
AcceptAborted(w) ==
    /\ pc[w] = "accept"
    /\ "aborted" \in Faults
    /\ \/ Dequeue(w) /\ AcceptNext(w)
       \/ AcceptReturn(w) /\ UNCHANGED backlog
    /\ UNCHANGED <<lock, mode, held, disabled, listening, act, timers, free,
                   quit>>

\* EMFILE or ENFILE with the mutex in use: stop listening, skip one round,
\* and give the mutex back if the flag says that it is held.
AcceptEmfileMutex(w) ==
    /\ pc[w] = "accept"
    /\ "emfile" \in Faults
    /\ UseMutex
    /\ Pause(w, TRUE)
    /\ disabled' = [disabled EXCEPT ![w] = 1]
    /\ GiveBack(w)
    /\ AcceptReturn(w)
    /\ UNCHANGED <<backlog, mode, timers, free, quit>>

\* EMFILE or ENFILE without the mutex: stop listening until the timer of the
\* acceptor resumes, or quit when the timer cannot be added.
AcceptEmfileTimer(w) ==
    /\ pc[w] = "accept"
    /\ "emfile" \in Faults
    /\ ~UseMutex
    /\ Pause(w, TRUE)
    /\ \/ AddTimer(w, "resume") /\ UNCHANGED quit
       \/ /\ "evfail" \in Faults
          /\ quit' = [quit EXCEPT ![w] = TRUE]
          /\ UNCHANGED timers
    /\ AcceptReturn(w)
    /\ UNCHANGED <<sharedVars, mode, held, disabled, free>>

\* EMFILE or ENFILE, and removing a listener fails: some are already paused.
AcceptEmfilePauseFails(w) ==
    /\ pc[w] = "accept"
    /\ {"emfile", "evfail"} \subseteq Faults
    /\ \E done \in SUBSET Listeners :
          /\ done # Listeners
          /\ listening' = [listening EXCEPT ![w] = @ \ done]
          /\ act' = [act EXCEPT ![w] = @ \ done]
    /\ quit' = [quit EXCEPT ![w] = TRUE]
    /\ AcceptReturn(w)
    /\ UNCHANGED <<sharedVars, mode, held, disabled, timers, free>>

\* A socket was accepted: how many rounds to sit out is computed from the
\* free connections before this one takes its slot.
Throttle(w) ==
    disabled' = [disabled EXCEPT ![w] = (NoConn \div 8) - free[w]]

\* Seeded fault: an off-by-one in the test for the last slot.
HasConnOffByOne(w) == free[w] >= 0

\* pgrest_conn_get finds a slot.
HasConn(w) == free[w] > 0

\* No free connection: pgrest_conn_drain frees none, the socket is closed.
AcceptNoConn(w) ==
    /\ pc[w] = "accept"
    /\ Dequeue(w)
    /\ Throttle(w)
    /\ ~HasConn(w)
    /\ AcceptReturn(w)
    /\ UNCHANGED <<lock, mode, held, listening, act, timers, free, quit>>

\* Out of memory or fcntl() fails: pgrest_acceptor_close_conn gives the slot
\* back and the handler returns.
AcceptNoMem(w) ==
    /\ pc[w] = "accept"
    /\ "nomem" \in Faults
    /\ HasConn(w)
    /\ Dequeue(w)
    /\ Throttle(w)
    /\ AcceptReturn(w)
    /\ UNCHANGED <<lock, mode, held, listening, act, timers, free, quit>>

\* The connection is handed to listener->handler, which keeps it or, when it
\* cannot register its event or the peer has closed, closes it at once.
Accept(w) ==
    /\ pc[w] = "accept"
    /\ HasConn(w)
    /\ Dequeue(w)
    /\ Throttle(w)
    /\ \/ free' = [free EXCEPT ![w] = @ - 1]
       \/ UNCHANGED free
    /\ AcceptNext(w)
    /\ UNCHANGED <<lock, mode, held, listening, act, timers, quit>>

-----------------------------------------------------------------------------
(* The end of pgrest_worker_event_dispatch and of pgrest_worker_main.      *)

LoopDone(w) == pc[w] = "run" /\ act[w] = {}

\* Seeded fault: the mutex is released after a round that was sat out, too.
ReleasesAnyRound(w) == held[w]

\* The round was played for the mutex, and the flag says that it is held.
Releases(w) == mode[w] = "mutex" /\ held[w]

\* event_base_loop has returned: release the mutex if the flag says so, else
\* remove ev_timer; then pgrest_worker_main looks at its two exit flags.
DispatchReturn(w) ==
    /\ LoopDone(w)
    /\ IF Releases(w) THEN Unlock ELSE UNCHANGED lock
    /\ IF quit[w]
       THEN ProcessExit(w)
       ELSE /\ Goto(w, "loop")
            /\ timers' = [timers EXCEPT ![w] =
                             IF mode[w] = "mutex" THEN @ \ {"delay"} ELSE @]
            /\ UNCHANGED <<held, listening, act>>
    /\ UNCHANGED <<backlog, mode, disabled, free, quit, cur>>

\* Removing ev_timer fails: dispatch returns false, which ends the main loop.
DispatchFails(w) ==
    /\ LoopDone(w)
    /\ "evfail" \in Faults
    /\ mode[w] = "mutex"
    /\ ~held[w]
    /\ ProcessExit(w)
    /\ UNCHANGED <<sharedVars, mode, disabled, free, quit, cur>>

\* PG_CATCH: an ereport(ERROR) out of libevent or a callback. The mutex is
\* released whether or not this worker has it, and the worker exits.
Catch(w) ==
    /\ "error" \in Faults
    /\ pc[w] \in {"poll", "run", "accept"}
    /\ Unlock
    /\ ProcessExit(w)
    /\ UNCHANGED <<backlog, mode, disabled, free, quit, cur>>

\* The kernel completes a handshake on a listener.
Arrive(l) ==
    /\ backlog[l] < MaxBacklog
    /\ backlog' = [backlog EXCEPT ![l] = @ + 1]
    /\ UNCHANGED <<lock, pc, mode, held, disabled, listening, act, timers,
                   free, quit, cur>>

-----------------------------------------------------------------------------
Dispatch(w) ==
    \/ DispatchPlain(w)
    \/ DispatchDisabled(w)
    \/ TryLockWin(w)
    \/ TryLockResumeFails(w)
    \/ TryLockLose(w)
    \/ TryLockLoseFails(w)

Callback(w) ==
    \/ StartAccept(w)
    \/ DelayTimer(w)
    \/ ResumeTimer(w)
    \/ Io(w)
    \/ Term(w)

AcceptStep(w) ==
    \/ AcceptAgain(w)
    \/ AcceptAborted(w)
    \/ AcceptEmfileMutex(w)
    \/ AcceptEmfileTimer(w)
    \/ AcceptEmfilePauseFails(w)
    \/ AcceptNoConn(w)
    \/ AcceptNoMem(w)
    \/ Accept(w)

Step(w) ==
    \/ Dispatch(w)
    \/ Poll(w)
    \/ Callback(w)
    \/ AcceptStep(w)
    \/ DispatchReturn(w)
    \/ DispatchFails(w)
    \/ Catch(w)

Next ==
    \/ \E w \in Workers : Step(w)
    \/ \E l \in Listeners : Arrive(l)

Spec == Init /\ [][Next]_vars

\* A worker is a process the operating system schedules, and event_base_loop
\* returns when one of its events is ready or a timer expires: no worker that
\* can take a step is stopped for ever. Time passes: a pending timer expires
\* after finitely many polls. Nothing is assumed of the clients.
PollExpired(w) == timers[w] # {} /\ Poll(w) /\ timers[w] \subseteq act'[w]

FairSpec ==
    /\ Spec
    /\ \A w \in Workers : WF_vars(Step(w)) /\ SF_vars(PollExpired(w))

-----------------------------------------------------------------------------
(* Properties.                                                             *)

\* The worker is inside event_base_loop.
InRound(w) == pc[w] \in {"poll", "run", "accept"}

\* The worker polls in the belief that it owns the accept mutex.
UnderMutex(w) == InRound(w) /\ mode[w] = "mutex" /\ held[w]

\* The spinlock is never left behind: whoever acquired it is inside a polling
\* round whose end will release it. A worker that skips a round, goes back to
\* its loop, loses a file descriptor (EMFILE gives the lock back early), or
\* exits on any path, owns nothing (worker.c:331, acceptor.c:203, 299).
LockNotLeaked == \A w \in Workers : lock = w => UnderMutex(w)

\* The accept mutex excludes: at most one worker polls the shared listeners
\* in the belief that it owns the mutex (acceptor.c:289, worker.c:318-332).
MutualExclusion ==
    \A v, w \in Workers : UnderMutex(v) /\ UnderMutex(w) => v = w

\* With the mutex, the flag and the registrations agree across rounds: a
\* worker that trusts mutex_held has every listener registered, although it
\* registered them rounds ago (acceptor.c:294 skips the resume), and one that
\* does not watches no listener that is shared (pause on lost lock and on
\* EMFILE). A worker on its way out is excepted.
FlagMatchesListeners ==
    UseMutex =>
      \A w \in Workers :
         pc[w] # "exited" /\ ~quit[w] =>
            IF held[w] THEN listening[w] = Listeners
                       ELSE listening[w] \subseteq Reuseport

\* A worker that blocks after it asked for the mutex, or without one, either
\* watches every listener or has a timer that makes it look again: the ev_timer
\* of a lost lock (worker.c:322) or the timer that ends a pause for want of
\* descriptors (acceptor.c:210). Rounds sat out (worker.c:312) have no timer.
BlockedWorkerWakes ==
    \A w \in Workers :
       pc[w] = "poll" /\ mode[w] # "disabled" =>
          listening[w] = Listeners \/ timers[w] # {}

\* The parts of the inductive invariant behind the two properties above: the
\* acceptor's timer is used without the mutex only, a worker that quits does
\* not start another round, and without the mutex every pause has its timer.
NoResumeTimer ==
    UseMutex => \A w \in Workers : "resume" \notin timers[w] \cup act[w]
LoopMeansRunning == \A w \in Workers : pc[w] = "loop" => ~quit[w]
PauseHasTimer ==
    ~UseMutex =>
      \A w \in Workers :
         pc[w] # "exited" /\ ~quit[w] =>
            listening[w] = Listeners \/ "resume" \in timers[w]
ListenInv ==
    /\ NoResumeTimer
    /\ LoopMeansRunning
    /\ PauseHasTimer
    /\ FlagMatchesListeners
    /\ BlockedWorkerWakes

\* A connection the kernel has queued is taken off the queue by some worker,
\* whoever holds the mutex and however often the lock changes hands
\* (stated for a queue of one: MaxBacklog = 1).
PendingAccepted == \A l \in Listeners : backlog[l] = 1 ~> backlog[l] = 0

\* Listeners that EMFILE paused are registered again (acceptor.c:62-72,
\* 210-216), or the worker has left its loop.
PausedResumes ==
    \A w \in Workers :
       listening[w] = {} ~> listening[w] = Listeners \/ pc[w] = "exited"

=============================================================================
