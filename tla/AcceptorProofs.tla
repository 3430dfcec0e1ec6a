--------------------------- MODULE AcceptorProofs ---------------------------
(***************************************************************************)
(* Proofs about Acceptor, for any number of workers and listeners and any  *)
(* set of failures.                                                        *)
(***************************************************************************)
EXTENDS Acceptor, TLAPS

\* Every variable keeps its type: in particular the pool of a worker never
\* counts more free connections than it has slots, nor fewer than none, on
\* any path of the accept handler or of a connection's events.
THEOREM TypeCorrect == Spec => []TypeOK
<1> USE AcceptorAssumption
<1> USE DEF TypeOK, Slots, Modes, Timers, OtherEvents
<1>1. Init => TypeOK
  BY DEF Init
<1>2. TypeOK /\ [Next]_vars => TypeOK'
  <2> SUFFICES ASSUME TypeOK, [Next]_vars PROVE TypeOK'
    OBVIOUS
  <2>1. ASSUME NEW w \in Workers, Dispatch(w) PROVE TypeOK'
    <3> USE DEF Goto, EnterPoll, AddTimer, Resume, Pause, Kept, Unlock, ProcessExit,
                MayTry, sharedVars
    <3>1. CASE DispatchPlain(w) BY <3>1 DEF DispatchPlain
    <3>2. CASE DispatchDisabled(w) BY <3>2 DEF DispatchDisabled
    <3>3. CASE TryLockWin(w) BY <3>3 DEF TryLockWin
    <3>4. CASE TryLockResumeFails(w) BY <3>4 DEF TryLockResumeFails
    <3>5. CASE TryLockLose(w) BY <3>5 DEF TryLockLose
    <3>6. CASE TryLockLoseFails(w) BY <3>6 DEF TryLockLoseFails
    <3> QED BY <2>1, <3>1, <3>2, <3>3, <3>4, <3>5, <3>6 DEF Dispatch
  <2>2. ASSUME NEW w \in Workers, Poll(w) PROVE TypeOK'
    <3>1. Ready(w) \subseteq Listeners /\ timers[w] \subseteq Timers
      BY DEF Ready
    <3>2. \A n \in Noticed(w) : n \subseteq OtherEvents
      BY <3>1 DEF Noticed
    <3>3. act' \in [Workers -> SUBSET (Listeners \cup OtherEvents)]
      <4>1. PICK n \in Noticed(w) :
                act' = [act EXCEPT ![w] = act[w] \cup Ready(w) \cup n]
        BY <2>2 DEF Poll
      <4> QED BY <3>1, <3>2, <4>1
    <3> QED BY <2>2, <3>3 DEF Poll, Goto, sharedVars
  <2>3. ASSUME NEW w \in Workers, Callback(w) PROVE TypeOK'
    <3> USE DEF Goto, Resume, Runnable, Open, sharedVars
    <3>1. CASE StartAccept(w) BY <3>1 DEF StartAccept
    <3>2. CASE DelayTimer(w) BY <3>2 DEF DelayTimer
    <3>3. CASE ResumeTimer(w)
      <4>1. listening' \in [Workers -> SUBSET Listeners]
        BY <3>3 DEF ResumeTimer
      <4> QED BY <3>3, <4>1 DEF ResumeTimer
    <3>4. CASE Io(w) BY <3>4 DEF Io
    <3>5. CASE Term(w) BY <3>5 DEF Term
    <3> QED BY <2>3, <3>1, <3>2, <3>3, <3>4, <3>5 DEF Callback
  <2>4. ASSUME NEW w \in Workers, AcceptStep(w) PROVE TypeOK'
    <3> USE DEF Goto, Pause, Kept, Unlock, GiveBack, AddTimer, HasConn,
                AcceptReturn, AcceptNext, Throttle,
                sharedVars
    <3>0. ASSUME Dequeue(w), pc[w] = "accept"
          PROVE  backlog' \in [Listeners -> 0 .. MaxBacklog]
      BY <3>0 DEF Dequeue
    <3>1. CASE AcceptAgain(w) BY <3>1 DEF AcceptAgain
    <3>2. CASE AcceptAborted(w) BY <3>0, <3>2 DEF AcceptAborted
    <3>3. CASE AcceptEmfileMutex(w) BY <3>3 DEF AcceptEmfileMutex
    <3>4. CASE AcceptEmfileTimer(w)
      <4>1. timers' \in [Workers -> SUBSET Timers]
        BY <3>4 DEF AcceptEmfileTimer
      <4>2. listening' \in [Workers -> SUBSET Listeners]
        BY <3>4 DEF AcceptEmfileTimer
      <4> QED BY <3>4, <4>1, <4>2 DEF AcceptEmfileTimer
    <3>5. CASE AcceptEmfilePauseFails(w) BY <3>5 DEF AcceptEmfilePauseFails
    <3>6. CASE AcceptNoConn(w) BY <3>0, <3>6 DEF AcceptNoConn
    <3>7. CASE AcceptNoMem(w) BY <3>0, <3>7 DEF AcceptNoMem
    <3>8. CASE Accept(w) BY <3>0, <3>8 DEF Accept
    <3> QED BY <2>4, <3>1, <3>2, <3>3, <3>4, <3>5, <3>6, <3>7, <3>8
            DEF AcceptStep
  <2>5. ASSUME NEW w \in Workers, DispatchReturn(w) PROVE TypeOK'
    <3>1. lock' \in Workers \cup {NoWorker}
      BY <2>5 DEF DispatchReturn, Unlock
    <3>2. UNCHANGED <<backlog, mode, disabled, free, quit, cur>>
      BY <2>5 DEF DispatchReturn
    <3>3. CASE quit[w]
      <4>1. ProcessExit(w)
        BY <2>5, <3>3 DEF DispatchReturn
      <4> QED BY <3>1, <3>2, <4>1 DEF ProcessExit, Goto
    <3>4. CASE ~quit[w]
      <4>1. Goto(w, "loop") /\ UNCHANGED <<held, listening, act>>
        BY <2>5, <3>4 DEF DispatchReturn
      <4>2. timers' \in [Workers -> SUBSET Timers]
        BY <2>5, <3>4 DEF DispatchReturn
      <4> QED BY <3>1, <3>2, <4>1, <4>2 DEF Goto
    <3> QED BY <3>3, <3>4
  <2>6. ASSUME NEW w \in Workers, DispatchFails(w) PROVE TypeOK'
    BY <2>6 DEF DispatchFails, ProcessExit, Goto, sharedVars
  <2>7. ASSUME NEW w \in Workers, Catch(w) PROVE TypeOK'
    BY <2>7 DEF Catch, Unlock, ProcessExit, Goto
  <2>8. ASSUME NEW l \in Listeners, Arrive(l) PROVE TypeOK'
    BY <2>8 DEF Arrive
  <2>9. CASE UNCHANGED vars
    BY <2>9 DEF vars
  <2> QED
    BY <2>1, <2>2, <2>3, <2>4, <2>5, <2>6, <2>7, <2>8, <2>9 DEF Next, Step
<1> QED
  BY <1>1, <1>2, PTL DEF Spec

-----------------------------------------------------------------------------
(* The lock.                                                               *)

\* The lock is never left behind, whatever fails: its owner is in a polling
\* round that will release it. LockNotLeaked is inductive relative to TypeOK:
\* every action that takes the owner out of its round, or clears its flag,
\* releases the lock in the same step.
THEOREM LockNeverLeaks == Spec => []LockNotLeaked
<1> USE AcceptorAssumption
<1> USE DEF LockNotLeaked, UnderMutex, InRound
<1>1. Init => LockNotLeaked
  BY DEF Init
<1>2. TypeOK /\ LockNotLeaked /\ [Next]_vars => LockNotLeaked'
  <2> SUFFICES ASSUME TypeOK, LockNotLeaked, [Next]_vars
               PROVE  LockNotLeaked'
    OBVIOUS
  <2> USE DEF TypeOK
  <2>1. ASSUME NEW w \in Workers, Step(w) PROVE LockNotLeaked'
    <3> USE DEF Goto, EnterPoll, Unlock, GiveBack, Releases, ProcessExit,
                AcceptReturn,
                AcceptNext, LoopDone, MayTry, sharedVars
    <3>1. CASE DispatchPlain(w) BY <3>1 DEF DispatchPlain
    <3>2. CASE DispatchDisabled(w) BY <3>2 DEF DispatchDisabled
    <3>3. CASE TryLockWin(w) BY <3>3 DEF TryLockWin
    <3>4. CASE TryLockResumeFails(w) BY <3>4 DEF TryLockResumeFails
    <3>5. CASE TryLockLose(w) BY <3>5 DEF TryLockLose
    <3>6. CASE TryLockLoseFails(w) BY <3>6 DEF TryLockLoseFails
    <3>7. CASE Poll(w) BY <3>7 DEF Poll
    <3>8. CASE StartAccept(w) BY <3>8 DEF StartAccept
    <3>9. CASE DelayTimer(w) BY <3>9 DEF DelayTimer
    <3>10. CASE ResumeTimer(w) BY <3>10 DEF ResumeTimer
    <3>11. CASE Io(w) BY <3>11 DEF Io
    <3>12. CASE Term(w) BY <3>12 DEF Term
    <3>13. CASE AcceptAgain(w) BY <3>13 DEF AcceptAgain
    <3>14. CASE AcceptAborted(w) BY <3>14 DEF AcceptAborted
    <3>15. CASE AcceptEmfileMutex(w) BY <3>15 DEF AcceptEmfileMutex
    <3>16. CASE AcceptEmfileTimer(w) BY <3>16 DEF AcceptEmfileTimer
    <3>17. CASE AcceptEmfilePauseFails(w) BY <3>17 DEF AcceptEmfilePauseFails
    <3>18. CASE AcceptNoConn(w) BY <3>18 DEF AcceptNoConn
    <3>19. CASE AcceptNoMem(w) BY <3>19 DEF AcceptNoMem
    <3>20. CASE Accept(w) BY <3>20 DEF Accept
    <3>21. CASE DispatchReturn(w) BY <3>21 DEF DispatchReturn
    <3>22. CASE DispatchFails(w) BY <3>22 DEF DispatchFails
    <3>23. CASE Catch(w) BY <3>23 DEF Catch
    <3> QED
      BY <2>1, <3>1, <3>2, <3>3, <3>4, <3>5, <3>6, <3>7, <3>8, <3>9, <3>10,
         <3>11, <3>12, <3>13, <3>14, <3>15, <3>16, <3>17, <3>18, <3>19,
         <3>20, <3>21, <3>22, <3>23
      DEF Step, Dispatch, Callback, AcceptStep
  <2>2. ASSUME NEW l \in Listeners, Arrive(l) PROVE LockNotLeaked'
    BY <2>2 DEF Arrive
  <2>3. CASE UNCHANGED vars
    BY <2>3 DEF vars
  <2> QED
    BY <2>1, <2>2, <2>3 DEF Next
<1> QED
  BY <1>1, <1>2, TypeCorrect, PTL DEF Spec

\* A worker that polls under the mutex is the one that acquired it.
RoundOwnsLock == \A w \in Workers : UnderMutex(w) => lock = w

\* As long as no worker runs out of descriptors and none raises an ERROR, the
\* accept mutex excludes, for any number of workers, although the flag that
\* guards the release outlives the lock by a round: nobody but the owner of
\* the lock ever releases it.
THEOREM MutexExcludes ==
    ASSUME "emfile" \notin Faults, "error" \notin Faults
    PROVE  Spec => []MutualExclusion
<1> USE AcceptorAssumption
<1> USE DEF RoundOwnsLock, UnderMutex, InRound
<1>1. Init => RoundOwnsLock
  BY DEF Init
<1>2. TypeOK /\ RoundOwnsLock /\ [Next]_vars => RoundOwnsLock'
  <2> SUFFICES ASSUME TypeOK, RoundOwnsLock, [Next]_vars
               PROVE  RoundOwnsLock'
    OBVIOUS
  <2> USE DEF TypeOK
  <2>1. ASSUME NEW w \in Workers, Step(w) PROVE RoundOwnsLock'
    <3> USE DEF Goto, EnterPoll, Unlock, GiveBack, Releases, ProcessExit,
                AcceptReturn,
                AcceptNext, LoopDone, MayTry, sharedVars
    <3>1. CASE DispatchPlain(w) BY <3>1 DEF DispatchPlain
    <3>2. CASE DispatchDisabled(w) BY <3>2 DEF DispatchDisabled
    <3>3. CASE TryLockWin(w) BY <3>3 DEF TryLockWin
    <3>4. CASE TryLockResumeFails(w) BY <3>4 DEF TryLockResumeFails
    <3>5. CASE TryLockLose(w) BY <3>5 DEF TryLockLose
    <3>6. CASE TryLockLoseFails(w) BY <3>6 DEF TryLockLoseFails
    <3>7. CASE Poll(w) BY <3>7 DEF Poll
    <3>8. CASE StartAccept(w) BY <3>8 DEF StartAccept
    <3>9. CASE DelayTimer(w) BY <3>9 DEF DelayTimer
    <3>10. CASE ResumeTimer(w) BY <3>10 DEF ResumeTimer
    <3>11. CASE Io(w) BY <3>11 DEF Io
    <3>12. CASE Term(w) BY <3>12 DEF Term
    <3>13. CASE AcceptAgain(w) BY <3>13 DEF AcceptAgain
    <3>14. CASE AcceptAborted(w) BY <3>14 DEF AcceptAborted
    <3>15. CASE AcceptEmfileMutex(w) BY <3>15 DEF AcceptEmfileMutex
    <3>16. CASE AcceptEmfileTimer(w) BY <3>16 DEF AcceptEmfileTimer
    <3>17. CASE AcceptEmfilePauseFails(w) BY <3>17 DEF AcceptEmfilePauseFails
    <3>18. CASE AcceptNoConn(w) BY <3>18 DEF AcceptNoConn
    <3>19. CASE AcceptNoMem(w) BY <3>19 DEF AcceptNoMem
    <3>20. CASE Accept(w) BY <3>20 DEF Accept
    <3>21. CASE DispatchReturn(w) BY <3>21 DEF DispatchReturn
    <3>22. CASE DispatchFails(w) BY <3>22 DEF DispatchFails
    <3>23. CASE Catch(w) BY <3>23 DEF Catch
    <3> QED
      BY <2>1, <3>1, <3>2, <3>3, <3>4, <3>5, <3>6, <3>7, <3>8, <3>9, <3>10,
         <3>11, <3>12, <3>13, <3>14, <3>15, <3>16, <3>17, <3>18, <3>19,
         <3>20, <3>21, <3>22, <3>23
      DEF Step, Dispatch, Callback, AcceptStep
  <2>2. ASSUME NEW l \in Listeners, Arrive(l) PROVE RoundOwnsLock'
    BY <2>2 DEF Arrive
  <2>3. CASE UNCHANGED vars
    BY <2>3 DEF vars
  <2> QED
    BY <2>1, <2>2, <2>3 DEF Next
<1>3. RoundOwnsLock => MutualExclusion
  BY DEF MutualExclusion
<1> QED
  BY <1>1, <1>2, <1>3, TypeCorrect, PTL DEF Spec

-----------------------------------------------------------------------------
(* The registrations of the listeners.                                     *)

\* The flag, the registered listeners, the timers and the exit flag of every
\* worker agree across rounds, with and without the mutex and whatever fails.
THEOREM ListenersConsistent == Spec => []ListenInv
<1> USE AcceptorAssumption
<1> USE DEF ListenInv, NoResumeTimer, LoopMeansRunning, PauseHasTimer,
            FlagMatchesListeners, BlockedWorkerWakes
<1>1. Init => ListenInv
  BY DEF Init
<1>2. TypeOK /\ ListenInv /\ [Next]_vars => ListenInv'
  <2> SUFFICES ASSUME TypeOK, ListenInv, [Next]_vars
               PROVE  ListenInv'
    OBVIOUS
  <2> USE DEF TypeOK
  <2>1. ASSUME NEW w \in Workers, Step(w) PROVE ListenInv'
    <3> USE DEF Goto, EnterPoll, Unlock, GiveBack, Releases, AddTimer,
                ProcessExit, Resume, Pause, Kept,
                AcceptReturn, AcceptNext, LoopDone, MayTry, sharedVars
    <3>1. CASE DispatchPlain(w) BY <3>1 DEF DispatchPlain
    <3>2. CASE DispatchDisabled(w) BY <3>2 DEF DispatchDisabled
    <3>3. CASE TryLockWin(w) BY <3>3 DEF TryLockWin
    <3>4. CASE TryLockResumeFails(w) BY <3>4 DEF TryLockResumeFails
    <3>5. CASE TryLockLose(w)
      <4>1. \A v \in Workers : act'[v] \subseteq act[v]
        BY <3>5 DEF TryLockLose
      <4>2. NoResumeTimer'
        BY <3>5, <4>1 DEF TryLockLose, Timers
      <4>3. LoopMeansRunning' /\ PauseHasTimer'
        BY <3>5 DEF TryLockLose
      <4>4. FlagMatchesListeners'
        BY <3>5 DEF TryLockLose
      <4>5. BlockedWorkerWakes'
        BY <3>5, SMTT(30) DEF TryLockLose
      <4> QED BY <4>2, <4>3, <4>4, <4>5 DEF ListenInv
    <3>6. CASE TryLockLoseFails(w) BY <3>6 DEF TryLockLoseFails
    <3>7. CASE Poll(w)
      <4>1. UNCHANGED <<held, listening, timers, quit>> /\ Goto(w, "run")
        BY <3>7 DEF Poll
      <4>2. PICK n \in Noticed(w) :
                act' = [act EXCEPT ![w] = act[w] \cup Ready(w) \cup n]
        BY <3>7 DEF Poll
      <4>3. UseMutex => "resume" \notin n \cup Ready(w)
        BY DEF Noticed, Ready, OtherEvents, Timers
      <4>4. pc[w] \in {"poll", "run"}
        BY <3>7 DEF Poll
      <4>5. NoResumeTimer'
        BY <4>1, <4>2, <4>3
      <4>6. LoopMeansRunning'
        BY <4>1, <4>4
      <4>7. PauseHasTimer'
        BY <4>1, <4>4
      <4>8. FlagMatchesListeners'
        BY <4>1, <4>4
      <4>9. BlockedWorkerWakes'
        BY <3>7, <4>1, <4>4 DEF Poll
      <4> QED BY <4>5, <4>6, <4>7, <4>8, <4>9 DEF ListenInv
    <3>8. CASE StartAccept(w) BY <3>8 DEF StartAccept
    <3>9. CASE DelayTimer(w) BY <3>9 DEF DelayTimer
    <3>10. CASE ResumeTimer(w)
      <4>1. ~UseMutex
        BY <3>10 DEF ResumeTimer, Runnable
      <4>2. UNCHANGED <<pc, mode>> /\ pc[w] = "run"
        BY <3>10 DEF ResumeTimer
      <4>3. \A v \in Workers \ {w} :
               UNCHANGED <<listening[v], timers[v], quit[v]>>
        BY <3>10 DEF ResumeTimer
      <4>4. listening'[w] = Listeners \/ quit'[w]
        BY <3>10 DEF ResumeTimer
      <4>5. NoResumeTimer' /\ FlagMatchesListeners'
        BY <4>1
      <4>6. LoopMeansRunning' /\ PauseHasTimer' /\ BlockedWorkerWakes'
        BY <4>2, <4>3, <4>4
      <4> QED BY <4>5, <4>6 DEF ListenInv
    <3>11. CASE Io(w) BY <3>11 DEF Io
    <3>12. CASE Term(w) BY <3>12 DEF Term
    <3>13. CASE AcceptAgain(w) BY <3>13 DEF AcceptAgain
    <3>14. CASE AcceptAborted(w) BY <3>14 DEF AcceptAborted
    <3>15. CASE AcceptEmfileMutex(w) BY <3>15 DEF AcceptEmfileMutex
    <3>16. CASE AcceptEmfileTimer(w) BY <3>16 DEF AcceptEmfileTimer
    <3>17. CASE AcceptEmfilePauseFails(w) BY <3>17 DEF AcceptEmfilePauseFails
    <3>18. CASE AcceptNoConn(w) BY <3>18 DEF AcceptNoConn
    <3>19. CASE AcceptNoMem(w) BY <3>19 DEF AcceptNoMem
    <3>20. CASE Accept(w) BY <3>20 DEF Accept
    <3>21. CASE DispatchReturn(w) BY <3>21 DEF DispatchReturn
    <3>22. CASE DispatchFails(w) BY <3>22 DEF DispatchFails
    <3>23. CASE Catch(w) BY <3>23 DEF Catch
    <3> QED
      BY <2>1, <3>1, <3>2, <3>3, <3>4, <3>5, <3>6, <3>7, <3>8, <3>9, <3>10,
         <3>11, <3>12, <3>13, <3>14, <3>15, <3>16, <3>17, <3>18, <3>19,
         <3>20, <3>21, <3>22, <3>23
      DEF Step, Dispatch, Callback, AcceptStep
  <2>2. ASSUME NEW l \in Listeners, Arrive(l) PROVE ListenInv'
    BY <2>2 DEF Arrive
  <2>3. CASE UNCHANGED vars
    BY <2>3 DEF vars
  <2> QED
    BY <2>1, <2>2, <2>3 DEF Next
<1> QED
  BY <1>1, <1>2, TypeCorrect, PTL DEF Spec

\* A worker trusts mutex_held only while all its listeners are registered, and
\* watches no shared listener when it does not.
THEOREM FlagTracksListeners == Spec => []FlagMatchesListeners
<1>1. ListenInv => FlagMatchesListeners
  BY DEF ListenInv
<1> QED
  BY <1>1, ListenersConsistent, PTL

\* Outside the rounds it sits out, a blocked worker will look at the listeners
\* again.
THEOREM BlockedWorkersWake == Spec => []BlockedWorkerWakes
<1>1. ListenInv => BlockedWorkerWakes
  BY DEF ListenInv
<1> QED
  BY <1>1, ListenersConsistent, PTL

=============================================================================
