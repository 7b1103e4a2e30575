--------------------------- MODULE WaitQueueProofs ---------------------------
(* Safety of WaitQueue for every set of threads and every batch size.        *)
EXTENDS WaitQueue, TLAPS

\* A thread that can run module code is in the list, and the one whose stop
\* has returned cannot: kthread_stop is the only way out of the list.
ListedAlive ==
  /\ \A t \in Thread : thread[t] \in InModule => t \in wait_threads_list
  /\ loader = "poke" => thread[pos] \notin InModule
  /\ loader = "gone" => wait_threads_list = {}

\* Only the thread being stopped, or one already unlisted, is marked, and a
\* thread leaves its loop only if it is marked.
MarkedGone ==
  /\ \A t \in should_stop : t = pos \/ t \notin wait_threads_list
  /\ \A t \in Thread : thread[t] = "leave" => t \in should_stop

\* An index that has not been tried has no thread.
Untried ==
  /\ todo # {} => loader = "create"
  /\ \A t \in todo : thread[t] = "none" /\ t \notin should_stop

\* Nobody is stopped before rmmod.
NoneMarked ==
  loader \notin {"stop", "join", "poke", "gone"} => should_stop = {}

Inv ==
  /\ TypeOK /\ QueueIsLoop /\ StopTargetsLive
  /\ ListedAlive /\ MarkedGone /\ Untried /\ NoneMarked /\ WalkOnQueue
-----------------------------------------------------------------------------
\* A fresh module has no thread, so the invariant holds of it.
LEMMA InitInv == Init => Inv
  BY ThreadAssumption DEF Init, Inv, TypeOK, QueueIsLoop, StopTargetsLive, ListedAlive,
     MarkedGone, Untried, NoneMarked, WalkOnQueue, InModule, InLoop

\* Every step of the loader, of a test thread and of the work item keeps it.
LEMMA StepInv == Inv /\ [Next]_vars => Inv'
<1> SUFFICES ASSUME Inv, [Next]_vars PROVE Inv'
  OBVIOUS
<1> USE ThreadAssumption DEF Inv, TypeOK, QueueIsLoop, StopTargetsLive, ListedAlive,
    MarkedGone, Untried, NoneMarked, WalkOnQueue, InModule, InLoop,
    Loader, WakeThreads, vars, lvars, tvars, hvars
<1>1. ASSUME NEW t \in Thread, CreateThread(t) PROVE Inv'
  BY <1>1 DEF CreateThread
<1>2. ASSUME ScheduleWork PROVE Inv'
  BY <1>2 DEF ScheduleWork
<1>3. ASSUME WaitEvent PROVE Inv'
  BY <1>3 DEF WaitEvent
<1>4. ASSUME WakeBegin PROVE Inv'
  BY <1>4 DEF WakeBegin
<1>5. ASSUME WakeBatch PROVE Inv'
  BY <1>5 DEF WakeBatch
<1>6. ASSUME CleanupModule PROVE Inv'
  BY <1>6 DEF CleanupModule
<1>7. ASSUME NEW t \in Thread, KthreadStop(t) PROVE Inv'
  BY <1>7 DEF KthreadStop
<1>8. ASSUME KthreadStopReturns PROVE Inv'
  BY <1>8 DEF KthreadStopReturns
<1>9. ASSUME PokeAndFree PROVE Inv'
  BY <1>9 DEF PokeAndFree
<1>10. ASSUME FreeModule PROVE Inv'
  BY <1>10 DEF FreeModule
<1>11. ASSUME NEW t \in Thread, Enter(t) PROVE Inv'
  BY <1>11 DEF Enter
<1>12. ASSUME NEW t \in Thread, Sleep(t) PROVE Inv'
  BY <1>12 DEF Sleep
<1>13. ASSUME NEW t \in Thread, Timeout(t) PROVE Inv'
  BY <1>13 DEF Timeout
<1>14. ASSUME NEW t \in Thread, TestStop(t) PROVE Inv'
  BY <1>14 DEF TestStop
<1>15. ASSUME NEW t \in Thread, Leave(t) PROVE Inv'
  BY <1>15 DEF Leave
<1>16. ASSUME NEW t \in Thread, Reap(t) PROVE Inv'
  BY <1>16 DEF Reap
<1>17. ASSUME SetStop PROVE Inv'
  BY <1>17 DEF SetStop
<1>18. ASSUME WakeLoader \/ RunFreedHandler PROVE Inv'
  BY <1>18 DEF WakeLoader, RunFreedHandler
<1>19. ASSUME Signal PROVE Inv'
  BY <1>19 DEF Signal
<1>20. ASSUME Unloaded PROVE Inv'
  BY <1>20 DEF Unloaded
<1>21. ASSUME UNCHANGED vars PROVE Inv'
  BY <1>21
<1> QED
  BY <1>1, <1>2, <1>3, <1>4, <1>5, <1>6, <1>7, <1>8, <1>9, <1>10, <1>11, <1>12, <1>13, <1>14, <1>15, <1>16, <1>17, <1>18, <1>19, <1>20, <1>21 DEF Next, LoaderStep, ThreadStep, WorkStep

LEMMA Invariance == Spec => []Inv
<1>1. Init => Inv
  BY InitInv
<1>2. Inv /\ [Next]_vars => Inv'
  BY StepInv
<1> QED
  BY <1>1, <1>2, PTL DEF Spec

\* The state is well typed for every number of threads and batch size, and
\* pos is a record of the list just while stop_test_threads is iterating.
THEOREM TypeCorrect == Spec => []TypeOK
<1>1. Inv => TypeOK
  BY DEF Inv
<1> QED
  BY <1>1, Invariance, PTL

\* cleanup_module (waitqueue.c:108-112) returns only when no test thread can
\* run module code and bookmark_wait_queue is empty.
THEOREM UnloadSafe == Spec => []NoThreadAfterUnload
<1>1. Inv => NoThreadAfterUnload
  BY DEF Inv, ListedAlive, QueueIsLoop, NoThreadAfterUnload, InModule
<1> QED
  BY <1>1, Invariance, PTL

\* kthread_stop (waitqueue.c:39) is only called on threads that are alive.
THEOREM StopTargetsAreLive == Spec => []StopTargetsLive
<1>1. Inv => StopTargetsLive
  BY DEF Inv
<1> QED
  BY <1>1, Invariance, PTL

\* add_wait_queue and remove_wait_queue (waitqueue.c:48, 57) bracket the loop.
THEOREM QueueIsTheLoop == Spec => []QueueIsLoop
<1>1. Inv => QueueIsLoop
  BY DEF Inv
<1> QED
  BY <1>1, Invariance, PTL

\* The wake-up of bookmark_wait_queue (waitqueue.c:103) finds every entry that
\* is ahead of it still queued, however often it drops the lock: the threads
\* that run meanwhile leave their loop for kthread_stop alone.
THEOREM WalkStaysOnQueue == Spec => []WalkOnQueue
<1>1. Inv => WalkOnQueue
  BY DEF Inv
<1> QED
  BY <1>1, Invariance, PTL
-----------------------------------------------------------------------------
\* The test threads keep the life cycle of a module: kthread_create is the
\* start of an agent, and a thread that leaves its loop is its end.
THEOREM KeepsModuleLife == Spec => LifeSpec
<1> USE DEF Stage, InModule, InLoop
<1>1. Init => Life!Init
  BY DEF Init, Life!Init
<1>2. Inv /\ [Next]_vars => [Life!Next]_(Life!vars)
  <2> SUFFICES ASSUME Inv, [Next]_vars
               PROVE  Life!Next \/ UNCHANGED Life!vars
    OBVIOUS
  <2> USE DEF Inv, TypeOK, Loader, WakeThreads, Life!vars,
              lvars, tvars, hvars
  <2>1. ASSUME NEW t \in Thread, CreateThread(t) PROVE Life!Next \/ UNCHANGED Life!vars
    <3>1. Life!Start(t) \/ UNCHANGED Life!vars
      BY <2>1 DEF CreateThread, Life!Start
    <3> QED
      BY <3>1 DEF Life!Next
  <2>2. ASSUME NEW t \in Thread, Enter(t) PROVE Life!Next \/ UNCHANGED Life!vars
    <3>1. Life!Finish(t) \/ UNCHANGED Life!vars
      BY <2>2 DEF Enter, Life!Finish
    <3> QED
      BY <3>1 DEF Life!Next
  <2>3. ASSUME NEW t \in Thread, Leave(t) PROVE Life!Next \/ UNCHANGED Life!vars
    <3>1. Life!Finish(t)
      BY <2>3 DEF Leave, Life!Finish
    <3> QED
      BY <3>1 DEF Life!Next
  <2>4. ASSUME NEW t \in Thread, Sleep(t) \/ Timeout(t) \/ TestStop(t) \/ Reap(t)
        PROVE  UNCHANGED Life!vars
    BY <2>4 DEF Sleep, Timeout, TestStop, Reap
  <2>5. CASE WakeBatch
    <3>1. Life!Loaded \/ UNCHANGED Life!vars
      BY <2>5 DEF WakeBatch, Life!Loaded, Life!Stage
    <3> QED
      BY <3>1 DEF Life!Next
  <2>6. CASE CleanupModule
    BY <2>6 DEF CleanupModule, Life!Next, Life!Unload, Life!Stage
  <2>7. CASE FreeModule
    <3>1. Life!Free
      BY <2>7 DEF FreeModule, ListedAlive, Life!Free, Life!Stage
    <3> QED
      BY <3>1 DEF Life!Next
  <2>8. ASSUME NEW t \in Thread, KthreadStop(t) PROVE UNCHANGED Life!vars
    BY <2>8 DEF KthreadStop
  <2>9. CASE ScheduleWork \/ WaitEvent \/ WakeBegin \/ KthreadStopReturns \/ PokeAndFree
    BY <2>9 DEF ScheduleWork, WaitEvent, WakeBegin, KthreadStopReturns, PokeAndFree
  <2>10. CASE WorkStep \/ Signal
    BY <2>10 DEF WorkStep, SetStop, WakeLoader, RunFreedHandler, Signal
  <2>11. CASE Unloaded \/ UNCHANGED vars
    BY <2>11 DEF Unloaded, vars
  <2> QED
    BY <2>1, <2>2, <2>3, <2>4, <2>5, <2>6, <2>7, <2>8, <2>9, <2>10, <2>11
       DEF Next, LoaderStep, ThreadStep
<1> QED
  BY <1>1, <1>2, Invariance, PTL DEF Spec, LifeSpec, Life!Spec
==============================================================================
