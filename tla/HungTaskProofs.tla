--------------------------- MODULE HungTaskProofs ----------------------------
(* Safety of HungTask for every timeout and any number of processors.        *)
EXTENDS HungTask, TLAPS

\* Until the callback has released dead_lock insmod holds it and waits for it.
HeldUntilReleased ==
  /\ loader = "locked" => dead_lock
  /\ timer \in {"armed", "fired"} =>
       dead_lock /\ loader \in {"relock", "queueing", "asleep"}

\* The callback runs once the timeout is over; a loaded module is past its
\* unlock, an unloaded one past its return.
CallbackFirst ==
  /\ timer \in {"fired", "released", "done"} => remaining = 0
  /\ loader \in {"live", "exit", "gone"} => timer \in {"released", "done"}
  /\ loader = "gone" => timer = "done"

Inv == TypeOK /\ HeldUntilReleased /\ CallbackFirst /\ LoadedHoldsLock
-----------------------------------------------------------------------------
\* insmod starts with the mutex free and the timer idle.
LEMMA InitInv == Init => Inv
<1> SUFFICES ASSUME Init PROVE Inv
  OBVIOUS
<1>1. TypeOK
  <2>1. remaining \in 0 .. Timeout
    BY TimeoutAssumption DEF Init
  <2> QED
    BY <2>1 DEF Init, TypeOK
<1>2. HeldUntilReleased /\ CallbackFirst /\ LoadedHoldsLock
  BY DEF Init, HeldUntilReleased, CallbackFirst, LoadedHoldsLock
<1> QED
  BY <1>1, <1>2 DEF Inv

\* The steps of insmod, rmmod, the timer and the scheduler keep it.
LEMMA StepInv == Inv /\ [Next]_vars => Inv'
<1> SUFFICES ASSUME Inv, [Next]_vars PROVE Inv'
  OBVIOUS
<1> USE TimeoutAssumption DEF Inv, TypeOK, HeldUntilReleased, CallbackFirst,
    LoadedHoldsLock, Loader
<1>1. CASE FirstLock
  BY <1>1 DEF FirstLock
<1>2. CASE StartTimer
  BY <1>2 DEF StartTimer
<1>3. CASE SecondLock
  <2>1. CASE dead_lock' = TRUE /\ ~ dead_lock
    \* The mutex is taken only after the callback has let go of it.
    <3>1. timer \in {"released", "done"}
      BY <1>3, <2>1 DEF SecondLock
    <3> QED
      BY <1>3, <2>1, <3>1 DEF SecondLock
  <2>2. CASE dead_lock
    BY <1>3, <2>2 DEF SecondLock
  <2> QED
    BY <1>3, <2>1, <2>2 DEF SecondLock
<1>4. CASE Migrate
  BY <1>4 DEF Migrate
<1>5. CASE Tick
  BY <1>5 DEF Tick
<1>6. CASE Expire
  BY <1>6 DEF Expire
<1>7. CASE Release
  BY <1>7 DEF Release
<1>8. CASE CallbackReturns
  BY <1>8 DEF CallbackReturns
<1>9. CASE Rmmod
  BY <1>9 DEF Rmmod
<1>10. CASE ExitLoop
  BY <1>10 DEF ExitLoop, TimerActive
<1>11. CASE UNCHANGED vars
  BY <1>11 DEF vars
<1> QED
  BY <1>1, <1>2, <1>3, <1>4, <1>5, <1>6, <1>7, <1>8, <1>9, <1>10, <1>11
     DEF Next, LoaderStep, TimerStep, Unloaded

LEMMA Invariance == Spec => []Inv
<1>1. Inv /\ [Next]_vars => Inv'
  BY StepInv
<1> QED
  BY <1>1, InitInv, PTL DEF Spec

\* The state is well typed, and the timer is idle just until it is started.
THEOREM TypeCorrect == Spec => []TypeOK
<1>1. Inv => TypeOK
  BY DEF Inv
<1> QED
  BY <1>1, Invariance, PTL

\* exit_hung_task_test (hung_task.c:55-59) outlasts the callback.
THEOREM FreeAfterCallback == Spec => []NoCallbackAfterFree
<1>1. Inv => NoCallbackAfterFree
  BY DEF Inv, CallbackFirst, NoCallbackAfterFree, TimerActive
<1> QED
  BY <1>1, Invariance, PTL

\* The second mutex_lock (hung_task.c:48) blocks until the timeout is over.
THEOREM InsmodBlocks == Spec => []BlocksUntilExpiry
<1>1. Inv => BlocksUntilExpiry
  BY DEF Inv, CallbackFirst, BlocksUntilExpiry
<1> QED
  BY <1>1, Invariance, PTL

\* A loaded module holds the mutex: there is one unlock for two locks.
THEOREM LockStaysHeld == Spec => []LoadedHoldsLock
<1>1. Inv => LoadedHoldsLock
  BY DEF Inv
<1> QED
  BY <1>1, Invariance, PTL
-----------------------------------------------------------------------------
\* insmod, rmmod and the callback keep the life cycle of a module: starting
\* the timer starts the callback, and rmmod frees the module after its return.
THEOREM KeepsModuleLife == Spec => LifeSpec
<1> USE DEF Stage, TimerActive
<1>1. Init => Life!Init
  BY DEF Init, Life!Init
<1>2. Inv /\ [Next]_vars => [Life!Next]_(Life!vars)
  <2> SUFFICES ASSUME Inv, [Next]_vars
               PROVE  Life!Next \/ UNCHANGED Life!vars
    OBVIOUS
  <2> USE DEF Inv, TypeOK, Loader, Life!vars
  <2>1. CASE StartTimer
    <3>1. Life!Start("callback")
      BY <2>1 DEF StartTimer, Life!Start
    <3> QED
      BY <3>1 DEF Life!Next
  <2>2. CASE CallbackReturns
    <3>1. Life!Finish("callback")
      BY <2>2 DEF CallbackReturns, Life!Finish
    <3> QED
      BY <3>1 DEF Life!Next
  <2>3. CASE SecondLock
    <3>1. Life!Loaded \/ UNCHANGED Life!vars
      BY <2>3 DEF SecondLock, Life!Loaded, Life!Stage
    <3> QED
      BY <3>1 DEF Life!Next
  <2>4. CASE Rmmod
    BY <2>4 DEF Rmmod, Life!Next, Life!Unload, Life!Stage
  <2>5. CASE ExitLoop
    BY <2>5 DEF ExitLoop, Life!Next, Life!Free, Life!Stage
  <2>6. CASE FirstLock
    BY <2>6 DEF FirstLock
  <2>7. CASE Migrate \/ Tick \/ Expire \/ Release
    BY <2>7 DEF Migrate, Tick, Expire, Release
  <2>8. CASE UNCHANGED vars
    BY <2>8 DEF vars
  <2> QED
    BY <2>1, <2>2, <2>3, <2>4, <2>5, <2>6, <2>7, <2>8
       DEF Next, LoaderStep, TimerStep, Unloaded
<1> QED
  BY <1>1, <1>2, Invariance, PTL DEF Spec, LifeSpec, Life!Spec
=============================================================================
