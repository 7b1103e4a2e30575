--------------------------- MODULE KretprobeProofs ---------------------------
(***************************************************************************)
(* What holds of kretprobe_example.c for every set of tasks, every size of *)
(* the instance pool and every bound on the clock.                         *)
(***************************************************************************)
EXTENDS Kretprobe, TLAPS

\* The stamp in the instance of a call that is being timed is that call's own.
StampIsOwn ==
  \A t \in Task : pc[t] = "in" /\ ri[t] # None => data[ri[t]] = called[t]

\* Between two registrations, and outside the function, no call holds one.
IdleIsFree ==
  /\ loader = "absent" => \A t \in Task : ri[t] = None
  /\ \A t \in Task : pc[t] = "out" => ri[t] = None

Inv ==
  /\ TypeOK /\ InstancesConserved /\ KthreadsSkipped
  /\ StampIsOwn /\ IdleIsFree /\ DurationIsOwn

USE TaskAssumption, InstanceAssumption, BoundAssumption

\* At the start no instance exists and nothing is logged.
LEMMA InitInv == Init => Inv
BY DEF Init, Inv, TypeOK, InstancesConserved, KthreadsSkipped, StampIsOwn,
       IdleIsFree, DurationIsOwn, Armed

\* The loader's own steps touch no call and no stamp.
LEMMA LoaderInv ==
  ASSUME Inv, Register \/ RegisterFails \/ InitReturns \/ Rmmod
              \/ Disarm \/ Synchronize \/ ExitReturns
  PROVE  Inv'
<1> USE DEF Loader, Inv, TypeOK, InstancesConserved, KthreadsSkipped,
            StampIsOwn, IdleIsFree, DurationIsOwn, Armed
<1>1. CASE Register
  BY <1>1 DEF Register
<1>2. CASE RegisterFails \/ InitReturns \/ Rmmod \/ Disarm \/ Synchronize
  BY <1>2 DEF RegisterFails, InitReturns, Rmmod, Disarm, Synchronize
<1>3. CASE ExitReturns
  BY <1>3 DEF ExitReturns
<1> QED BY <1>1, <1>2, <1>3

\* Once the probe is disarmed a call may lose its instance.
LEMMA DetachInv == ASSUME Inv, NEW t \in Task, Detach(t) PROVE Inv'
BY DEF Detach, Inv, TypeOK, InstancesConserved, KthreadsSkipped, StampIsOwn,
       IdleIsFree, DurationIsOwn, Armed

\* The clock is read by entry_handler and ret_handler only.
LEMMA TickInv == ASSUME Inv, Tick PROVE Inv'
BY DEF Tick, Inv, TypeOK, InstancesConserved, KthreadsSkipped, StampIsOwn,
       IdleIsFree, DurationIsOwn, Armed

\* A call takes an instance out of the pool, or is not timed.
LEMMA CallInv == ASSUME Inv, NEW t \in Task, Call(t) PROVE Inv'
<1>1. ri[t] = None
  BY DEF Call, Inv, IdleIsFree
<1>2. CASE UNCHANGED <<ri, free>> /\ nmissed' \in 0 .. MaxMissed
           /\ pc' = [pc EXCEPT ![t] = "in"]
  BY <1>1, <1>2 DEF Call, Inv, TypeOK, InstancesConserved, KthreadsSkipped,
     StampIsOwn, IdleIsFree, DurationIsOwn, Armed
<1>3. ASSUME NEW i \in free, Armed,
             pc' = [pc EXCEPT ![t] = "entry"], ri' = [ri EXCEPT ![t] = i],
             free' = free \ {i}, UNCHANGED nmissed
      PROVE  Inv'
  <2>1. TypeOK' /\ KthreadsSkipped'
    BY <1>3 DEF Call, Inv, TypeOK, KthreadsSkipped
  <2>2. InstancesConserved'
    <3>1. (\A u \in Task : ri[u] \notin free)'
      BY <1>3 DEF Inv, TypeOK, InstancesConserved
    <3>2. (\A u, v \in Task : ri[u] = ri[v] /\ ri[u] # None => u = v)'
      BY <1>3 DEF Inv, TypeOK, InstancesConserved
    <3>3. (Instance = free \cup {ri[u] : u \in {v \in Task : ri[v] # None}})'
      BY <1>1, <1>3 DEF Inv, TypeOK, InstancesConserved
    <3> QED BY <3>1, <3>2, <3>3 DEF InstancesConserved
  <2>3. StampIsOwn' /\ IdleIsFree' /\ DurationIsOwn'
    BY <1>3 DEF Call, Inv, TypeOK, StampIsOwn, IdleIsFree, DurationIsOwn, Armed
  <2> QED BY <2>1, <2>2, <2>3 DEF Inv
<1>4. nmissed \in Nat
  BY DEF Inv, TypeOK
<1> QED BY <1>2, <1>3, <1>4 DEF Call, Inv, TypeOK

\* entry_handler stamps the instance of its own call, which no other call has.
LEMMA EntryInv == ASSUME Inv, NEW t \in Task, EntryHandler(t) PROVE Inv'
<1>1. ri[t] \in Instance
  BY DEF EntryHandler, Inv, TypeOK
<1>2. CASE t \in Kthread
  <2>1. ri' = [ri EXCEPT ![t] = None] /\ free' = free \cup {ri[t]}
    BY <1>2 DEF EntryHandler
  <2>2. TypeOK' /\ KthreadsSkipped'
    BY <1>1, <1>2, <2>1 DEF EntryHandler, Inv, TypeOK, KthreadsSkipped
  <2>3. InstancesConserved'
    BY <1>1, <2>1 DEF EntryHandler, Inv, TypeOK, InstancesConserved, Armed
  <2>4. StampIsOwn' /\ IdleIsFree' /\ DurationIsOwn'
    BY <1>1, <1>2, <2>1
       DEF EntryHandler, Inv, TypeOK, StampIsOwn, IdleIsFree, DurationIsOwn
  <2> QED BY <2>2, <2>3, <2>4 DEF Inv
<1>3. CASE t \notin Kthread
  <2>1. UNCHANGED <<ri, free>> /\ data' = [data EXCEPT ![ri[t]] = now]
        /\ called' = [called EXCEPT ![t] = now]
    BY <1>3 DEF EntryHandler
  <2>2. TypeOK' /\ KthreadsSkipped'
    BY <1>1, <1>3, <2>1 DEF EntryHandler, Inv, TypeOK, KthreadsSkipped
  <2>3. InstancesConserved'
    BY <2>1 DEF EntryHandler, Inv, TypeOK, InstancesConserved, Armed
  <2>4. StampIsOwn'
    BY <1>1, <2>1 DEF EntryHandler, Inv, TypeOK, StampIsOwn, InstancesConserved
  <2>5. IdleIsFree' /\ DurationIsOwn'
    BY <2>1 DEF EntryHandler, Inv, TypeOK, IdleIsFree, DurationIsOwn
  <2> QED BY <2>2, <2>3, <2>4, <2>5 DEF Inv
<1> QED BY <1>2, <1>3

\* ret_handler logs the difference to the stamp of its own call.
LEMMA RetInv == ASSUME Inv, NEW t \in Task, RetHandler(t) PROVE Inv'
<1>1. data[ri[t]] = called[t]
  BY DEF RetHandler, Inv, StampIsOwn
<1>2. DurationIsOwn'
  BY <1>1 DEF RetHandler, DurationIsOwn
<1> QED
  BY <1>2 DEF RetHandler, Inv, TypeOK, InstancesConserved, KthreadsSkipped,
     StampIsOwn, IdleIsFree, Armed

\* The instance of a finished call returns to the pool.
LEMMA RecycleInv == ASSUME Inv, NEW t \in Task, Recycle(t) PROVE Inv'
<1>1. ri[t] \in Instance
  BY DEF Recycle, Inv, TypeOK
<1>2. TypeOK' /\ KthreadsSkipped'
  BY <1>1 DEF Recycle, Inv, TypeOK, KthreadsSkipped
<1>3. InstancesConserved'
  BY <1>1 DEF Recycle, Inv, TypeOK, InstancesConserved, Armed
<1>4. StampIsOwn' /\ IdleIsFree' /\ DurationIsOwn'
  BY <1>1 DEF Recycle, Inv, TypeOK, StampIsOwn, IdleIsFree, DurationIsOwn
<1> QED BY <1>2, <1>3, <1>4 DEF Inv

\* A call without an instance leaves nothing behind.
LEMMA UnprobedInv == ASSUME Inv, NEW t \in Task, ReturnUnprobed(t) PROVE Inv'
BY DEF ReturnUnprobed, Inv, TypeOK, InstancesConserved, KthreadsSkipped,
       StampIsOwn, IdleIsFree, DurationIsOwn, Armed

\* Every behaviour of the module keeps the inductive invariant.
THEOREM Invariance == Spec => []Inv
<1>1. Inv /\ [Next]_vars => Inv'
  <2> SUFFICES ASSUME Inv, [Next]_vars PROVE Inv'
    OBVIOUS
  <2>1. CASE UNCHANGED vars
    BY <2>1 DEF vars, Inv, TypeOK, InstancesConserved, KthreadsSkipped,
       StampIsOwn, IdleIsFree, DurationIsOwn, Armed
  <2>2. CASE LoaderStep \/ Tick
    BY <2>2, LoaderInv, DetachInv, TickInv DEF LoaderStep, ExitStep
  <2>3. CASE \E t \in Task : TaskStep(t)
    BY <2>3, CallInv, EntryInv, RetInv, RecycleInv, UnprobedInv
       DEF TaskStep, Handler
  <2> QED BY <2>1, <2>2, <2>3 DEF Next
<1> QED BY InitInv, <1>1, PTL DEF Spec

\* The probe's state is well typed.
THEOREM TypeCorrect == Spec => []TypeOK
<1>1. Inv => TypeOK
  BY DEF Inv
<1> QED BY <1>1, Invariance, PTL

\* ret_handler (kretprobe_example.c:63-66) logs the duration of its own call.
THEOREM OwnDuration == Spec => []DurationIsOwn
<1>1. Inv => DurationIsOwn
  BY DEF Inv
<1> QED BY <1>1, Invariance, PTL

\* The pool of .maxactive instances (line 75) neither leaks nor shares one.
THEOREM PoolConserved == Spec => []InstancesConserved
<1>1. Inv => InstancesConserved
  BY DEF Inv
<1> QED BY <1>1, Invariance, PTL

\* A kernel thread's call is never timed (lines 43-44).
THEOREM NoKthreadTimed == Spec => []KthreadsSkipped
<1>1. Inv => KthreadsSkipped
  BY DEF Inv
<1> QED BY <1>1, Invariance, PTL
-----------------------------------------------------------------------------
\* Calls get instances only while the probe is armed, and the module is freed
\* after the last one has lost or returned its instance.
THEOREM KeepsModuleLife == Spec => LifeSpec
<1>1. Init => Life!Init
  BY DEF Init, Life!Init, Stage
<1>2. Inv /\ [Next]_vars => [Life!Next]_(Life!vars)
  <2> SUFFICES ASSUME Inv, [Next]_vars
               PROVE  Life!Next \/ UNCHANGED Life!vars
    OBVIOUS
  <2> USE DEF Life!vars
  <2>1. CASE Register
    BY <2>1 DEF Register, Loader, Stage, Life!Next, Life!Load, Life!Stage
  <2>2. CASE InitReturns
    BY <2>2 DEF InitReturns, Loader, Stage, Life!Next, Life!Loaded, Life!Stage
  <2>3. CASE Disarm
    BY <2>3 DEF Disarm, Loader, Stage, Life!Next, Life!Unload, Life!Stage
  <2>4. CASE ExitReturns
    BY <2>4 DEF ExitReturns, Loader, Stage, Life!Next, Life!Free, Life!Stage
  <2>5. CASE RegisterFails \/ Rmmod \/ Synchronize
    BY <2>5 DEF RegisterFails, Rmmod, Synchronize, Loader, Stage
  <2>6. ASSUME NEW t \in Task, Call(t)
        PROVE  Life!Start(t) \/ UNCHANGED Life!vars
    <3>1. ri[t] = None /\ ri \in [Task -> Instance \cup {None}]
      BY <2>6 DEF Call, Inv, TypeOK, IdleIsFree
    <3>2. CASE UNCHANGED ri
      BY <2>6, <3>2 DEF Call, Stage
    <3>3. CASE \E i \in free : Armed /\ ri' = [ri EXCEPT ![t] = i]
      <4>1. free \subseteq Instance
        BY DEF Inv, TypeOK
      <4>2. {u \in Task : ri'[u] # None} = {u \in Task : ri[u] # None} \cup {t}
        BY <3>1, <3>3, <4>1
      <4>3. Stage \in {"loading", "live"} /\ UNCHANGED Stage
        BY <2>6, <3>3 DEF Call, Armed, Stage
      <4> QED BY <4>2, <4>3 DEF Life!Start
    <3> QED BY <2>6, <3>2, <3>3 DEF Call
  <2>7. ASSUME NEW t \in Task, ri[t] # None, ri' = [ri EXCEPT ![t] = None],
               UNCHANGED loader
        PROVE  Life!Finish(t)
    BY <2>7 DEF Inv, TypeOK, Stage, Life!Finish
  <2>8. ASSUME NEW t \in Task, Detach(t) \/ Handler(t)
        PROVE  Life!Finish(t) \/ UNCHANGED Life!vars
    <3>1. CASE Detach(t)
      BY <2>7, <3>1 DEF Detach
    <3>2. CASE Handler(t)
      BY <2>7, <3>2 DEF Handler, EntryHandler, Recycle, Stage, Inv, TypeOK
    <3> QED BY <2>8, <3>1, <3>2
  <2>9. CASE Tick \/ (\E t \in Task : RetHandler(t) \/ ReturnUnprobed(t))
             \/ UNCHANGED vars
    BY <2>9 DEF Tick, RetHandler, ReturnUnprobed, vars, Stage
  <2> QED
    BY <2>1, <2>2, <2>3, <2>4, <2>5, <2>6, <2>8, <2>9
       DEF Next, LoaderStep, ExitStep, TaskStep, Life!Next, Handler
<1> QED BY <1>1, <1>2, Invariance, PTL DEF Spec, LifeSpec, Life!Spec
==============================================================================
