------------------------------ MODULE Kretprobe ------------------------------
(***************************************************************************)
(* kmods/kprobes/kretprobe_example.c: a return probe with a pool of        *)
(* maxactive instances.  Tasks call the probed function at any time; a     *)
(* call that gets an instance runs entry_handler and, when it returns,     *)
(* ret_handler.  The pool and (un)register_kretprobe are the kernel's.     *)
(***************************************************************************)
EXTENDS Naturals, FiniteSets

CONSTANTS
  Task, Kthread,  \* the callers, and those of them without an mm
  Instance,       \* the kretprobe_instances of one registration: .maxactive
  None,           \* no instance
  MaxTime,        \* bound: the clock stops there
  MaxMissed       \* bound: no further call is missed

ASSUME TaskAssumption == Kthread \subseteq Task
ASSUME InstanceAssumption == None \notin Instance
ASSUME BoundAssumption == MaxTime \in Nat /\ MaxMissed \in Nat

VARIABLES
  loader,    \* where kretprobe_init / kretprobe_exit stands
  pc,        \* pc[t]: outside the function, in a handler, or inside it
  ri,        \* ri[t]: the instance of t's call
  data,      \* data[i].entry_stamp
  free,      \* my_kretprobe.free_instances
  nmissed,   \* my_kretprobe.nmissed
  now,       \* ktime_get()
  called,    \* history: when entry_handler saw the call t is in
  log        \* the last line of ret_handler: the delta, and the true duration

vars == <<loader, pc, ri, data, free, nmissed, now, called, log>>

Init ==
  /\ loader = "absent" /\ free = {} /\ nmissed = 0
  /\ pc = [t \in Task |-> "out"] /\ ri = [t \in Task |-> None]
  /\ data = [i \in Instance |-> 0] /\ now = 0
  /\ called = [t \in Task |-> 0]
  /\ log = [delta |-> 0, took |-> 0]

Tick == now < MaxTime /\ now' = now + 1
        /\ UNCHANGED <<loader, pc, ri, data, free, nmissed, called, log>>
-----------------------------------------------------------------------------
Loader(from, to) ==
  /\ loader = from /\ loader' = to
  /\ UNCHANGED <<pc, ri, data, now, called, log>>

\* register_kretprobe allocates the instances, without initialising them.
Register ==
  /\ Loader("absent", "armed")
  /\ free' = Instance /\ nmissed' = 0

RegisterFails == Loader("absent", "absent") /\ UNCHANGED <<free, nmissed>>
InitReturns   == Loader("armed", "live")    /\ UNCHANGED <<free, nmissed>>
Rmmod         == Loader("live", "exit")     /\ UNCHANGED <<free, nmissed>>

\* Mutant: the exit function does not unregister the probe.
ExitAtOnce == Loader("exit", "absent") /\ UNCHANGED <<free, nmissed>>

\* unregister_kretprobe: no new call is probed ...
Disarm == Loader("exit", "disarmed") /\ UNCHANGED <<free, nmissed>>

\* ... entry handlers end ...
Synchronize ==
  /\ \A t \in Task : pc[t] # "entry"
  /\ Loader("disarmed", "synced") /\ UNCHANGED <<free, nmissed>>

\* ... and a call still inside the function loses its instance (rp = NULL),
\* unless ret_handler runs for it, under the lock of the instance table.
Detach(t) ==
  /\ loader = "synced" /\ pc[t] = "in" /\ ri[t] # None
  /\ ri' = [ri EXCEPT ![t] = None]
  /\ UNCHANGED <<loader, pc, data, free, nmissed, now, called, log>>

\* Mutant: rmmod waits until the probed calls have returned.
ExitAfterCalls ==
  /\ \A t \in Task : pc[t] = "out"
  /\ Loader("synced", "absent") /\ free' = {} /\ UNCHANGED nmissed

ExitReturns ==
  /\ \A t \in Task : ri[t] = None
  /\ Loader("synced", "absent") /\ free' = {} /\ UNCHANGED nmissed
-----------------------------------------------------------------------------
Armed == loader \in {"armed", "live", "exit"}

\* A call of the probed function, as pre_handler_kretprobe sees it.
Call(t) ==
  /\ pc[t] = "out"
  /\ \/ /\ ~ Armed
        /\ pc' = [pc EXCEPT ![t] = "in"] /\ UNCHANGED <<ri, free, nmissed>>
     \/ /\ Armed /\ free = {} /\ nmissed < MaxMissed
        /\ pc' = [pc EXCEPT ![t] = "in"] /\ nmissed' = nmissed + 1
        /\ UNCHANGED <<ri, free>>
     \/ \E i \in free :
        /\ Armed
        /\ pc' = [pc EXCEPT ![t] = "entry"] /\ ri' = [ri EXCEPT ![t] = i]
        /\ free' = free \ {i} /\ UNCHANGED nmissed
  /\ UNCHANGED <<loader, data, now, called, log>>

\* Mutant: one stamp for all instances.
StampShared(t) ==
  /\ pc[t] = "entry" /\ pc' = [pc EXCEPT ![t] = "in"]
  /\ data' = [i \in Instance |-> now] /\ called' = [called EXCEPT ![t] = now]
  /\ UNCHANGED <<ri, free, loader, nmissed, now, log>>

\* entry_handler: a kernel thread's call is skipped, its instance goes back;
\* of any other call the time is taken.
EntryHandler(t) ==
  /\ pc[t] = "entry" /\ pc' = [pc EXCEPT ![t] = "in"]
  /\ \/ /\ t \in Kthread
        /\ ri' = [ri EXCEPT ![t] = None] /\ free' = free \cup {ri[t]}
        /\ UNCHANGED <<data, called>>
     \/ /\ t \notin Kthread
        /\ data' = [data EXCEPT ![ri[t]] = now]
        /\ called' = [called EXCEPT ![t] = now]
        /\ UNCHANGED <<ri, free>>
  /\ UNCHANGED <<loader, nmissed, now, log>>

\* Mutant: ret_handler gives the instance back itself, before its return does.
RetFreesEarly(t) ==
  /\ pc[t] = "in" /\ ri[t] # None
  /\ pc' = [pc EXCEPT ![t] = "ret"] /\ free' = free \cup {ri[t]}
  /\ log' = [delta |-> now - data[ri[t]], took |-> now - called[t]]
  /\ UNCHANGED <<loader, ri, data, nmissed, now, called>>

\* The function returns: ret_handler runs if the call has an instance.
RetHandler(t) ==
  /\ pc[t] = "in" /\ ri[t] # None
  /\ pc' = [pc EXCEPT ![t] = "ret"]
  /\ log' = [delta |-> now - data[ri[t]], took |-> now - called[t]]
  /\ UNCHANGED <<loader, ri, data, free, nmissed, now, called>>

\* The handler has returned: recycle_rp_inst.
Recycle(t) ==
  /\ pc[t] = "ret" /\ pc' = [pc EXCEPT ![t] = "out"]
  /\ ri' = [ri EXCEPT ![t] = None] /\ free' = free \cup {ri[t]}
  /\ UNCHANGED <<loader, data, nmissed, now, called, log>>

ReturnUnprobed(t) ==
  /\ pc[t] = "in" /\ ri[t] = None
  /\ pc' = [pc EXCEPT ![t] = "out"]
  /\ UNCHANGED <<loader, ri, data, free, nmissed, now, called, log>>

ExitStep == Disarm \/ Synchronize \/ (\E t \in Task : Detach(t)) \/ ExitReturns
LoaderStep == Register \/ RegisterFails \/ InitReturns \/ Rmmod \/ ExitStep
Handler(t) == EntryHandler(t) \/ Recycle(t)
TaskStep(t) == Call(t) \/ Handler(t) \/ RetHandler(t) \/ ReturnUnprobed(t)
Next == LoaderStep \/ Tick \/ \E t \in Task : TaskStep(t)

\* rmmod and the handlers run with interrupts on somewhere; a task need not
\* call the function, nor the function ever return.
Spec == /\ Init /\ [][Next]_vars
        /\ WF_vars(ExitStep) /\ \A t \in Task : WF_vars(Handler(t))
-----------------------------------------------------------------------------
TypeOK ==
  /\ loader \in {"absent", "armed", "live", "exit", "disarmed", "synced"}
  /\ pc \in [Task -> {"out", "entry", "in", "ret"}]
  /\ ri \in [Task -> Instance \cup {None}]
  /\ data \in [Instance -> 0 .. MaxTime]
  /\ free \in SUBSET Instance
  /\ nmissed \in 0 .. MaxMissed
  /\ now \in 0 .. MaxTime
  /\ called \in [Task -> 0 .. MaxTime]
  /\ \A t \in Task : pc[t] \in {"entry", "ret"} => ri[t] # None

\* "report the ... total time taken for probed function to run": whatever
\* else is called meanwhile, the delta logged is the duration of that call.
DurationIsOwn == log.delta = log.took

\* No instance serves two calls, nor lies in the pool while it serves one;
\* none is lost while calls are probed.
InstancesConserved ==
  /\ \A t \in Task : ri[t] \notin free
  /\ \A t, u \in Task : ri[t] = ri[u] /\ ri[t] # None => t = u
  /\ Armed => Instance = free \cup {ri[t] : t \in {u \in Task : ri[u] # None}}

\* A kernel thread's call is never timed, and holds an instance only for the
\* moment of entry_handler.
KthreadsSkipped == \A t \in Kthread : pc[t] \in {"in", "ret"} => ri[t] = None

\* rmmod ends although no probed call may ever return.
RmmodEnds == (loader = "exit") ~> (loader = "absent")
-----------------------------------------------------------------------------
\* The calls with an instance keep the life cycle of a module, if rmmod counts
\* from the moment the probe is disarmed.
Stage ==
  CASE loader = "armed"                  -> "loading"
    [] loader \in {"live", "exit"}       -> "live"
    [] loader \in {"disarmed", "synced"} -> "unloading"
    [] OTHER                             -> "absent"
Life == INSTANCE ModuleLife WITH
  Agent <- Task, stage <- Stage, running <- {t \in Task : ri[t] # None}
LifeSpec == Life!Spec
==============================================================================
