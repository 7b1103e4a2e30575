------------------------------ MODULE HungTask ------------------------------
(***************************************************************************)
(* kmods/hung_task/hung_task.c: insmod takes dead_lock twice; the second   *)
(* mutex_lock blocks until the callback of an hrtimer, which runs in       *)
(* interrupt context, unlocks the mutex.  rmmod polls hrtimer_active.      *)
(***************************************************************************)
EXTENDS Naturals

CONSTANTS
  Cpu,      \* processors
  Timeout   \* ktime_set(20, 0), in seconds

ASSUME TimeoutAssumption == Timeout \in Nat \ {0}

VARIABLES
  loader,     \* where init_hung_task_test / exit_hung_task_test stands
  cpu,        \* the processor that insmod or rmmod runs on
  dead_lock,  \* the mutex is taken
  timer,      \* where hrtimer_release_mutex and its callback stand
  timerCpu,   \* the processor it was started on, whose interrupt it uses
  remaining   \* hrtimer_get_remaining, in seconds

vars == <<loader, cpu, dead_lock, timer, timerCpu, remaining>>

Init ==
  /\ loader = "load" /\ dead_lock = FALSE
  /\ timer = "idle" /\ remaining = Timeout
  /\ cpu \in Cpu /\ timerCpu = cpu

\* hrtimer_active: enqueued, or the callback has not returned.
TimerActive == timer \in {"armed", "fired", "released"}

\* The callback has interrupted the loader, which stands still meanwhile.
Interrupted == timer \in {"fired", "released"} /\ timerCpu = cpu

Loader(from, to) == loader = from /\ ~ Interrupted /\ loader' = to

\* Mutant: the first mutex_lock is missing.
SkipFirstLock ==
  /\ Loader("load", "locked")
  /\ UNCHANGED <<cpu, dead_lock, timer, timerCpu, remaining>>

FirstLock ==
  /\ Loader("load", "locked") /\ dead_lock' = TRUE
  /\ UNCHANGED <<cpu, timer, timerCpu, remaining>>

\* Mutant: the timer is set up but not started.
InitTimerOnly ==
  /\ Loader("locked", "relock")
  /\ UNCHANGED <<cpu, dead_lock, timer, timerCpu, remaining>>

StartTimer ==
  /\ Loader("locked", "relock")
  /\ timer' = "armed" /\ timerCpu' = cpu
  /\ UNCHANGED <<cpu, dead_lock, remaining>>

\* The second mutex_lock: take the mutex, or enter the slow path, which holds
\* the mutex's wait_lock with interrupts enabled until the task is queued.
SecondLock ==
  \/ /\ ~ dead_lock /\ dead_lock' = TRUE
     /\ \E from \in {"relock", "queueing", "asleep"} : Loader(from, "live")
     /\ UNCHANGED <<cpu, timer, timerCpu, remaining>>
  \/ /\ dead_lock
     /\ Loader("relock", "queueing") \/ Loader("queueing", "asleep")
     /\ UNCHANGED <<cpu, dead_lock, timer, timerCpu, remaining>>

\* A task is not moved while it holds a spinlock or is interrupted.
Migrate ==
  /\ loader # "queueing"
  /\ ~ Interrupted \/ loader = "asleep"
  /\ cpu' \in Cpu
  /\ UNCHANGED <<loader, dead_lock, timer, timerCpu, remaining>>

\* The slow path holds the spinlock for much less than a second.
Tick ==
  /\ loader # "queueing" /\ timer = "armed" /\ remaining > 0
  /\ remaining' = remaining - 1
  /\ UNCHANGED <<loader, cpu, dead_lock, timer, timerCpu>>

Expire ==
  /\ timer = "armed" /\ remaining = 0 /\ timer' = "fired"
  /\ UNCHANGED <<loader, cpu, dead_lock, timerCpu, remaining>>

\* test_hrtimer_free_mutex_func: mutex_unlock spins for the wait_lock.
Release ==
  /\ timer = "fired" /\ loader # "queueing"
  /\ timer' = "released" /\ dead_lock' = FALSE
  /\ UNCHANGED <<loader, cpu, timerCpu, remaining>>

CallbackReturns ==
  /\ timer = "released" /\ timer' = "done"
  /\ UNCHANGED <<loader, cpu, dead_lock, timerCpu, remaining>>

Rmmod ==
  /\ Loader("live", "exit")
  /\ UNCHANGED <<cpu, dead_lock, timer, timerCpu, remaining>>

\* Mutant: rmmod does not wait for the timer.
ExitAtOnce ==
  /\ Loader("exit", "gone")
  /\ UNCHANGED <<cpu, dead_lock, timer, timerCpu, remaining>>

\* exit_hung_task_test leaves its polling loop and the module is freed.
ExitLoop ==
  /\ ~ TimerActive /\ Loader("exit", "gone")
  /\ UNCHANGED <<cpu, dead_lock, timer, timerCpu, remaining>>

Unloaded == loader = "gone" /\ UNCHANGED vars

LoaderStep == FirstLock \/ StartTimer \/ SecondLock \/ ExitLoop
TimerStep  == Tick \/ Expire \/ Release \/ CallbackReturns
Next == LoaderStep \/ TimerStep \/ Migrate \/ Rmmod \/ Unloaded

\* Every processor runs what is on it, and time passes; nobody has to rmmod.
Spec == Init /\ [][Next]_vars /\ WF_vars(LoaderStep) /\ WF_vars(TimerStep)
-----------------------------------------------------------------------------
TypeOK ==
  /\ loader \in {"load", "locked", "relock", "queueing", "asleep", "live", "exit", "gone"}
  /\ cpu \in Cpu /\ timerCpu \in Cpu
  /\ dead_lock \in BOOLEAN
  /\ timer \in {"idle", "armed", "fired", "released", "done"}
  /\ (timer = "idle") <=> (loader \in {"load", "locked"})
  /\ remaining \in 0 .. Timeout

\* The module's text is not freed under the callback: insmod can return, and
\* rmmod start, between the callback's unlock and its return.
NoCallbackAfterFree == loader = "gone" => ~ TimerActive

\* insmod blocks for the whole timeout: it is a hung task until then.
BlocksUntilExpiry == loader \in {"live", "exit", "gone"} => remaining = 0

\* The loaded module holds dead_lock for good: the callback releases it once.
LoadedHoldsLock == loader \in {"live", "exit", "gone"} => dead_lock

\* The timer interrupt has hit insmod inside the slow path of mutex_lock.
SelfDeadlock == timer = "fired" /\ loader = "queueing" /\ Interrupted

\* insmod returns unless the interrupt hits it right there, and rmmod returns.
CallsReturn ==
  /\ <>(loader = "live" \/ SelfDeadlock)
  /\ (loader = "exit") ~> (loader = "gone")
-----------------------------------------------------------------------------
\* The timer callback keeps the life cycle of a module.
Stage ==
  CASE loader = "live" -> "live"
    [] loader = "exit" -> "unloading"
    [] loader = "gone" -> "absent"
    [] OTHER           -> "loading"
Life == INSTANCE ModuleLife WITH
  Agent <- {"callback"}, stage <- Stage,
  running <- IF TimerActive THEN {"callback"} ELSE {}
LifeSpec == Life!Spec
==============================================================================
