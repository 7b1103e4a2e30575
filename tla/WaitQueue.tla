------------------------------ MODULE WaitQueue ------------------------------
(***************************************************************************)
(* kmods/waitqueue_bookmark/waitqueue.c: insmod starts num_threads kernel  *)
(* threads that sleep on bookmark_wait_queue, waits for a work item to set *)
(* stop, wakes the whole queue and returns; rmmod stops every thread.      *)
(* The insmod/rmmod process is the "loader"; the set wait_threads_list     *)
(* abstracts from the order of the list.                                   *)
(***************************************************************************)
EXTENDS Naturals, FiniteSets

CONSTANTS
  Thread,       \* the indices 0 .. num_threads-1 of the test threads
  BreakCount,   \* entries __wake_up visits before it drops the queue lock
  NoThread      \* pos before the first and after the last iteration

ASSUME ThreadAssumption == NoThread \notin Thread /\ IsFiniteSet(Thread)
ASSUME BreakAssumption == BreakCount \in Nat \ {0}

VARIABLES
  loader,             \* where init_module / cleanup_module stands
  todo,               \* indices start_waitqueue_test has not tried yet
  wait_threads_list,  \* threads whose wait_thread record is allocated
  pos,                \* the record stop_test_threads is at
  thread,             \* where each test thread stands
  should_stop,        \* threads kthread_stop has been called on
  bookmark_wait_queue,
  walk,               \* entries the wake-up in progress has yet to visit
  stop, work,         \* the flag, and where my_workqueue_handler stands
  signalled           \* a signal is pending for insmod

lvars == <<loader, todo, wait_threads_list, pos>>
tvars == <<thread, should_stop, bookmark_wait_queue>>
hvars == <<stop, work, signalled>>
vars  == <<lvars, tvars, walk, hvars>>

InLoop == {"arm", "asleep", "awake", "leave"}   \* between add_ and remove_wait_queue
InModule == {"enter"} \cup InLoop               \* will run, or runs, module code

Init ==
  /\ loader = "create" /\ todo = Thread
  /\ wait_threads_list = {} /\ pos = NoThread
  /\ thread = [t \in Thread |-> "none"]
  /\ should_stop = {} /\ bookmark_wait_queue = {}
  /\ walk = {}
  /\ stop = FALSE /\ work = "idle" /\ signalled = FALSE

Loader(from, to) == loader = from /\ loader' = to

\* try_to_wake_up: the threads of S that are asleep become runnable.
WakeThreads(S) ==
  thread' = [t \in Thread |->
               IF t \in S /\ thread[t] = "asleep" THEN "awake" ELSE thread[t]]

-----------------------------------------------------------------------------
(* insmod: init_module *)

\* One iteration of start_waitqueue_test; kthread_create may fail.
CreateThread(t) ==
  /\ Loader("create", "create")
  /\ t \in todo /\ todo' = todo \ {t}
  /\ \/ /\ wait_threads_list' = wait_threads_list \cup {t}
        /\ thread' = [thread EXCEPT ![t] = "enter"]
     \/ UNCHANGED <<wait_threads_list, thread>>
  /\ UNCHANGED <<pos, should_stop, bookmark_wait_queue, walk, hvars>>

ScheduleWork ==
  /\ todo = {} /\ Loader("create", "test")
  /\ work' = "sleeping"
  /\ UNCHANGED <<todo, wait_threads_list, pos, tvars, walk, stop, signalled>>

\* wait_event_interruptible(waker_wait_queue, stop == 1): the condition is
\* tested without queueing, then queued and re-tested until it holds or a
\* signal is pending; init_module ignores which of the two ended the wait.
WaitEvent ==
  /\ \/ loader = "test" /\ loader' = IF stop THEN "wake" ELSE "prepared"
     \/ /\ loader = "prepared"
        /\ loader' = IF stop \/ signalled THEN "wake" ELSE "sleep"
  /\ UNCHANGED <<todo, wait_threads_list, pos, tvars, walk, hvars>>

\* wake_up_interruptible(&bookmark_wait_queue) starts at the head of the queue.
WakeBegin ==
  /\ Loader("wake", "walk")
  /\ walk' = bookmark_wait_queue
  /\ UNCHANGED <<todo, wait_threads_list, pos, tvars, hvars>>

\* It wakes BreakCount waiters, leaves a bookmark and drops the lock, and
\* goes on from the bookmark until the queue ends; then init_module returns.
WakeBatch ==
  /\ loader = "walk"
  /\ \E batch \in SUBSET walk :
       /\ Cardinality(batch) = BreakCount \/ batch = walk
       /\ Cardinality(batch) <= BreakCount
       /\ WakeThreads(batch)
       /\ walk' = walk \ batch
       /\ loader' = IF batch = walk THEN "live" ELSE "walk"
  /\ UNCHANGED <<todo, wait_threads_list, pos, should_stop,
                 bookmark_wait_queue, hvars>>

-----------------------------------------------------------------------------
(* rmmod: cleanup_module calls stop_test_threads *)

CleanupModule ==
  /\ Loader("live", "stop")
  /\ UNCHANGED <<todo, wait_threads_list, pos, tvars, walk, hvars>>

\* kthread_stop marks the thread, wakes it and waits for its exit.
KthreadStop(t) ==
  /\ Loader("stop", "join") /\ t \in wait_threads_list
  /\ pos' = t
  /\ should_stop' = should_stop \cup {t}
  /\ WakeThreads({t})
  /\ UNCHANGED <<todo, wait_threads_list, bookmark_wait_queue, walk, hvars>>

\* Mutant: the exit of the thread is not awaited.
KthreadStopNoWait ==
  /\ Loader("join", "poke")
  /\ UNCHANGED <<todo, wait_threads_list, pos, tvars, walk, hvars>>

KthreadStopReturns ==
  /\ Loader("join", "poke")
  /\ thread[pos] \in {"exited", "reaped"}
  /\ UNCHANGED <<todo, wait_threads_list, pos, tvars, walk, hvars>>

\* wake_up_process(pos->p) finds a dead task; kfree(pos).
PokeAndFree ==
  /\ Loader("poke", "stop")
  /\ wait_threads_list' = wait_threads_list \ {pos}
  /\ pos' = NoThread
  /\ UNCHANGED <<todo, tvars, walk, hvars>>

\* The loop is over: the module's memory is freed.
FreeModule ==
  /\ wait_threads_list = {} /\ Loader("stop", "gone")
  /\ UNCHANGED <<todo, wait_threads_list, pos, tvars, walk, hvars>>

-----------------------------------------------------------------------------
(* wait_queue_test_thread *)

\* kthread() skips the thread function if the thread is already stopped.
Enter(t) ==
  /\ thread[t] = "enter"
  /\ \/ /\ t \in should_stop
        /\ thread' = [thread EXCEPT ![t] = "exited"]
        /\ UNCHANGED bookmark_wait_queue
     \/ /\ t \notin should_stop
        /\ thread' = [thread EXCEPT ![t] = "arm"]
        /\ bookmark_wait_queue' = bookmark_wait_queue \cup {t}
  /\ UNCHANGED <<lvars, should_stop, walk, hvars>>

\* Until schedule_timeout_interruptible has set the task state again a
\* wake-up has no effect: the step from "arm" to "asleep" is that second set.
Sleep(t) ==
  /\ thread[t] = "arm" /\ thread' = [thread EXCEPT ![t] = "asleep"]
  /\ UNCHANGED <<lvars, should_stop, bookmark_wait_queue, walk, hvars>>

\* Mutant: schedule() instead of schedule_timeout_interruptible(HZ*10).
SleepsForever(t) == FALSE

Timeout(t) ==
  /\ thread[t] = "asleep" /\ WakeThreads({t})
  /\ UNCHANGED <<lvars, should_stop, bookmark_wait_queue, walk, hvars>>

\* Mutant: the thread ends on the stop flag too.
TestEitherStop(t) ==
  /\ thread[t] = "awake"
  /\ thread' = [thread EXCEPT ![t] =
                  IF t \in should_stop \/ stop THEN "leave" ELSE "arm"]
  /\ UNCHANGED <<lvars, should_stop, bookmark_wait_queue, walk, hvars>>

TestStop(t) ==
  /\ thread[t] = "awake"
  /\ thread' = [thread EXCEPT ![t] = IF t \in should_stop THEN "leave" ELSE "arm"]
  /\ UNCHANGED <<lvars, should_stop, bookmark_wait_queue, walk, hvars>>

\* Mutant: remove_wait_queue is missing.
LeaveQueued(t) ==
  /\ thread[t] = "leave" /\ thread' = [thread EXCEPT ![t] = "exited"]
  /\ UNCHANGED <<lvars, should_stop, bookmark_wait_queue, walk, hvars>>

Leave(t) ==
  /\ thread[t] = "leave" /\ thread' = [thread EXCEPT ![t] = "exited"]
  /\ bookmark_wait_queue' = bookmark_wait_queue \ {t}
  /\ UNCHANGED <<lvars, should_stop, walk, hvars>>

\* The kernel frees the task_struct of a dead thread that nobody holds;
\* kthread_stop holds it until it returns.
Reap(t) ==
  /\ thread[t] = "exited" /\ ~ (loader = "join" /\ pos = t)
  /\ thread' = [thread EXCEPT ![t] = "reaped"]
  /\ UNCHANGED <<lvars, should_stop, bookmark_wait_queue, walk, hvars>>

-----------------------------------------------------------------------------
(* my_workqueue_handler, and a signal to insmod *)

SetStop ==
  /\ work = "sleeping" /\ loader # "gone"
  /\ work' = "stopped" /\ stop' = TRUE
  /\ UNCHANGED <<lvars, tvars, walk, signalled>>

WakeLoader ==
  /\ work = "stopped" /\ loader # "gone"
  /\ work' = "done"
  /\ loader' = IF loader = "sleep" THEN "prepared" ELSE loader
  /\ UNCHANGED <<todo, wait_threads_list, pos, tvars, walk, stop, signalled>>

\* rmmod does not wait for the work item: if insmod was interrupted, the
\* handler may return from msleep into a module that is gone.
RunFreedHandler ==
  /\ work \in {"sleeping", "stopped"} /\ loader = "gone"
  /\ work' = "oops"
  /\ UNCHANGED <<lvars, tvars, walk, stop, signalled>>

Signal ==
  /\ loader \in {"test", "prepared", "sleep"} /\ ~ signalled
  /\ signalled' = TRUE
  /\ loader' = IF loader = "sleep" THEN "prepared" ELSE loader
  /\ UNCHANGED <<todo, wait_threads_list, pos, tvars, walk, stop, work>>

Unloaded == loader = "gone" /\ UNCHANGED vars   \* the end, not a deadlock

-----------------------------------------------------------------------------
LoaderStep ==
  \/ \E t \in Thread : CreateThread(t) \/ KthreadStop(t)
  \/ ScheduleWork \/ WaitEvent \/ WakeBegin \/ WakeBatch
  \/ KthreadStopReturns \/ PokeAndFree \/ FreeModule
ThreadStep(t) == Enter(t) \/ Sleep(t) \/ Timeout(t) \/ TestStop(t) \/ Leave(t)
WorkStep == SetStop \/ WakeLoader \/ RunFreedHandler

Next ==
  \/ LoaderStep \/ CleanupModule \/ WorkStep \/ Signal \/ Unloaded
  \/ \E t \in Thread : ThreadStep(t) \/ Reap(t)

\* The scheduler runs every runnable task, and the timers of
\* schedule_timeout and msleep expire; nobody has to call rmmod.
Fairness ==
  /\ WF_vars(LoaderStep) /\ WF_vars(WorkStep)
  /\ \A t \in Thread : WF_vars(ThreadStep(t))

Spec == Init /\ [][Next]_vars /\ Fairness
-----------------------------------------------------------------------------
(* Properties *)

\* Types; pos names a record of the list exactly while stop_test_threads is
\* inside an iteration.
TypeOK ==
  /\ loader \in {"create", "test", "prepared", "sleep", "wake", "walk", "live",
                 "stop", "join", "poke", "gone"}
  /\ todo \subseteq Thread /\ wait_threads_list \subseteq Thread
  /\ IF loader \in {"join", "poke"} THEN pos \in wait_threads_list ELSE pos = NoThread
  /\ thread \in [Thread -> {"none", "exited", "reaped"} \cup InModule]
  /\ should_stop \subseteq Thread /\ bookmark_wait_queue \subseteq Thread
  /\ walk \subseteq Thread
  /\ stop \in BOOLEAN /\ work \in {"idle", "sleeping", "stopped", "done", "oops"}
  /\ signalled \in BOOLEAN

\* rmmod returns only when no test thread can run module code again and
\* no wait-queue entry on a thread's stack is left on the queue.
NoThreadAfterUnload ==
  loader = "gone" => /\ bookmark_wait_queue = {}
                     /\ \A t \in Thread : thread[t] \notin InModule

\* A thread ends for no other reason than kthread_stop: the threads still
\* to be stopped are alive, so kthread_stop never gets a dead task.
StopTargetsLive ==
  \A t \in wait_threads_list \ {pos} : thread[t] \in InModule

\* The queue holds exactly the stack entries of the threads in their loop:
\* no thread sleeps unqueued, none ends with its entry still linked.
QueueIsLoop == bookmark_wait_queue = {t \in Thread : thread[t] \in InLoop}

\* While insmod wakes the queue (waitqueue.c:103) it drops the queue lock
\* between batches, and the threads it has woken run on.  None of them ends,
\* neither on the stop flag that is set by now nor on rmmod, so the entries
\* ahead of the bookmark, on the threads' stacks, stay there until their turn.
WalkOnQueue == loader = "walk" => walk \subseteq bookmark_wait_queue

\* insmod comes back: the work item's stop and wake-up are not lost.  rmmod
\* comes back although a thread that tested kthread_should_stop before
\* kthread_stop may go to sleep after its wake-up.
CallsReturn ==
  /\ <>(loader = "live")
  /\ (loader = "stop") ~> (loader = "gone")
-----------------------------------------------------------------------------
\* The test threads keep the life cycle of a module: none starts once rmmod
\* has begun, none is left when it ends.  (The work item does not keep it.)
Stage ==
  CASE loader = "live"                     -> "live"
    [] loader \in {"stop", "join", "poke"} -> "unloading"
    [] loader = "gone"                     -> "absent"
    [] OTHER                               -> "loading"
Life == INSTANCE ModuleLife WITH
  Agent <- Thread, stage <- Stage,
  running <- {t \in Thread : thread[t] \in InModule}
LifeSpec == Life!Spec
==============================================================================
