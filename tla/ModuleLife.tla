------------------------------ MODULE ModuleLife ------------------------------
(***************************************************************************)
(* What every module under kmods/ promises the kernel: code of the module  *)
(* starts to run only between the start of insmod and the start of rmmod,  *)
(* and the module is freed, after rmmod or because its init failed, only   *)
(* when none of it runs any more.                                          *)
(***************************************************************************)
CONSTANT Agent    \* the threads, callbacks and handlers of the module

VARIABLES
  stage,     \* "absent", "loading", "live" or "unloading"
  running    \* the agents that run, or are going to run, module code

vars == <<stage, running>>

Init == stage \in {"absent", "loading"} /\ running = {}

Stage(from, to) == stage = from /\ stage' = to /\ UNCHANGED running

Load   == Stage("absent", "loading")
Loaded == Stage("loading", "live")
Fail   == running = {} /\ Stage("loading", "absent")
Unload == Stage("live", "unloading")
Free   == running = {} /\ Stage("unloading", "absent")

Start(a) ==
  /\ stage \in {"loading", "live"} /\ UNCHANGED stage
  /\ running' = running \cup {a}

Finish(a) == a \in running /\ running' = running \ {a} /\ UNCHANGED stage

Next ==
  \/ Load \/ Loaded \/ Fail \/ Unload \/ Free
  \/ \E a \in Agent : Start(a) \/ Finish(a)

Spec == Init /\ [][Next]_vars
==============================================================================
