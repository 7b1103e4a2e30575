----------------------------- MODULE EntryProbe ------------------------------
(***************************************************************************)
(* kmods/kprobes/kprobe_example.c and jprobe_example.c: two modules that   *)
(* probe the entry of _do_fork, at the same instruction.  The list of      *)
(* probes of an instruction (the jprobe at its tail), the trap, the single *)
(* step and the wait of (un)registering are the kernel's: handlers run     *)
(* with preemption disabled.  Faults inside a handler change nothing       *)
(* (handler_fault returns 0) and are left out.                             *)
(***************************************************************************)
CONSTANT Task    \* the callers of _do_fork

Probe == {"kp", "my_jprobe"}

VARIABLES
  at,      \* at[p]: where the init or exit function of p's module stands
  awaited, \* awaited[p]: the calls that p's unregistering still waits for
  pc,      \* pc[t]: outside, in a handler or between them, or in _do_fork
  seen,    \* history: the probes whose handler has seen t's call
  due      \* history: the probes registered ever since t's call began

vars == <<at, awaited, pc, seen, due>>

Init ==
  /\ at = [p \in Probe |-> "absent"] /\ awaited = [p \in Probe |-> {}]
  /\ pc = [t \in Task |-> "out"]
  /\ seen = [t \in Task |-> {}] /\ due = [t \in Task |-> {}]

Registered(p) == at[p] \in {"registered", "live", "exit"}
-----------------------------------------------------------------------------
(* kprobe_init and jprobe_init, kprobe_exit and jprobe_exit *)

Loader(p, from, to) ==
  /\ at[p] = from /\ at' = [at EXCEPT ![p] = to] /\ UNCHANGED <<pc, seen>>
Plain(p, from, to) == Loader(p, from, to) /\ UNCHANGED <<awaited, due>>

Insmod(p)         == Plain(p, "absent", "init")
Register(p)       == Plain(p, "init", "registered")
RegisterFails(p)  == Plain(p, "init", "absent")
InitReturns(p)    == Plain(p, "registered", "live")
Rmmod(p)          == Plain(p, "live", "exit")

\* The call is at the trap: preemption is disabled.
Trapped(t) == pc[t] \notin {"out", "_do_fork"}

\* Mutant: the exit function forgets the probe.
UnregisterNothing(p) == Plain(p, "exit", "absent")

\* unregister_kprobe, unregister_jprobe: the probe leaves the list, and the
\* calls that may have met it there are waited for (synchronize_sched).
Unregister(p) ==
  /\ Loader(p, "exit", "unregistered")
  /\ awaited' = [awaited EXCEPT ![p] = {t \in Task : Trapped(t)}]
  /\ due' = [t \in Task |-> due[t] \ {p}]

Waited(p) == awaited[p] = {}

ExitReturns(p) == Waited(p) /\ Plain(p, "unregistered", "absent")
-----------------------------------------------------------------------------
(* A call of _do_fork *)

Goto(t, from, to) ==
  /\ pc[t] = from /\ pc' = [pc EXCEPT ![t] = to] /\ UNCHANGED at

Enter(t) ==
  /\ Goto(t, "out", IF \E p \in Probe : Registered(p) THEN "trap" ELSE "_do_fork")
  /\ due' = [due EXCEPT ![t] = {p \in Probe : Registered(p)}]
  /\ UNCHANGED <<awaited, seen>>

Handler(t, from, to) == Goto(t, from, to) /\ UNCHANGED <<awaited, due>>
Sees(t, p) == seen' = [seen EXCEPT ![t] = @ \cup {p}]

\* The list is gone through: kp first ...
MeetKprobe(t) ==
  /\ Handler(t, "trap", IF Registered("kp") THEN "handler_pre" ELSE "next")
  /\ UNCHANGED seen

\* Mutant: handler_pre returns 1, as if it had changed the registers.
PreTakesOver(t) == Handler(t, "handler_pre", "step") /\ Sees(t, "kp")

\* handler_pre returns 0: the kernel goes on with the list.
HandlerPre(t) == Handler(t, "handler_pre", "next") /\ Sees(t, "kp")

\* ... then my_jprobe, whose entry the trap returns to.
MeetJprobe(t) ==
  /\ Handler(t, "next", IF Registered("my_jprobe") THEN "j_do_fork" ELSE "step")
  /\ UNCHANGED seen

\* Mutant: without jprobe_return, j_do_fork returns to the caller of _do_fork.
ReturnsToCaller(t) == Handler(t, "j_do_fork", "out") /\ Sees(t, "my_jprobe")

\* j_do_fork ends with jprobe_return: the call is back at the trap.
JDoFork(t) == Handler(t, "j_do_fork", "step") /\ Sees(t, "my_jprobe")

\* The probed instruction is executed out of line.
SingleStep(t) ==
  /\ Handler(t, "step", IF Registered("kp") THEN "handler_post" ELSE "resume")
  /\ UNCHANGED seen

HandlerPost(t) == Handler(t, "handler_post", "resume") /\ UNCHANGED seen

\* Preemption is enabled again.
Resume(t) ==
  /\ Goto(t, "resume", "_do_fork")
  /\ awaited' = [p \in Probe |-> awaited[p] \ {t}] /\ UNCHANGED <<seen, due>>

Return(t) ==
  /\ Goto(t, "_do_fork", "out") /\ UNCHANGED awaited
  /\ seen' = [seen EXCEPT ![t] = {}] /\ due' = [due EXCEPT ![t] = {}]
-----------------------------------------------------------------------------
AtTrap(t) == \/ MeetKprobe(t) \/ HandlerPre(t) \/ MeetJprobe(t) \/ JDoFork(t)
             \/ SingleStep(t) \/ HandlerPost(t) \/ Resume(t)
LoaderStep(p) == \/ Register(p) \/ RegisterFails(p) \/ InitReturns(p)
                 \/ Unregister(p) \/ ExitReturns(p)
Next == \/ \E p \in Probe : Insmod(p) \/ LoaderStep(p) \/ Rmmod(p)
        \/ \E t \in Task : Enter(t) \/ AtTrap(t) \/ Return(t)

\* insmod and rmmod go on once begun, and so does a call at the trap, which
\* cannot be preempted; nobody has to call _do_fork, which need not return.
Spec == /\ Init /\ [][Next]_vars
        /\ \A p \in Probe : WF_vars(LoaderStep(p))
        /\ \A t \in Task : WF_vars(AtTrap(t))
-----------------------------------------------------------------------------
TypeOK ==
  /\ at \in [Probe -> {"absent", "init", "registered", "live", "exit", "unregistered"}]
  /\ awaited \in [Probe -> SUBSET Task]
  /\ pc \in [Task -> {"out", "trap", "handler_pre", "next", "j_do_fork", "step",
                      "handler_post", "resume", "_do_fork"}]
  /\ seen \in [Task -> SUBSET Probe] /\ due \in [Task -> SUBSET Probe]

\* kprobe_example.c:9-10, jprobe_example.c:9-10, "You will see the trace data
\* ... whenever _do_fork() is invoked": neither probe hides a call from the
\* other, whatever is loaded and removed meanwhile.
AllProbesSee == \A t \in Task : pc[t] = "_do_fork" => due[t] \subseteq seen[t]

\* A call that met a probe runs _do_fork in the end, and rmmod ends though the
\* calls never return and others go on calling.
CallsGoOn ==
  /\ \A t \in Task : pc[t] = "trap" ~> pc[t] = "_do_fork"
  /\ \A p \in Probe : at[p] = "exit" ~> at[p] = "absent"
-----------------------------------------------------------------------------
\* The handlers of each module keep the life cycle of a module, if insmod
\* counts until the probe is registered and rmmod from when it is not.
Stage(p) ==
  CASE at[p] = "init"              -> "loading"
    [] Registered(p)               -> "live"
    [] at[p] = "unregistered"      -> "unloading"
    [] OTHER                       -> "absent"
KprobeLife == INSTANCE ModuleLife WITH
  Agent <- Task, stage <- Stage("kp"),
  running <- {t \in Task : pc[t] \in {"handler_pre", "handler_post"}}
JprobeLife == INSTANCE ModuleLife WITH
  Agent <- Task, stage <- Stage("my_jprobe"),
  running <- {t \in Task : pc[t] = "j_do_fork"}
LifeSpec == KprobeLife!Spec /\ JprobeLife!Spec
==============================================================================
