---------------------------- MODULE ModuleStack -----------------------------
(***************************************************************************)
(* A library module and the three modules that use it, under kmods/:       *)
(* base_lib exports functions and the variable depends; test_clobber's     *)
(* init has it print the tasks of the system, kinfo's calls a stub, and    *)
(* event_mod/pita.c stores to depends whenever its debugfs file is opened. *)
(* The module loader (references between modules), debugfs, RCU and the    *)
(* task list are the kernel's.                                             *)
(***************************************************************************)
EXTENDS Naturals, Integers, Sequences

CONSTANTS
  Task,      \* the task_structs besides init_task
  First,     \* process 1, which never exits
  InitTask,  \* init_task, the head of the list
  Number,    \* the limit test_clobber passes to test_dump_tasklist
  Opener     \* the processes that open debugfs' pita/test

ASSUME TaskAssumption == First \in Task /\ InitTask \notin Task
ASSUME NumberAssumption == Number \in Nat
ASSUME OpenerAssumption == Opener \cap {"kinfo", "test_clobber", "debugfs"} = {}

Module == {"base_lib", "test_clobber", "kinfo", "pita"}

VARIABLES
  at,         \* at[m]: where the init or exit function of m stands
  entries,    \* the dentries in debugfs: pita/ and pita/test are there
  file,       \* file[o]: how o's open file of pita/test is used
  spoiled,    \* history: variables of base_lib hit by a store to depends
  struct,     \* struct[t]: "free" memory, "linked", or "unlinked" but not free
  next,       \* next[t]: t->tasks.next, read under RCU only
  pinned,     \* unlinked tasks that a reader from before may still use
  walk,       \* where test_dump_tasklist stands
  task, number, reading,   \* its variables; inside rcu_read_lock()
  printed,    \* history: the tasks it has printed
  stayed      \* history: the tasks linked ever since it began

modules == <<at, entries, file, spoiled>>
list    == <<struct, next, pinned>>
walker  == <<walk, task, number, reading, printed>>
vars    == <<modules, list, walker, stayed>>

Init ==
  /\ at = [m \in Module |-> "absent"] /\ entries = {} /\ spoiled = {}
  /\ file = [o \in Opener |-> "closed"]
  /\ struct = [t \in Task |-> IF t = First THEN "linked" ELSE "free"]
  /\ next = [t \in Task \cup {InitTask} |-> IF t = InitTask THEN First ELSE InitTask]
  /\ pinned = {} /\ stayed = {}
  /\ walk = "out" /\ task = InitTask /\ number = 0
  /\ reading = FALSE /\ printed = <<>>
-----------------------------------------------------------------------------
(* The variables of base_lib, in the order the compiler chose *)

Size(v)  == CASE v = "dummy" -> 4 [] v = "depends" -> 2 [] v = "base_lib_desc" -> 20

\* Mutant: nothing is aligned.
Packed(v) == 1

Align(v) == IF v = "depends" THEN 2 ELSE 4

Variables == {"dummy", "depends", "base_lib_desc"}
Orders == {o \in [1 .. 3 -> Variables] : \A i, j \in 1 .. 3 : o[i] = o[j] => i = j}
AlignUp(n, a) == ((n + a - 1) \div a) * a

\* The addresses that order o gives the variables, from an aligned start.
Address(o) ==
  LET second == AlignUp(Size(o[1]), Align(o[2]))
      third  == AlignUp(second + Size(o[2]), Align(o[3]))
  IN <<0, second, third>>

\* pita.c declares depends as an int: the variables a store of 4 bytes at its
\* address hits besides, in some order.
Neighbours ==
  {v \in Variables \ {"depends"} :
    \E o \in Orders, i, j \in 1 .. 3 :
      /\ o[i] = "depends" /\ o[j] = v
      /\ Address(o)[j] < Address(o)[i] + 4
      /\ Address(o)[i] < Address(o)[j] + Size(v)}
-----------------------------------------------------------------------------
(* insmod and rmmod *)

Goto(m, from, to) == at[m] = from /\ at' = [at EXCEPT ![m] = to]
Stays == UNCHANGED <<list, walker, stayed>>

\* A module whose symbols are resolved from base_lib holds a reference on it
\* until it is freed itself.
Resolves(m) == m # "base_lib" => at["base_lib"] = "live"
Unused(m) == m = "base_lib" => \A u \in Module \ {m} : at[u] = "absent"

Insmod(m) ==
  /\ Goto(m, "absent", "init") /\ Resolves(m)
  /\ UNCHANGED <<entries, file, spoiled>> /\ Stays

Rmmod(m) ==
  /\ Goto(m, "live", "exit") /\ Unused(m)
  /\ UNCHANGED <<entries, file, spoiled>> /\ Stays

\* init_lib; kinfo_init, which returns ! test_dump_cpulist(0, 0) = ! 0xff;
\* pita_init behind its last call.
InitReturns ==
  /\ \/ Goto("base_lib", "init", "live") \/ Goto("kinfo", "init", "live")
     \/ Goto("pita", "created", "live")
  /\ UNCHANGED <<entries, file, spoiled>> /\ Stays

\* exit_lib, exit_clobber and kinfo_exit do nothing; the module is freed, as
\* is pita behind its exit function or its failed init.
Freed ==
  /\ \/ \E m \in Module \ {"pita"} : Goto(m, "exit", "absent")
     \/ Goto("pita", "gone", "absent") \/ Goto("pita", "failed", "absent")
  /\ UNCHANGED <<entries, file, spoiled>> /\ Stays
-----------------------------------------------------------------------------
(* pita.c: init, exit and the file *)

\* debugfs_create_dir fails: there is nothing to undo.
DirFails ==
  /\ Goto("pita", "init", "failed")
  /\ UNCHANGED <<entries, file, spoiled>> /\ Stays

CreateDir ==
  /\ Goto("pita", "init", "file") /\ entries' = {"pita"}
  /\ UNCHANGED <<file, spoiled>> /\ Stays

\* The file can be opened before pita_init returns.
CreateFile ==
  /\ Goto("pita", "file", "created") /\ entries' = entries \cup {"test"}
  /\ UNCHANGED <<file, spoiled>> /\ Stays

\* Mutant: the directory is left behind when its file cannot be made.
DirKept == UNCHANGED entries

\* debugfs_remove(d_pita), of an empty directory.
RemoveDir == entries' = {}

FileFails ==
  /\ Goto("pita", "file", "failed") /\ RemoveDir
  /\ UNCHANGED <<file, spoiled>> /\ Stays

\* debugfs_remove_recursive(d_pita): from here on every call on an open file
\* fails before it gets to test_fops ...
Remove ==
  /\ Goto("pita", "exit", "wait") /\ entries' = {}
  /\ file' = [o \in Opener |-> IF file[o] = "open" THEN "stale" ELSE file[o]]
  /\ UNCHANGED spoiled /\ Stays

InModule(o) == file[o] \in {"test_open", "call"}

\* Mutant: rmmod waits until nobody has the file open.
AllClosed == \A o \in Opener : file[o] = "closed"

\* ... and those that have got there are waited for.
CallsDone == \A o \in Opener : ~ InModule(o)

RemoveReturns ==
  /\ Goto("pita", "wait", "gone") /\ CallsDone
  /\ UNCHANGED <<entries, file, spoiled>> /\ Stays

File(o, from, to) ==
  /\ file[o] \in from /\ file' = [file EXCEPT ![o] = to]
  /\ UNCHANGED <<at, entries>> /\ Stays

\* test_open: depends = 0.
Open(o) ==
  /\ "test" \in entries /\ File(o, {"closed"}, "test_open")
  /\ spoiled' = spoiled \cup Neighbours

\* test_read, or test_write with its trace event: one call on the open file.
Call(o) == File(o, {"open"}, "call") /\ UNCHANGED spoiled

CallReturns(o) ==
  /\ File(o, {"test_open", "call"}, IF "test" \in entries THEN "open" ELSE "stale")
  /\ UNCHANGED spoiled

Close(o) == File(o, {"open", "stale"}, "closed") /\ UNCHANGED spoiled
-----------------------------------------------------------------------------
(* The task list *)

Linked == {t \in Task : struct[t] = "linked"}
Before(n) == CHOOSE q \in Linked \cup {InitTask} : next[q] = n

\* _do_fork: list_add_tail_rcu.
Fork(t) ==
  /\ struct[t] = "free" /\ struct' = [struct EXCEPT ![t] = "linked"]
  /\ next' = [next EXCEPT ![t] = InitTask, ![Before(InitTask)] = t]
  /\ UNCHANGED <<modules, pinned, walker, stayed>>

\* __unhash_process: list_del_rcu, which leaves t's own pointer as it is; the
\* memory is freed by call_rcu, after the readers of now.
Exit(t) ==
  /\ t # First /\ struct[t] = "linked"
  /\ struct' = [struct EXCEPT ![t] = "unlinked"]
  /\ next' = [next EXCEPT ![Before(t)] = next[t]]
  /\ pinned' = IF reading THEN pinned \cup {t} ELSE pinned
  /\ stayed' = stayed \ {t}
  /\ UNCHANGED <<modules, walker>>

FreeTask(t) ==
  /\ struct[t] = "unlinked" /\ t \notin pinned
  /\ struct' = [struct EXCEPT ![t] = "free"] /\ next' = [next EXCEPT ![t] = InitTask]
  /\ UNCHANGED <<modules, pinned, walker, stayed>>
-----------------------------------------------------------------------------
(* test_clobber's init in test_dump_tasklist(100, 0) *)

Walk(from, to) ==
  /\ walk = from /\ walk' = to
  /\ UNCHANGED <<entries, file, spoiled, struct, next>>

\* Mutant: the list is walked without RCU's protection.
NoReadLock == reading' = FALSE

RcuReadLock == reading' = TRUE

\* clobber_dump_task_list: the call.
Enter ==
  /\ at["test_clobber"] = "init" /\ Walk("out", "next")
  /\ RcuReadLock
  /\ task' = InitTask /\ number' = Number /\ stayed' = Linked
  /\ UNCHANGED <<at, pinned, printed>>

\* for_each_process: the next task, until the list is back at its head.
NextTask ==
  /\ Walk("next", IF next[task] = InitTask THEN "unlock" ELSE "print")
  /\ task' = next[task]
  /\ UNCHANGED <<at, pinned, number, reading, printed, stayed>>

\* Mutant: if (!--number).
StopEarly == number = 1

\* if (!number--)
LimitReached == number = 0

PrintTask ==
  /\ Walk("print", IF LimitReached THEN "unlock" ELSE "next")
  /\ printed' = Append(printed, task) /\ number' = number - 1
  /\ UNCHANGED <<at, pinned, task, reading, stayed>>

\* rcu_read_unlock; the result, number, is logged and init_clobber returns 0.
Leave ==
  /\ Walk("unlock", "out") /\ Goto("test_clobber", "init", "live")
  /\ reading' = FALSE /\ pinned' = {}
  /\ task' = InitTask /\ number' = 0 /\ printed' = <<>> /\ stayed' = {}
-----------------------------------------------------------------------------
Walker == Enter \/ NextTask \/ PrintTask \/ Leave
Loader == \/ InitReturns \/ Freed
          \/ DirFails \/ CreateDir \/ CreateFile \/ FileFails
          \/ Remove \/ RemoveReturns
User   == \/ \E m \in Module : Insmod(m) \/ Rmmod(m)
          \/ \E o \in Opener : Open(o) \/ Call(o) \/ Close(o)
Kernel == \E t \in Task : Fork(t) \/ Exit(t) \/ FreeTask(t)
Next   == Walker \/ Loader \/ User \/ Kernel \/ \E o \in Opener : CallReturns(o)

\* insmod, rmmod and calls on the file go on once they have begun; nobody has
\* to begin one, to close the file, or to exit.
LoaderOf(m) == Loader /\ at'[m] # at[m]
Spec == /\ Init /\ [][Next]_vars
        /\ WF_vars(Walker) /\ \A m \in Module : WF_vars(LoaderOf(m))
        /\ \A o \in Opener : WF_vars(CallReturns(o))
-----------------------------------------------------------------------------
TypeOK ==
  /\ at \in [Module -> {"absent", "init", "live", "exit"}
                        \cup {"file", "created", "failed", "wait", "gone"}]
  /\ \A m \in Module \ {"pita"} : at[m] \in {"absent", "init", "live", "exit"}
  /\ entries \in SUBSET {"pita", "test"} /\ spoiled \in SUBSET Variables
  /\ file \in [Opener -> {"closed", "test_open", "open", "call", "stale"}]
  /\ struct \in [Task -> {"free", "linked", "unlinked"}]
  /\ next \in [Task \cup {InitTask} -> Task \cup {InitTask}]
  /\ pinned \in SUBSET Task /\ stayed \in SUBSET Task
  /\ walk \in {"out", "next", "print", "unlock"} /\ task \in Task \cup {InitTask}
  /\ number \in -1 .. Number /\ reading = (walk # "out")
  /\ printed \in Seq(Task)

\* base_lib.c:35, "Protect the task struct during the iter": the walk never
\* stands on a task_struct that has been freed, whoever exits meanwhile.
WalkSafe == walk # "out" /\ task # InitTask => struct[task] # "free"

\* What the result says: -1 stands for Number + 1 tasks printed, anything else
\* for a complete list, in which no task that was there all the time is
\* missing; no task is printed twice, whoever forks and exits meanwhile.
WalkComplete ==
  LET listed == {printed[i] : i \in 1 .. Len(printed)} IN
  walk = "unlock" =>
    /\ \A i, j \in 1 .. Len(printed) : printed[i] = printed[j] => i = j
    /\ IF number < 0 THEN Len(printed) = Number + 1 ELSE stayed \subseteq listed

\* base_lib.c:12 and pita.c:15 declare depends with different widths; in any
\* order of base_lib's variables the wider store hits padding only.
DependsAlone == spoiled = {}

\* insmod of test_clobber returns while tasks come and go, and rmmod of pita
\* returns though processes keep its file open.
CallsReturn ==
  /\ at["test_clobber"] = "init" ~> at["test_clobber"] = "live"
  /\ at["pita"] = "exit" ~> at["pita"] = "absent"
-----------------------------------------------------------------------------
\* Both base_lib, whose functions and variable the others use, and pita, with
\* its dentries, their removal and the calls on its file, keep the life cycle
\* of a module, if pita's rmmod counts from the removal of the dentries.
Stage(m) ==
  CASE at[m] = "absent"                                -> "absent"
    [] at[m] \in {"init", "file", "created", "failed"} -> "loading"
    [] at[m] = "live" \/ <<m, at[m]>> = <<"pita", "exit">> -> "live"
    [] OTHER                                           -> "unloading"

BaseLife == INSTANCE ModuleLife WITH
  Agent <- Opener \cup {"kinfo", "test_clobber"}, stage <- Stage("base_lib"),
  running <- {o \in Opener : file[o] = "test_open"}
             \cup {m \in {"kinfo"} : at[m] = "init"}
             \cup {m \in {"test_clobber"} : walk # "out"}
PitaLife == INSTANCE ModuleLife WITH
  Agent <- Opener \cup {"debugfs"}, stage <- Stage("pita"),
  running <- {o \in Opener : InModule(o)}
             \cup {d \in {"debugfs"} : entries # {} \/ at["pita"] = "wait"}
LifeSpec == BaseLife!Spec /\ PitaLife!Spec
==============================================================================
