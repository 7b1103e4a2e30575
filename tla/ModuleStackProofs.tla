-------------------------- MODULE ModuleStackProofs --------------------------
(***************************************************************************)
(* Proofs about ModuleStack: the task list stays a ring, a task_struct the *)
(* walk may still come to is not freed, what it prints is complete, the    *)
(* store to depends hits nothing else, and base_lib and pita keep the life *)
(* cycle of a module.                                                      *)
(***************************************************************************)
EXTENDS ModuleStack, TLAPS

Ring == Linked \cup {InitTask}

\* The pointers of the tasks on the list, and of its head, are a permutation:
\* the task before another exists and is the only one.
ListIsRing ==
  /\ \A q \in Ring : next[q] \in Ring
  /\ \A q, r \in Ring : next[q] = next[r] => q = r
  /\ \A r \in Ring : \E q \in Ring : next[q] = r

\* What the walk can still come to: a task that was unlinked under it points
\* to the list, or to another such task.
PinnedStays ==
  /\ \A t \in pinned : struct[t] = "unlinked" /\ next[t] \in Ring \cup pinned
  /\ task \in Ring \cup pinned
  /\ ~ reading => pinned = {} /\ task = InitTask

\* The walk goes on, on some task, only while the limit allows it, within insmod.
WalkGoesOn ==
  /\ walk \in {"next", "print"} => number \in 0 .. Number
  /\ walk = "print" => task \in Task
  /\ walk # "out" => at["test_clobber"] = "init"

\* A module that is there holds base_lib.
BaseHeld ==
  \A m \in Module \ {"base_lib"} : at[m] # "absent" => at["base_lib"] = "live"

\* The file leads to pita only while its init is past the creation and its
\* exit not yet past the removal; calls are waited for by the removal.
FileServed ==
  /\ entries # {} <=> at["pita"] \in {"file", "created", "live", "exit"}
  /\ "test" \in entries => at["pita"] # "file"
  /\ \A o \in Opener :
       /\ file[o] = "open" => at["pita"] \in {"created", "live", "exit"}
       /\ InModule(o) => at["pita"] \in {"created", "live", "exit", "wait"}

Inv == TypeOK /\ ListIsRing /\ PinnedStays /\ WalkGoesOn /\ BaseHeld /\ FileServed
-----------------------------------------------------------------------------
LEMMA InitInv == Init => Inv
<1> SUFFICES ASSUME Init PROVE Inv
  OBVIOUS
<1> USE TaskAssumption, NumberAssumption DEF Init
<1>1. Ring = {First, InitTask}
  BY DEF Ring, Linked
<1>2. TypeOK
  <2>1. printed \in Seq(Task)
    OBVIOUS
  <2>2. at \in [Module -> {"absent"}] /\ 0 \in -1 .. Number
    OBVIOUS
  <2>3. file \in [Opener -> {"closed"}]
    OBVIOUS
  <2> QED
    BY <2>1, <2>2, <2>3 DEF TypeOK
<1>3. ListIsRing
  BY <1>1 DEF ListIsRing
<1>4. PinnedStays
  BY <1>1 DEF PinnedStays
<1>5. WalkGoesOn /\ BaseHeld /\ FileServed
  BY DEF WalkGoesOn, BaseHeld, FileServed, InModule, Module
<1> QED
  BY <1>2, <1>3, <1>4, <1>5 DEF Inv

\* The task before one on the list.
LEMMA BeforeIn ==
  ASSUME Inv, NEW r \in Ring
  PROVE  /\ Before(r) \in Ring /\ next[Before(r)] = r
         /\ \A q \in Ring : next[q] = r => q = Before(r)
<1>1. \E q \in Ring : next[q] = r
  BY DEF Inv, ListIsRing
<1>2. Before(r) \in Ring /\ next[Before(r)] = r
  BY <1>1 DEF Before, Ring
<1> QED
  BY <1>2 DEF Inv, ListIsRing
-----------------------------------------------------------------------------
(* The steps that leave the task list and the walk alone *)

\* A step of insmod, rmmod or a file keeps what is known of the list.
LEMMA ListKept ==
  ASSUME Inv, Stays
  PROVE  ListIsRing' /\ PinnedStays'
<1>1. Ring' = Ring
  BY DEF Stays, list, Ring, Linked
<1> QED
  BY <1>1 DEF Inv, ListIsRing, PinnedStays, Stays, list, walker

LEMMA LoaderInv == Inv /\ Loader => Inv'
<1> SUFFICES ASSUME Inv, Loader PROVE Inv'
  OBVIOUS
<1> USE DEF Inv, Goto, Module
<1>1. Stays
  BY DEF Loader, InitReturns, Freed, DirFails, CreateDir, CreateFile, FileFails,
         Remove, RemoveReturns
<1>2. ListIsRing' /\ PinnedStays'
  BY <1>1, ListKept
<1>3. TypeOK'
  <2>1. UNCHANGED <<list, walker, stayed, spoiled>>
    BY <1>1 DEF Stays, Loader, InitReturns, Freed, DirFails, CreateDir, CreateFile,
       FileFails, Remove, RemoveReturns
  <2>2. /\ at' \in [Module -> {"absent", "init", "live", "exit"}
                             \cup {"file", "created", "failed", "wait", "gone"}]
        /\ \A m \in Module \ {"pita"} : at'[m] \in {"absent", "init", "live", "exit"}
    BY DEF TypeOK, Loader, InitReturns, Freed, DirFails, CreateDir, CreateFile,
       FileFails, Remove, RemoveReturns
  <2>3. entries' \in SUBSET {"pita", "test"}
    BY DEF TypeOK, Loader, InitReturns, Freed, DirFails, CreateDir, CreateFile,
       FileFails, RemoveDir, Remove, RemoveReturns
  <2>4. file' \in [Opener -> {"closed", "test_open", "open", "call", "stale"}]
    BY DEF TypeOK, Loader, InitReturns, Freed, DirFails, CreateDir, CreateFile,
       FileFails, Remove, RemoveReturns
  <2> QED
    BY <2>1, <2>2, <2>3, <2>4 DEF TypeOK, list, walker
<1>4. WalkGoesOn'
  BY <1>1 DEF WalkGoesOn, TypeOK, Stays, walker, Loader, InitReturns, Freed, DirFails,
     CreateDir, CreateFile, FileFails, Remove, RemoveReturns
<1>5. BaseHeld'
  BY DEF BaseHeld, TypeOK, Loader, InitReturns, Freed, DirFails,
     CreateDir, CreateFile, FileFails, Remove, RemoveReturns
<1>6. FileServed'
  <2>1. CASE InitReturns \/ Freed \/ DirFails \/ CreateDir \/ CreateFile \/ FileFails
    BY <2>1 DEF FileServed, InModule, TypeOK, InitReturns, Freed, DirFails,
       CreateDir, CreateFile, FileFails, RemoveDir
  <2>2. CASE Remove \/ RemoveReturns
    BY <2>2 DEF FileServed, InModule, CallsDone, TypeOK, Remove, RemoveReturns
  <2> QED
    BY <2>1, <2>2 DEF Loader
<1> QED
  BY <1>2, <1>3, <1>4, <1>5, <1>6

LEMMA ModuleInv ==
  ASSUME Inv, NEW m \in Module, Insmod(m) \/ Rmmod(m)
  PROVE  Inv'
<1> USE DEF Inv, Goto, Insmod, Rmmod, Resolves, Unused, Module
<1>1. ListIsRing' /\ PinnedStays'
  BY ListKept
<1>2. TypeOK'
  <2>1. /\ at' \in [Module -> {"absent", "init", "live", "exit"}
                             \cup {"file", "created", "failed", "wait", "gone"}]
        /\ \A k \in Module \ {"pita"} : at'[k] \in {"absent", "init", "live", "exit"}
    BY DEF TypeOK
  <2> QED
    BY <2>1 DEF TypeOK, Stays, list, walker
<1>3. WalkGoesOn' /\ BaseHeld'
  BY DEF WalkGoesOn, BaseHeld, TypeOK, Stays, walker
<1>4. FileServed'
  BY DEF FileServed, InModule, TypeOK
<1> QED
  BY <1>1, <1>2, <1>3, <1>4

LEMMA FileInv ==
  ASSUME Inv, NEW o \in Opener, Open(o) \/ Call(o) \/ CallReturns(o) \/ Close(o)
  PROVE  Inv'
<1> USE DEF Inv, File, Open, Call, CallReturns, Close
<1>1. ListIsRing' /\ PinnedStays'
  BY ListKept
<1>2. TypeOK'
  <2>1. Neighbours \subseteq Variables
    BY DEF Neighbours
  <2>2. spoiled' \in SUBSET Variables
    BY <2>1 DEF TypeOK
  <2>3. file' \in [Opener -> {"closed", "test_open", "open", "call", "stale"}]
    BY DEF TypeOK
  <2>4. UNCHANGED <<at, entries, list, walker, stayed>>
    BY DEF Stays
  <2> QED
    BY <2>2, <2>3, <2>4 DEF TypeOK, list, walker
<1>3. WalkGoesOn' /\ BaseHeld'
  BY DEF WalkGoesOn, BaseHeld, Stays, walker
<1>4. FileServed'
  BY DEF FileServed, InModule, TypeOK
<1> QED
  BY <1>1, <1>2, <1>3, <1>4
-----------------------------------------------------------------------------
(* The task list *)

LEMMA ForkInv == ASSUME Inv, NEW t \in Task, Fork(t) PROVE Inv'
<1> USE TaskAssumption DEF Inv, Fork, modules, walker
<1> DEFINE last == Before(InitTask)
<1>1. Ring \subseteq Task \cup {InitTask} /\ t \notin Ring /\ InitTask \in Ring
  BY DEF Ring, Linked, TypeOK
<1>2. last \in Ring /\ next[last] = InitTask /\ (\A q \in Ring : next[q] = InitTask => q = last)
  BY <1>1, BeforeIn
<1>3. Ring' = Ring \cup {t}
  BY DEF Ring, Linked, TypeOK
<1>4. /\ next'[t] = InitTask /\ next'[last] = t
      /\ \A q \in Ring \ {last} : next'[q] = next[q]
  BY <1>1, <1>2 DEF TypeOK
<1>5. TypeOK'
  BY DEF TypeOK
<1>6. ListIsRing'
  <2> HIDE DEF Fork
  <2>1. ASSUME NEW q \in Ring' PROVE next'[q] \in Ring'
    BY <1>1, <1>2, <1>3, <1>4, <2>1 DEF ListIsRing
  <2>2. \A q, r \in Ring' : next'[q] = next'[r] => q = r
    BY <1>1, <1>2, <1>3, <1>4 DEF ListIsRing
  <2>3. ASSUME NEW r \in Ring PROVE \E q \in Ring' : next'[q] = r
    <3>1. PICK q \in Ring : next[q] = r
      BY DEF ListIsRing
    <3> QED
      BY <1>1, <1>2, <1>3, <1>4, <3>1
  <2> QED
    BY <1>2, <1>3, <1>4, <2>1, <2>2, <2>3 DEF ListIsRing
<1>7. PinnedStays'
  <2>1. \A u \in pinned : u # t /\ u # last /\ u \in Task
    BY <1>2 DEF PinnedStays, TypeOK, Ring, Linked
  <2>2. \A u \in pinned : next'[u] = next[u] /\ struct'[u] = struct[u]
    BY <2>1 DEF TypeOK
  <2>3. UNCHANGED <<pinned, task, reading>>
    OBVIOUS
  <2> HIDE DEF Fork
  <2> QED
    BY <2>2, <2>3, <1>3 DEF PinnedStays
<1>8. WalkGoesOn' /\ BaseHeld' /\ FileServed'
  BY DEF WalkGoesOn, BaseHeld, FileServed, InModule
<1> QED
  BY <1>5, <1>6, <1>7, <1>8

LEMMA ExitInv == ASSUME Inv, NEW t \in Task, Exit(t) PROVE Inv'
<1> USE TaskAssumption DEF Inv, Exit, modules, walker
<1> DEFINE prev == Before(t)
<1>1. Ring \subseteq Task \cup {InitTask} /\ t \in Ring /\ t # InitTask
  BY DEF Ring, Linked
<1>2. prev \in Ring /\ next[prev] = t /\ (\A q \in Ring : next[q] = t => q = prev)
  BY <1>1, BeforeIn
<1>3. Ring' = Ring \ {t}
  BY <1>1 DEF Ring, Linked, TypeOK
<1>4. /\ next'[prev] = next[t]
      /\ \A q \in (Task \cup {InitTask}) \ {prev} : next'[q] = next[q]
  BY <1>1, <1>2 DEF TypeOK
<1>5. TypeOK'
  BY <1>1, <1>2 DEF TypeOK
<1>6. ListIsRing'
  <2>1. \A q \in Ring' : next'[q] \in Ring'
    BY <1>1, <1>2, <1>3, <1>4 DEF ListIsRing
  <2>2. \A q, r \in Ring' : next'[q] = next'[r] => q = r
    BY <1>1, <1>2, <1>3, <1>4 DEF ListIsRing
  <2>3. ASSUME NEW r \in Ring' PROVE \E q \in Ring' : next'[q] = r
    <3>1. PICK q \in Ring : next[q] = r
      BY <1>3, <2>3 DEF ListIsRing
    <3>2. CASE q = t
      <4>1. prev # t
        BY <1>2, <1>3, <2>3, <3>1, <3>2
      <4> QED
        BY <1>2, <1>3, <1>4, <3>1, <3>2, <4>1
    <3>3. CASE q # t
      BY <1>1, <1>2, <1>3, <1>4, <2>3, <3>1, <3>3
    <3> QED
      BY <3>2, <3>3
  <2> QED
    BY <2>1, <2>2, <2>3 DEF ListIsRing
<1>7. PinnedStays'
  <2>1. Ring \cup pinned \subseteq Ring' \cup pinned' \/ ~ reading
    BY <1>3
  <2>2. t # prev => next'[t] = next[t]
    BY <1>4
  <2>3. \A u \in pinned : u # t /\ u # prev /\ next'[u] = next[u]
    BY <1>2, <1>4 DEF PinnedStays, TypeOK, Ring, Linked
  <2>4. reading => next'[t] \in Ring' \cup pinned'
    BY <1>1, <1>2, <1>3, <1>4 DEF ListIsRing
  <2>5. \A u \in pinned' : struct'[u] = "unlinked"
    BY DEF PinnedStays, TypeOK
  <2>6. CASE reading
    BY <2>1, <2>3, <2>4, <2>5, <2>6 DEF PinnedStays
  <2>7. CASE ~ reading
    BY <1>1, <1>3, <2>7 DEF PinnedStays, Ring
  <2> QED
    BY <2>6, <2>7
<1>8. WalkGoesOn' /\ BaseHeld' /\ FileServed'
  BY DEF WalkGoesOn, BaseHeld, FileServed, InModule
<1> QED
  BY <1>5, <1>6, <1>7, <1>8

LEMMA FreeTaskInv == ASSUME Inv, NEW t \in Task, FreeTask(t) PROVE Inv'
<1> USE TaskAssumption DEF Inv, FreeTask, modules, walker
<1>1. Ring' = Ring /\ t \notin Ring /\ Ring \subseteq Task \cup {InitTask}
  BY DEF Ring, Linked, TypeOK
<1>2. \A q \in (Task \cup {InitTask}) \ {t} : next'[q] = next[q]
  BY DEF TypeOK
<1>3. TypeOK'
  BY DEF TypeOK
<1>4. ListIsRing'
  BY <1>1, <1>2 DEF ListIsRing
<1>5. PinnedStays'
  BY <1>1, <1>2 DEF PinnedStays, TypeOK
<1>6. WalkGoesOn' /\ BaseHeld' /\ FileServed'
  BY DEF WalkGoesOn, BaseHeld, FileServed, InModule
<1> QED
  BY <1>3, <1>4, <1>5, <1>6
-----------------------------------------------------------------------------
LEMMA WalkerInv == Inv /\ Walker => Inv'
<1> SUFFICES ASSUME Inv, Walker PROVE Inv'
  OBVIOUS
<1> USE TaskAssumption, NumberAssumption DEF Inv, Walk
<1>1. Ring' = Ring /\ InitTask \in Ring /\ Ring \cup pinned \subseteq Task \cup {InitTask}
  BY DEF Ring, Linked, TypeOK, Walker, Enter, NextTask, PrintTask, Leave
<1>2. ListIsRing'
  BY <1>1 DEF ListIsRing, Walker, Enter, NextTask, PrintTask, Leave
<1>3. TypeOK'
  <2>1. UNCHANGED <<entries, file, spoiled, struct, next>>
    BY DEF Walker, Enter, NextTask, PrintTask, Leave
  <2>2. CASE Enter
    <3>1. number' \in -1 .. Number /\ stayed' \in SUBSET Task
      BY <2>2 DEF Enter, Linked
    <3>2. reading' = (walk' # "out")
      BY <2>2 DEF Enter, RcuReadLock
    <3>3. walk' = "next" /\ task' = InitTask /\ UNCHANGED <<at, pinned, printed>>
      BY <2>2 DEF Enter
    <3> QED
      BY <2>1, <3>1, <3>2, <3>3 DEF TypeOK
  <2>3. CASE NextTask
    BY <1>1, <2>1, <2>3 DEF NextTask, TypeOK, PinnedStays, ListIsRing
  <2>4. CASE PrintTask
    <3>1. printed' \in Seq(Task)
      <4>1. task \in Task /\ printed \in Seq(Task)
        BY <2>4 DEF PrintTask, TypeOK, WalkGoesOn
      <4> QED
        BY <2>4, <4>1 DEF PrintTask
    <3>2. number' \in -1 .. Number
      BY <2>4 DEF PrintTask, WalkGoesOn
    <3> QED
      BY <2>1, <2>4, <3>1, <3>2 DEF PrintTask, TypeOK
  <2>5. CASE Leave
    <3>1. printed' \in Seq(Task) /\ number' \in -1 .. Number
      BY <2>5 DEF Leave
    <3>2. reading' = (walk' # "out") /\ pinned' \in SUBSET Task /\ stayed' \in SUBSET Task
      BY <2>5 DEF Leave
    <3>3. /\ at' \in [Module -> {"absent", "init", "live", "exit"}
                               \cup {"file", "created", "failed", "wait", "gone"}]
          /\ \A m \in Module \ {"pita"} : at'[m] \in {"absent", "init", "live", "exit"}
      BY <2>5 DEF Leave, Goto, TypeOK, Module
    <3> QED
      BY <2>1, <2>5, <3>1, <3>2, <3>3 DEF Leave, TypeOK
  <2> QED
    BY <2>2, <2>3, <2>4, <2>5 DEF Walker
<1>4. PinnedStays'
  <2>1. CASE Enter
    BY <1>1, <2>1 DEF Enter, RcuReadLock, PinnedStays
  <2>2. CASE NextTask
    BY <1>1, <2>2 DEF NextTask, PinnedStays, ListIsRing, TypeOK
  <2>3. CASE PrintTask \/ Leave
    BY <1>1, <2>3 DEF PrintTask, Leave, PinnedStays
  <2> QED
    BY <2>1, <2>2, <2>3 DEF Walker
<1>5. WalkGoesOn'
  BY DEF Walker, Enter, NextTask, PrintTask, LimitReached, Leave, WalkGoesOn, TypeOK
<1>6. BaseHeld' /\ FileServed'
  <2>1. CASE Enter \/ NextTask \/ PrintTask
    BY <2>1 DEF Enter, NextTask, PrintTask, BaseHeld, FileServed, InModule
  <2>2. CASE Leave
    BY <2>2 DEF Leave, Goto, BaseHeld, FileServed, InModule, TypeOK, Module
  <2> QED
    BY <2>1, <2>2 DEF Walker
<1> QED
  BY <1>2, <1>3, <1>4, <1>5, <1>6

LEMMA NextInv == Inv /\ [Next]_vars => Inv'
<1>1. Inv /\ UNCHANGED vars => Inv'
  BY DEF Inv, vars, modules, list, walker, TypeOK, ListIsRing, PinnedStays, WalkGoesOn,
     BaseHeld, FileServed, InModule, Ring, Linked
<1> QED
  BY <1>1, LoaderInv, ModuleInv, FileInv, ForkInv, ExitInv, FreeTaskInv, WalkerInv
     DEF Next, User, Kernel

LEMMA Invariance == Spec => []Inv
  BY InitInv, NextInv, PTL DEF Spec

\* The state is well typed, and the read-side section spans just the walk.
THEOREM TypeCorrect == Spec => []TypeOK
<1>1. Inv => TypeOK
  BY DEF Inv
<1> QED
  BY <1>1, Invariance, PTL

\* test_dump_tasklist (base_lib.c:36) reads only task_structs that are not
\* freed, for any number of tasks, whoever forks and exits meanwhile.
THEOREM WalkIsSafe == Spec => []WalkSafe
<1>1. Inv => WalkSafe
  BY DEF Inv, PinnedStays, Ring, Linked, WalkSafe
<1> QED
  BY <1>1, Invariance, PTL
-----------------------------------------------------------------------------
(* What the walk has printed *)

Held   == Linked \cup pinned
Listed == {printed[j] : j \in 1 .. Len(printed)}

\* Positions of tasks in the list, as numbers that a task keeps when it is
\* unlinked and that grow with every fork; the head has 0.
Rank == {rank \in [Task \cup {InitTask} -> Nat] :
           rank[InitTask] = 0 /\ \E top \in Nat : \A t \in Task : rank[t] <= top}

\* q's pointer leads to the first of S behind q, or to none if there is none.
FirstBehind(rank, q, S) ==
  \A t \in S : rank[t] > rank[q] => next[q] # InitTask /\ rank[next[q]] <= rank[t]

\* The pointers go up; those of the list leave out no task of it, those of
\* unlinked tasks none that was there when the walk began.
Ordered(rank) ==
  /\ \A t \in Held : rank[t] > 0
  /\ \A t, u \in Held : rank[t] = rank[u] => t = u
  /\ \A q \in Ring \cup pinned : next[q] # InitTask => rank[q] < rank[next[q]]
  /\ \A q \in Ring : FirstBehind(rank, q, Linked)
  /\ \A q \in pinned : FirstBehind(rank, q, stayed)

\* The tasks printed have gone up, to where the walk is.
InListOrder(rank) ==
  /\ \A j \in 1 .. Len(printed) : printed[j] \in Held
  /\ \A j, k \in 1 .. Len(printed) : j < k => rank[printed[j]] < rank[printed[k]]
  /\ walk = "print" => \A j \in 1 .. Len(printed) : rank[printed[j]] < rank[task]
  /\ walk = "next" => \A j \in 1 .. Len(printed) : rank[printed[j]] <= rank[task]

\* A task that was there all the time is printed or still ahead.
NoneMissed(rank) ==
  /\ walk = "next" => \A t \in stayed : t \in Listed \/ rank[t] > rank[task]
  /\ walk = "print" => \A t \in stayed : t \in Listed \/ rank[t] >= rank[task]
  /\ walk = "unlock" /\ number >= 0 => stayed \subseteq Listed

Positioned(rank) == Ordered(rank) /\ InListOrder(rank) /\ NoneMissed(rank)

Counted ==
  /\ stayed \subseteq Linked
  /\ walk = "out" => printed = <<>>
  /\ walk # "out" => number = Number - Len(printed)

WalkInv == Inv /\ Counted /\ \E rank \in Rank : Positioned(rank)

LEMMA InitWalk == Init => WalkInv
<1> SUFFICES ASSUME Init PROVE WalkInv
  OBVIOUS
<1> USE TaskAssumption
<1> DEFINE rank == [t \in Task \cup {InitTask} |-> IF t = InitTask THEN 0 ELSE 1]
<1>1. Inv
  BY InitInv
<1>2. Linked = {First} /\ pinned = {} /\ stayed = {} /\ printed = <<>> /\ walk = "out"
      /\ next[InitTask] = First /\ next[First] = InitTask
  BY DEF Init, Linked
<1>3. rank \in Rank
  <2>1. rank \in [Task \cup {InitTask} -> Nat] /\ rank[InitTask] = 0
    OBVIOUS
  <2>2. \A t \in Task : rank[t] <= 1
    OBVIOUS
  <2> QED
    BY <2>1, <2>2 DEF Rank
<1>4. rank[First] = 1 /\ rank[InitTask] = 0
  OBVIOUS
<1> HIDE DEF rank
<1>5. Ordered(rank)
  <2>1. Held = {First} /\ Ring = {First, InitTask}
    BY <1>2 DEF Held, Ring
  <2> QED
    BY <1>2, <1>4, <2>1 DEF Ordered, FirstBehind
<1>6. InListOrder(rank) /\ NoneMissed(rank)
  <2>1. 1 .. Len(printed) = {}
    BY <1>2
  <2> QED
    BY <1>2, <2>1 DEF InListOrder, NoneMissed
<1>7. Counted
  BY <1>2 DEF Counted
<1> QED
  BY <1>1, <1>3, <1>5, <1>6, <1>7 DEF WalkInv, Positioned

\* Steps that touch neither the list nor the walk.
LEMMA WalkUntouched ==
  ASSUME Counted, NEW rank \in Rank, Positioned(rank), Stays
  PROVE  Counted' /\ Positioned(rank)'
<1>1. UNCHANGED <<Linked, Held, Ring, Listed>>
  BY DEF Stays, list, walker, Linked, Held, Ring, Listed
<1>2. Counted'
  BY <1>1 DEF Stays, list, walker, Counted
<1>3. Ordered(rank)'
  BY <1>1 DEF Stays, list, walker, Positioned, Ordered, FirstBehind
<1>4. InListOrder(rank)' /\ NoneMissed(rank)'
  BY <1>1 DEF Stays, list, walker, Positioned, InListOrder, NoneMissed
<1> QED
  BY <1>2, <1>3, <1>4 DEF Positioned

\* A task that is forked gets a number above all others.
LEMMA ForkWalk ==
  ASSUME Inv, Counted, NEW rank \in Rank, Positioned(rank), NEW t \in Task, Fork(t)
  PROVE  Counted' /\ \E new \in Rank : Positioned(new)'
<1> USE TaskAssumption DEF Inv
<1> DEFINE last == Before(InitTask)
<1>1. PICK top \in Nat : \A u \in Task : rank[u] <= top
  BY DEF Rank
<1> DEFINE new == [rank EXCEPT ![t] = top + 1]
<1>2. /\ Ring \subseteq Task \cup {InitTask} /\ t \notin Ring /\ t \notin pinned
      /\ InitTask \in Ring /\ Linked = Ring \ {InitTask} /\ pinned \subseteq Task
      /\ pinned \cap Ring = {}
  BY DEF Ring, Linked, TypeOK, PinnedStays, Fork
<1>3. last \in Ring /\ next[last] = InitTask /\ (\A q \in Ring : next[q] = InitTask => q = last)
  BY <1>2, BeforeIn
<1>4. /\ next'[t] = InitTask /\ next'[last] = t
      /\ \A q \in (Ring \cup pinned) \ {last} : next'[q] = next[q]
  BY <1>2, <1>3 DEF Fork, TypeOK
<1>5. Ring' = Ring \cup {t} /\ Linked' = Linked \cup {t} /\ Held' = Held \cup {t}
  BY DEF Ring, Held, Linked, TypeOK, Fork
<1>6. UNCHANGED <<pinned, stayed, walker>>
  BY DEF Fork
<1>7. rank \in [Task \cup {InitTask} -> Nat] /\ rank[InitTask] = 0
  BY DEF Rank
<1>8. /\ new \in [Task \cup {InitTask} -> Nat] /\ new[t] = top + 1
      /\ \A u \in (Task \cup {InitTask}) \ {t} : new[u] = rank[u] /\ new[u] < new[t]
  BY <1>1, <1>7
<1> HIDE DEF new, last
<1>9. new \in Rank
  <2>1. ASSUME NEW u \in Task PROVE new[u] <= top + 1
    BY <1>1, <1>7, <1>8, <2>1
  <2>2. new[InitTask] = 0 /\ top + 1 \in Nat
    BY <1>7, <1>8
  <2> QED
    BY <1>8, <2>1, <2>2 DEF Rank
<1>10. \A q \in Ring \cup pinned : next[q] \in Ring \cup pinned
  BY DEF ListIsRing, PinnedStays
<1>11. Ordered(new)'
  <2>1. \A u \in Held' : new[u] > 0
    BY <1>2, <1>5, <1>7, <1>8 DEF Held, Positioned, Ordered
  <2>2. \A u, v \in Held' : new[u] = new[v] => u = v
    BY <1>2, <1>5, <1>7, <1>8 DEF Held, Positioned, Ordered
  <2>3. ASSUME NEW q \in (Ring \cup pinned)', next'[q] # InitTask
        PROVE  new[q] < new[next'[q]]
    <3>1. CASE q = last
      BY <1>2, <1>3, <1>4, <1>8, <3>1
    <3>2. CASE q # last
      <4>1. q \in Ring \cup pinned /\ next'[q] = next[q] /\ q # t /\ next[q] # t
        BY <1>2, <1>4, <1>5, <1>6, <1>10, <2>3, <3>2
      <4>2. rank[q] < rank[next[q]]
        BY <2>3, <4>1 DEF Positioned, Ordered
      <4> QED
        BY <1>2, <1>8, <1>10, <4>1, <4>2
    <3> QED
      BY <3>1, <3>2
  <2>4. ASSUME NEW q \in Ring', NEW u \in Linked', new[u] > new[q]
        PROVE  next'[q] # InitTask /\ new[next'[q]] <= new[u]
    <3>1. q # t
      BY <1>2, <1>5, <1>7, <1>8, <2>4
    <3>2. CASE q = last
      <4>1. u = t
        <5> SUFFICES ASSUME u # t PROVE FALSE
          OBVIOUS
        <5>1. u \in Linked /\ rank[u] > rank[q]
          BY <1>2, <1>3, <1>5, <1>8, <2>4, <3>1, <3>2
        <5> QED
          BY <1>3, <3>2, <5>1 DEF Positioned, Ordered, FirstBehind
      <4> QED
        BY <1>2, <1>4, <1>8, <3>2, <4>1
    <3>3. CASE q # last
      <4>1. q \in Ring /\ next'[q] = next[q] /\ next[q] # InitTask /\ next[q] \in Ring /\ next[q] # t
        BY <1>2, <1>3, <1>4, <1>5, <3>1, <3>3 DEF ListIsRing
      <4>2. CASE u = t
        BY <1>2, <1>8, <4>1, <4>2
      <4>3. CASE u # t
        <5>1. u \in Linked /\ rank[u] > rank[q]
          BY <1>2, <1>5, <1>8, <2>4, <3>1, <4>1, <4>3
        <5>2. rank[next[q]] <= rank[u]
          BY <4>1, <5>1 DEF Positioned, Ordered, FirstBehind
        <5> QED
          BY <1>2, <1>8, <4>1, <4>3, <5>1, <5>2
      <4> QED
        BY <4>2, <4>3
    <3> QED
      BY <3>2, <3>3
  <2>5. ASSUME NEW q \in pinned', NEW u \in stayed', new[u] > new[q]
        PROVE  next'[q] # InitTask /\ new[next'[q]] <= new[u]
    <3>1. /\ q \in pinned /\ u \in stayed /\ u \in Ring /\ q # t /\ u # t /\ q # last
          /\ next[q] \in Ring \cup pinned /\ next[q] # t /\ next'[q] = next[q]
      BY <1>2, <1>3, <1>4, <1>6, <1>10, <2>5 DEF Counted
    <3>2. rank[u] > rank[q]
      BY <1>2, <1>8, <2>5, <3>1
    <3>3. next[q] # InitTask /\ rank[next[q]] <= rank[u]
      BY <3>1, <3>2 DEF Positioned, Ordered, FirstBehind
    <3> QED
      BY <1>2, <1>8, <3>1, <3>3
  <2> QED
    BY <2>1, <2>2, <2>3, <2>4, <2>5 DEF Ordered, FirstBehind
<1>12. Listed' = Listed /\ \A j \in 1 .. Len(printed) : new[printed[j]] = rank[printed[j]]
  BY <1>2, <1>6, <1>8 DEF walker, Listed, Positioned, InListOrder, Held
<1>13. task # t /\ new[task] = rank[task] /\ \A u \in stayed : new[u] = rank[u]
  BY <1>2, <1>8 DEF PinnedStays, Counted
<1>14. InListOrder(new)' /\ NoneMissed(new)'
  <2>1. InListOrder(new)'
    BY <1>5, <1>6, <1>12, <1>13 DEF Positioned, InListOrder, walker
  <2>2. NoneMissed(new)'
    BY <1>6, <1>12, <1>13 DEF Positioned, NoneMissed, walker
  <2> QED
    BY <2>1, <2>2
<1>15. Counted'
  BY <1>5, <1>6 DEF Counted, walker
<1> QED
  BY <1>9, <1>11, <1>14, <1>15 DEF Positioned

\* A task that is unlinked keeps its number: the one before it now points past
\* it, and no task of the list lies between.
LEMMA ExitWalk ==
  ASSUME Inv, Counted, NEW rank \in Rank, Positioned(rank), NEW t \in Task, Exit(t)
  PROVE  Counted' /\ Positioned(rank)'
<1> USE TaskAssumption DEF Inv
<1> DEFINE prev == Before(t)
<1>1. /\ Ring \subseteq Task \cup {InitTask} /\ t \in Ring /\ t # InitTask
      /\ InitTask \in Ring /\ Linked = Ring \ {InitTask} /\ pinned \subseteq Task
      /\ pinned \cap Ring = {} /\ t \in Linked
  BY DEF Ring, Linked, TypeOK, PinnedStays, Exit
<1>2. prev \in Ring /\ next[prev] = t /\ (\A q \in Ring : next[q] = t => q = prev)
  BY <1>1, BeforeIn
<1>3. /\ next'[prev] = next[t]
      /\ \A q \in (Task \cup {InitTask}) \ {prev} : next'[q] = next[q]
  BY <1>1, <1>2 DEF Exit, TypeOK
<1>4. Ring' = Ring \ {t} /\ Linked' = Linked \ {t} /\ stayed' = stayed \ {t}
  BY <1>1 DEF Ring, Linked, TypeOK, Exit
<1>5. pinned' = IF reading THEN pinned \cup {t} ELSE {}
  BY DEF Exit, PinnedStays
<1>6. UNCHANGED <<walker, Listed>> /\ Held' \subseteq Held /\ (reading => Held' = Held)
  BY <1>1, <1>4, <1>5 DEF Exit, Held, walker, Listed
<1>7. \A u \in Task \cup {InitTask} : rank[u] \in Nat
  BY DEF Rank
<1>8. \A q \in Ring \cup pinned : next[q] \in Ring \cup pinned
  BY DEF ListIsRing, PinnedStays
<1>9. rank[prev] < rank[t] /\ (next[t] # InitTask => rank[t] < rank[next[t]])
  BY <1>1, <1>2 DEF Positioned, Ordered
<1>10. prev # t
  BY <1>1, <1>2, <1>7, <1>9
<1> HIDE DEF prev
<1>11. Ordered(rank)'
  <2>1. \A u \in Held' : rank[u] > 0
    BY <1>6 DEF Positioned, Ordered
  <2>2. \A u, v \in Held' : rank[u] = rank[v] => u = v
    BY <1>6 DEF Positioned, Ordered
  <2>3. ASSUME NEW q \in (Ring \cup pinned)', next'[q] # InitTask
        PROVE  rank[q] < rank[next'[q]]
    <3>1. q \in Ring \cup pinned
      BY <1>1, <1>4, <1>5, <2>3
    <3>2. CASE q = prev
      <4>1. next[t] # InitTask /\ next'[q] = next[t] /\ next[t] \in Task \cup {InitTask}
        BY <1>1, <1>3, <1>8, <2>3, <3>2
      <4> QED
        BY <1>1, <1>2, <1>7, <1>9, <3>2, <4>1
    <3>3. CASE q # prev
      BY <1>1, <1>3, <2>3, <3>1, <3>3 DEF Positioned, Ordered
    <3> QED
      BY <3>2, <3>3
  <2>4. ASSUME NEW q \in Ring', NEW u \in Linked', rank[u] > rank[q]
        PROVE  next'[q] # InitTask /\ rank[next'[q]] <= rank[u]
    <3>1. q \in Ring /\ q # t /\ u \in Linked /\ u # t
      BY <1>4, <2>4
    <3>2. next[q] # InitTask /\ rank[next[q]] <= rank[u]
      BY <2>4, <3>1 DEF Positioned, Ordered, FirstBehind
    <3>3. CASE q = prev
      <4>1. rank[t] < rank[u]
        BY <1>1, <1>2, <1>7, <3>1, <3>2, <3>3 DEF Held, Positioned, Ordered
      <4>2. next[t] # InitTask /\ rank[next[t]] <= rank[u]
        BY <1>1, <3>1, <4>1 DEF Positioned, Ordered, FirstBehind
      <4> QED
        BY <1>3, <3>3, <4>2
    <3>4. CASE q # prev
      BY <1>1, <1>3, <3>1, <3>2, <3>4
    <3> QED
      BY <3>3, <3>4
  <2>5. ASSUME NEW q \in pinned', NEW u \in stayed', rank[u] > rank[q]
        PROVE  next'[q] # InitTask /\ rank[next'[q]] <= rank[u]
    <3>1. q \in pinned \cup {t} /\ q # prev /\ u \in stayed /\ u \in Linked
      BY <1>1, <1>2, <1>4, <1>5, <1>10, <2>5 DEF Counted
    <3>2. next'[q] = next[q]
      BY <1>1, <1>3, <3>1
    <3>3. CASE q = t
      BY <1>1, <2>5, <3>1, <3>2, <3>3 DEF Positioned, Ordered, FirstBehind
    <3>4. CASE q \in pinned
      BY <2>5, <3>1, <3>2, <3>4 DEF Positioned, Ordered, FirstBehind
    <3> QED
      BY <3>1, <3>3, <3>4
  <2> QED
    BY <2>1, <2>2, <2>3, <2>4, <2>5 DEF Ordered, FirstBehind
<1>12. InListOrder(rank)'
  <2>1. CASE reading
    BY <1>6, <2>1 DEF Positioned, InListOrder, walker
  <2>2. CASE ~ reading
    <3>1. printed' = <<>> /\ walk' = "out"
      BY <1>6, <2>2 DEF Counted, TypeOK, walker
    <3> QED
      BY <3>1 DEF InListOrder
  <2> QED
    BY <2>1, <2>2
<1>13. NoneMissed(rank)'
  BY <1>4, <1>6 DEF Positioned, NoneMissed, walker
<1>14. Counted'
  BY <1>4, <1>6 DEF Counted, walker
<1> QED
  BY <1>11, <1>12, <1>13, <1>14 DEF Positioned

\* The memory that is freed is no task's that the walk can come to.
LEMMA FreeTaskWalk ==
  ASSUME Inv, Counted, NEW rank \in Rank, Positioned(rank), NEW t \in Task, FreeTask(t)
  PROVE  Counted' /\ Positioned(rank)'
<1> USE TaskAssumption DEF Inv
<1>1. /\ Ring' = Ring /\ Linked' = Linked /\ Held' = Held /\ UNCHANGED <<pinned, stayed, walker>>
      /\ t \notin Ring \cup pinned /\ Ring \cup pinned \subseteq Task \cup {InitTask}
      /\ Listed' = Listed
  BY DEF Ring, Held, Linked, TypeOK, FreeTask, walker, Listed
<1>2. \A q \in Ring \cup pinned : next'[q] = next[q]
  BY <1>1 DEF FreeTask, TypeOK
<1>3. Ordered(rank)'
  BY <1>1, <1>2 DEF Positioned, Ordered, FirstBehind
<1>4. InListOrder(rank)' /\ NoneMissed(rank)' /\ Counted'
  BY <1>1 DEF Positioned, InListOrder, NoneMissed, Counted, walker
<1> QED
  BY <1>3, <1>4 DEF Positioned

\* The walk begins at the head, with everything ahead.
LEMMA EnterWalk ==
  ASSUME Inv, Counted, NEW rank \in Rank, Positioned(rank), Enter
  PROVE  Counted' /\ Positioned(rank)'
<1> USE DEF Inv
<1>1. /\ walk = "out" /\ walk' = "next" /\ printed = <<>> /\ printed' = <<>>
      /\ pinned = {} /\ pinned' = {} /\ task' = InitTask /\ number' = Number
      /\ UNCHANGED <<struct, next>> /\ stayed' = Linked
  BY DEF Enter, Walk, Counted, PinnedStays, TypeOK
<1>2. Ring' = Ring /\ Linked' = Linked /\ Held' = Held /\ 1 .. Len(printed') = {}
  BY <1>1 DEF Ring, Linked, Held
<1>3. Ordered(rank)'
  BY <1>1, <1>2 DEF Positioned, Ordered, FirstBehind
<1>4. InListOrder(rank)'
  BY <1>1, <1>2 DEF InListOrder
<1>5. NoneMissed(rank)'
  <2>1. \A u \in Linked : rank[u] > rank[InitTask]
    BY DEF Positioned, Ordered, Held, Rank
  <2> QED
    BY <1>1, <2>1 DEF NoneMissed
<1>6. Counted'
  BY <1>1, <1>2, NumberAssumption DEF Counted
<1> QED
  BY <1>3, <1>4, <1>5, <1>6 DEF Positioned

\* for_each_process: no task that was there all the time lies between the one
\* the walk leaves and the one it comes to.
LEMMA NextTaskWalk ==
  ASSUME Inv, Counted, NEW rank \in Rank, Positioned(rank), NextTask
  PROVE  Counted' /\ Positioned(rank)'
<1> USE TaskAssumption DEF Inv
<1>1. /\ walk = "next" /\ walk' = (IF next[task] = InitTask THEN "unlock" ELSE "print")
      /\ task' = next[task]
      /\ UNCHANGED <<struct, next, pinned, number, printed, stayed>>
  BY DEF NextTask, Walk
<1>2. UNCHANGED <<Ring, Linked, Held, Listed>>
  BY <1>1 DEF Ring, Linked, Held, Listed
<1>3. task \in Ring \cup pinned /\ Ring \cup pinned \subseteq Task \cup {InitTask}
      /\ next[task] \in Ring \cup pinned
  BY DEF PinnedStays, ListIsRing, Ring, Linked, TypeOK
<1>4. \A u \in Task \cup {InitTask} : rank[u] \in Nat
  BY DEF Rank
<1>5. \A u \in stayed : rank[u] > rank[task] => next[task] # InitTask /\ rank[next[task]] <= rank[u]
  BY <1>3 DEF Positioned, Ordered, FirstBehind, Counted
<1>6. next[task] # InitTask => rank[task] < rank[next[task]]
  BY <1>3 DEF Positioned, Ordered
<1>7. Ordered(rank)'
  BY <1>1, <1>2 DEF Positioned, Ordered, FirstBehind
<1>8. InListOrder(rank)'
  <2>1. \A j \in 1 .. Len(printed) : printed[j] \in Held /\ printed[j] \in Task \cup {InitTask}
    BY <1>3 DEF Positioned, InListOrder, Held, Ring
  <2>2. walk' = "print" => \A j \in 1 .. Len(printed) : rank[printed[j]] < rank[task']
    BY <1>1, <1>3, <1>4, <1>6, <2>1 DEF Positioned, InListOrder
  <2> QED
    BY <1>1, <1>2, <2>2 DEF Positioned, InListOrder
<1>9. NoneMissed(rank)'
  BY <1>1, <1>2, <1>5 DEF Positioned, NoneMissed
<1>10. Counted'
  BY <1>1, <1>2 DEF Counted
<1> QED
  BY <1>7, <1>8, <1>9, <1>10 DEF Positioned

\* The task printed is behind those printed before.
LEMMA PrintTaskWalk ==
  ASSUME Inv, Counted, NEW rank \in Rank, Positioned(rank), PrintTask
  PROVE  Counted' /\ Positioned(rank)'
<1> USE TaskAssumption, NumberAssumption DEF Inv
<1>1. /\ walk = "print" /\ walk' \in {"unlock", "next"} /\ (walk' = "unlock" => number = 0)
      /\ printed' = Append(printed, task) /\ number' = number - 1
      /\ UNCHANGED <<struct, next, pinned, task, stayed>>
  BY DEF PrintTask, Walk, LimitReached
<1>2. UNCHANGED <<Ring, Linked, Held>>
  BY <1>1 DEF Ring, Linked, Held
<1>3. task \in Task /\ task \in Held /\ printed \in Seq(Task)
  BY <1>1 DEF WalkGoesOn, PinnedStays, Ring, Held, TypeOK
<1>4. /\ Len(printed') = Len(printed) + 1 /\ printed'[Len(printed) + 1] = task
      /\ \A j \in 1 .. Len(printed) : printed'[j] = printed[j]
      /\ Len(printed) \in Nat
  BY <1>1, <1>3
<1>5. Listed' = Listed \cup {task}
  BY <1>4 DEF Listed
<1>6. \A u \in Task \cup {InitTask} : rank[u] \in Nat
  BY DEF Rank
<1>7. Ordered(rank)'
  BY <1>1, <1>2 DEF Positioned, Ordered, FirstBehind
<1>8. InListOrder(rank)'
  <2>1. \A j \in 1 .. Len(printed) : rank[printed[j]] < rank[task] /\ printed[j] \in Held
    BY <1>1 DEF Positioned, InListOrder
  <2>2. \A j \in 1 .. Len(printed') : printed'[j] \in Held'
    BY <1>2, <1>3, <1>4, <2>1
  <2>3. ASSUME NEW j \in 1 .. Len(printed'), NEW k \in 1 .. Len(printed'), j < k
        PROVE  rank[printed'[j]] < rank[printed'[k]]
    <3>1. j \in 1 .. Len(printed) /\ printed'[j] = printed[j]
      BY <1>4, <2>3
    <3>2. CASE k = Len(printed) + 1
      BY <1>4, <2>1, <3>1, <3>2
    <3>3. CASE k # Len(printed) + 1
      <4>1. k \in 1 .. Len(printed) /\ printed'[k] = printed[k]
        BY <1>4, <3>3
      <4> QED
        BY <2>3, <3>1, <4>1 DEF Positioned, InListOrder
    <3> QED
      BY <3>2, <3>3
  <2>4. ASSUME NEW j \in 1 .. Len(printed') PROVE rank[printed'[j]] <= rank[task']
    <3>1. CASE j = Len(printed) + 1
      BY <1>1, <1>3, <1>4, <1>6, <3>1
    <3>2. CASE j # Len(printed) + 1
      <4>1. j \in 1 .. Len(printed) /\ printed'[j] = printed[j] /\ printed[j] \in Task
        BY <1>3, <1>4, <3>2
      <4> QED
        BY <1>1, <1>3, <1>6, <2>1, <4>1
    <3> QED
      BY <3>1, <3>2
  <2> QED
    BY <1>1, <2>2, <2>3, <2>4 DEF InListOrder
<1>9. NoneMissed(rank)'
  <2>1. ASSUME NEW u \in stayed PROVE u \in Listed' \/ rank[u] > rank[task]
    <3>1. u \in Task /\ u \in Held /\ (u \in Listed \/ rank[u] >= rank[task])
      BY <1>1 DEF Positioned, NoneMissed, Counted, Held, Linked
    <3>2. rank[u] = rank[task] => u = task
      BY <1>3, <3>1 DEF Positioned, Ordered
    <3> QED
      BY <1>3, <1>5, <1>6, <3>1, <3>2
  <2>2. walk' = "unlock" => number' < 0
    BY <1>1
  <2> QED
    BY <1>1, <2>1, <2>2 DEF NoneMissed
<1>10. Counted'
  BY <1>1, <1>2, <1>4 DEF Counted, TypeOK
<1> QED
  BY <1>7, <1>8, <1>9, <1>10 DEF Positioned

LEMMA LeaveWalk ==
  ASSUME Inv, Counted, NEW rank \in Rank, Positioned(rank), Leave
  PROVE  Counted' /\ Positioned(rank)'
<1>1. /\ walk' = "out" /\ printed' = <<>> /\ pinned' = {} /\ stayed' = {}
      /\ UNCHANGED <<struct, next>>
  BY DEF Leave, Walk
<1>2. Ring' = Ring /\ Linked' = Linked /\ Held' \subseteq Held /\ 1 .. Len(printed') = {}
  BY <1>1 DEF Ring, Linked, Held
<1>3. Ordered(rank)'
  BY <1>1, <1>2 DEF Positioned, Ordered, FirstBehind
<1>4. InListOrder(rank)' /\ NoneMissed(rank)' /\ Counted'
  BY <1>1, <1>2 DEF InListOrder, NoneMissed, Counted
<1> QED
  BY <1>3, <1>4 DEF Positioned

LEMMA NextWalk == WalkInv /\ [Next]_vars => WalkInv'
<1> SUFFICES ASSUME WalkInv, [Next]_vars PROVE WalkInv'
  OBVIOUS
<1> USE DEF WalkInv
<1>1. Inv'
  BY NextInv
<1>2. PICK rank \in Rank : Positioned(rank)
  OBVIOUS
<1>3. CASE Loader \/ (\E m \in Module : Insmod(m) \/ Rmmod(m))
           \/ (\E o \in Opener : Open(o) \/ Call(o) \/ Close(o) \/ CallReturns(o))
           \/ UNCHANGED vars
  <2>1. Stays
    BY <1>3 DEF Loader, InitReturns, Freed, DirFails, CreateDir, CreateFile, FileFails,
       Remove, RemoveReturns, Insmod, Rmmod, Open, Call, Close, CallReturns, File, Stays, vars
  <2> QED
    BY <1>1, <1>2, <2>1, WalkUntouched
<1>4. CASE \E t \in Task : Fork(t)
  BY <1>1, <1>2, <1>4, ForkWalk
<1>5. CASE \E t \in Task : Exit(t) \/ FreeTask(t)
  BY <1>1, <1>2, <1>5, ExitWalk, FreeTaskWalk
<1>6. CASE Walker
  BY <1>1, <1>2, <1>6, EnterWalk, NextTaskWalk, PrintTaskWalk, LeaveWalk DEF Walker
<1> QED
  BY <1>3, <1>4, <1>5, <1>6 DEF Next, User, Kernel

\* What test_dump_tasklist's result says (base_lib.c:42-48) is true for any
\* number of tasks and any limit, whoever forks and exits during the walk.
THEOREM WalkIsComplete == Spec => []WalkComplete
<1>1. Spec => []WalkInv
  BY InitWalk, NextWalk, PTL DEF Spec
<1>2. WalkInv => WalkComplete
  <2> SUFFICES ASSUME WalkInv, walk = "unlock"
               PROVE  /\ \A i, j \in 1 .. Len(printed) : printed[i] = printed[j] => i = j
                      /\ IF number < 0 THEN Len(printed) = Number + 1 ELSE stayed \subseteq Listed
    BY DEF WalkComplete, Listed
  <2>1. PICK rank \in Rank : Positioned(rank)
    BY DEF WalkInv
  <2>2. printed \in Seq(Task) /\ number \in -1 .. Number /\ number = Number - Len(printed)
    BY DEF WalkInv, Inv, TypeOK, Counted
  <2>3. ASSUME NEW i \in 1 .. Len(printed), NEW j \in 1 .. Len(printed), printed[i] = printed[j]
        PROVE  i = j
    <3>1. printed[i] \in Task /\ rank[printed[i]] \in Nat
      BY <2>2 DEF Rank
    <3> QED
      BY <2>1, <2>2, <2>3, <3>1 DEF Positioned, InListOrder
  <2>4. number < 0 => Len(printed) = Number + 1
    BY <2>2, NumberAssumption
  <2>5. number >= 0 => stayed \subseteq Listed
    BY <2>1 DEF Positioned, NoneMissed
  <2> QED
    BY <2>2, <2>3, <2>4, <2>5
<1> QED
  BY <1>1, <1>2, PTL
-----------------------------------------------------------------------------
(* The width of depends *)

\* Wherever depends lies, it is at a multiple of 4, and what lies behind it is
\* at the next multiple of 4 or further.
LEMMA NothingBeside == Neighbours = {}
<1> SUFFICES ASSUME NEW v \in Variables \ {"depends"}, NEW o \in Orders,
                    NEW i \in 1 .. 3, NEW j \in 1 .. 3, o[i] = "depends", o[j] = v
             PROVE  ~ (/\ Address(o)[j] < Address(o)[i] + 4
                       /\ Address(o)[i] < Address(o)[j] + Size(v))
  BY DEF Neighbours
<1>1. /\ o[1] \in Variables /\ o[2] \in Variables /\ o[3] \in Variables
      /\ o[1] # o[2] /\ o[1] # o[3] /\ o[2] # o[3]
  BY DEF Orders
<1>2. Size("dummy") = 4 /\ Size("depends") = 2 /\ Size("base_lib_desc") = 20
  BY DEF Size
<1>3. Align("dummy") = 4 /\ Align("depends") = 2 /\ Align("base_lib_desc") = 4
  BY DEF Align
<1> DEFINE second == AlignUp(Size(o[1]), Align(o[2]))
           third  == AlignUp(second + Size(o[2]), Align(o[3]))
<1>4. Address(o) = <<0, second, third>>
  BY DEF Address
<1>5. CASE o[1] = "depends"
  <2>1. second = 4 /\ third = 4 + Size(o[2])
    BY <1>1, <1>2, <1>3, <1>5 DEF AlignUp, Variables
  <2> QED
    BY <1>1, <1>2, <1>4, <1>5, <2>1 DEF Variables
<1>6. CASE o[2] = "depends"
  <2>1. second = Size(o[1]) /\ third = Size(o[1]) + 4
    BY <1>1, <1>2, <1>3, <1>6 DEF AlignUp, Variables
  <2> QED
    BY <1>1, <1>2, <1>4, <1>6, <2>1 DEF Variables
<1>7. CASE o[3] = "depends"
  <2>1. second = Size(o[1]) /\ third = Size(o[1]) + Size(o[2])
    BY <1>1, <1>2, <1>3, <1>7 DEF AlignUp, Variables
  <2> QED
    BY <1>1, <1>2, <1>4, <1>7, <2>1 DEF Variables
<1> QED
  BY <1>1, <1>5, <1>6, <1>7 DEF Variables

\* pita's stores to depends (pita.c:19) hit no other variable of base_lib,
\* whatever order the compiler gives them.
THEOREM DependsIsAlone == Spec => []DependsAlone
<1>1. Init => DependsAlone
  BY DEF Init, DependsAlone
<1>2. DependsAlone /\ [Next]_vars => DependsAlone'
  <2> SUFFICES ASSUME DependsAlone, [Next]_vars PROVE spoiled' = {}
    BY DEF DependsAlone
  <2>1. ASSUME NEW o \in Opener, Open(o) PROVE spoiled' = {}
    BY <2>1, NothingBeside DEF Open, DependsAlone
  <2>2. CASE Loader \/ (\E m \in Module : Insmod(m) \/ Rmmod(m))
    BY <2>2 DEF Loader, InitReturns, Freed, DirFails, CreateDir, CreateFile, FileFails,
       Remove, RemoveReturns, Insmod, Rmmod, DependsAlone
  <2>3. CASE \E o \in Opener : Call(o) \/ Close(o) \/ CallReturns(o)
    BY <2>3 DEF Call, Close, CallReturns, DependsAlone
  <2>4. CASE Walker \/ Kernel \/ UNCHANGED vars
    BY <2>4 DEF Walker, Enter, NextTask, PrintTask, Leave, Walk, Kernel, Fork, Exit, FreeTask,
       modules, vars, DependsAlone
  <2> QED
    BY <2>1, <2>2, <2>3, <2>4 DEF Next, User
<1> QED
  BY <1>1, <1>2, PTL DEF Spec
-----------------------------------------------------------------------------
(* The life cycles *)

\* Who runs in base_lib, and in pita.
BaseRunning == {o \in Opener : file[o] = "test_open"}
               \cup {m \in {"kinfo"} : at[m] = "init"}
               \cup {m \in {"test_clobber"} : walk # "out"}
PitaRunning == {o \in Opener : InModule(o)}
               \cup {d \in {"debugfs"} : entries # {} \/ at["pita"] = "wait"}

\* Every step is one of base_lib's life, or does not concern it.
LEMMA BaseStep ==
  ASSUME Inv, [Next]_vars
  PROVE  BaseLife!Next \/ UNCHANGED BaseLife!vars
<1> USE OpenerAssumption DEF Inv, Module
<1>1. ASSUME NEW m \in Module, Insmod(m)
      PROVE  BaseLife!Load \/ BaseLife!Start("kinfo") \/ UNCHANGED BaseLife!vars
  <2>1. CASE m = "base_lib"
    BY <1>1, <2>1 DEF Insmod, Goto, Stays, walker, TypeOK, Stage, BaseLife!Load, BaseLife!Stage
  <2>2. CASE m = "kinfo"
    BY <1>1, <2>2 DEF Insmod, Goto, Resolves, Stays, walker, TypeOK, Stage, BaseLife!Start
  <2>3. CASE m \in {"pita", "test_clobber"}
    BY <1>1, <2>3 DEF Insmod, Goto, Stays, walker, TypeOK, Stage, BaseLife!vars
  <2> QED
    BY <2>1, <2>2, <2>3
<1>2. ASSUME NEW m \in Module, Rmmod(m)
      PROVE  BaseLife!Unload \/ UNCHANGED BaseLife!vars
  <2>1. CASE m = "base_lib"
    BY <1>2, <2>1 DEF Rmmod, Goto, Stays, walker, TypeOK, Stage, BaseLife!Unload, BaseLife!Stage
  <2>2. CASE m # "base_lib"
    BY <1>2, <2>2 DEF Rmmod, Goto, Stays, walker, TypeOK, Stage, BaseLife!vars
  <2> QED
    BY <2>1, <2>2
<1>3. CASE InitReturns
  <2>1. CASE Goto("base_lib", "init", "live")
    <3>1. BaseLife!Loaded
      BY <1>3, <2>1 DEF InitReturns, Goto, Stays, walker, TypeOK, Stage, BaseLife!Loaded, BaseLife!Stage
    <3> QED
      BY <3>1 DEF BaseLife!Next
  <2>2. CASE Goto("kinfo", "init", "live")
    <3>1. BaseLife!Finish("kinfo")
      BY <1>3, <2>2 DEF InitReturns, Goto, Stays, walker, TypeOK, Stage, BaseLife!Finish
    <3> QED
      BY <3>1 DEF BaseLife!Next
  <2>3. CASE Goto("pita", "created", "live")
    BY <1>3, <2>3 DEF InitReturns, Goto, Stays, walker, TypeOK, Stage, BaseLife!vars
  <2> QED
    BY <1>3, <2>1, <2>2, <2>3 DEF InitReturns
<1>4. CASE Freed
  <2>1. CASE Goto("base_lib", "exit", "absent")
    <3>1. BaseRunning = {}
      BY <2>1 DEF Goto, BaseHeld, FileServed, InModule, WalkGoesOn, BaseRunning
    <3>2. BaseLife!Free
      BY <1>4, <2>1, <3>1 DEF Freed, Goto, Stays, walker, TypeOK, Stage, BaseRunning,
         BaseLife!Free, BaseLife!Stage
    <3> QED
      BY <3>2 DEF BaseLife!Next
  <2>2. CASE ~ Goto("base_lib", "exit", "absent")
    BY <1>4, <2>2 DEF Freed, Goto, Stays, walker, TypeOK, Stage, BaseLife!vars
  <2> QED
    BY <2>1, <2>2
<1>5. CASE DirFails \/ CreateDir \/ CreateFile \/ FileFails \/ RemoveReturns
  BY <1>5 DEF DirFails, CreateDir, CreateFile, FileFails, RemoveReturns, Goto, Stays,
     walker, TypeOK, Stage, BaseLife!vars
<1>6. CASE Remove
  BY <1>6 DEF Remove, Goto, Stays, walker, TypeOK, Stage, BaseLife!vars
<1>7. ASSUME NEW o \in Opener, Open(o)
      PROVE  BaseLife!Start(o)
  <2>1. at["base_lib"] = "live"
    BY <1>7 DEF Open, FileServed, BaseHeld
  <2> QED
    BY <1>7, <2>1 DEF Open, File, Stays, walker, TypeOK, Stage, BaseLife!Start
<1>8. ASSUME NEW o \in Opener, CallReturns(o)
      PROVE  BaseLife!Finish(o) \/ UNCHANGED BaseLife!vars
  BY <1>8 DEF CallReturns, File, Stays, walker, TypeOK, Stage, BaseLife!Finish, BaseLife!vars
<1>9. ASSUME NEW o \in Opener, Call(o) \/ Close(o)
      PROVE  UNCHANGED BaseLife!vars
  BY <1>9 DEF Call, Close, File, Stays, walker, TypeOK, Stage, BaseLife!vars
<1>10. CASE Enter
  <2>1. at["base_lib"] = "live"
    BY <1>10 DEF Enter, BaseHeld
  <2>2. BaseLife!Start("test_clobber")
    BY <1>10, <2>1 DEF Enter, Walk, TypeOK, Stage, BaseLife!Start
  <2> QED
    BY <2>2 DEF BaseLife!Next
<1>11. CASE Leave
  <2>1. BaseLife!Finish("test_clobber")
    BY <1>11 DEF Leave, Walk, Goto, TypeOK, Stage, BaseLife!Finish
  <2> QED
    BY <2>1 DEF BaseLife!Next
<1>12. CASE NextTask \/ PrintTask \/ Kernel \/ UNCHANGED vars
  BY <1>12 DEF NextTask, PrintTask, Walk, Kernel, Fork, Exit, FreeTask, vars, modules,
     walker, Stage, BaseLife!vars
<1> QED
  BY <1>1, <1>2, <1>3, <1>4, <1>5, <1>6, <1>7, <1>8, <1>9, <1>10, <1>11, <1>12
     DEF Next, Loader, User, Walker, BaseLife!Next

\* Every step is one of pita's life, or does not concern it.
LEMMA PitaStep ==
  ASSUME Inv, [Next]_vars
  PROVE  PitaLife!Next \/ UNCHANGED PitaLife!vars
<1> USE OpenerAssumption DEF Inv, Module
<1>1. ASSUME NEW m \in Module, Insmod(m) \/ Rmmod(m)
      PROVE  PitaLife!Load \/ UNCHANGED PitaLife!vars
  BY <1>1 DEF Insmod, Rmmod, Goto, TypeOK, InModule, Stage, PitaLife!Load,
     PitaLife!Stage, PitaLife!vars
<1>2. CASE InitReturns
  <2>1. PitaLife!Loaded \/ UNCHANGED PitaLife!vars
    BY <1>2 DEF InitReturns, Goto, TypeOK, InModule, Stage, PitaLife!Loaded,
       PitaLife!Stage, PitaLife!vars
  <2> QED
    BY <2>1 DEF PitaLife!Next
<1>3. CASE Freed
  <2>1. CASE Goto("pita", "gone", "absent") \/ Goto("pita", "failed", "absent")
    <3>1. PitaRunning = {}
      BY <2>1 DEF Goto, FileServed, PitaRunning
    <3>2. PitaLife!Free \/ PitaLife!Fail
      BY <1>3, <2>1, <3>1 DEF Freed, Goto, TypeOK, InModule, Stage, PitaRunning,
         PitaLife!Free, PitaLife!Fail, PitaLife!Stage
    <3> QED
      BY <3>2 DEF PitaLife!Next
  <2>2. CASE \E m \in Module \ {"pita"} : Goto(m, "exit", "absent")
    BY <1>3, <2>2 DEF Freed, Goto, TypeOK, InModule, Stage, PitaLife!vars
  <2> QED
    BY <1>3, <2>1, <2>2 DEF Freed
<1>4. CASE DirFails
  BY <1>4 DEF DirFails, Goto, TypeOK, InModule, Stage, PitaLife!vars
<1>5. CASE CreateDir \/ CreateFile
  <2>1. PitaLife!Start("debugfs")
    BY <1>5 DEF CreateDir, CreateFile, Goto, TypeOK, InModule, Stage, PitaLife!Start
  <2> QED
    BY <2>1 DEF PitaLife!Next
<1>6. CASE FileFails \/ RemoveReturns
  <2>1. PitaLife!Finish("debugfs")
    BY <1>6 DEF FileFails, RemoveDir, RemoveReturns, Goto, FileServed, TypeOK, InModule,
       Stage, PitaLife!Finish
  <2> QED
    BY <2>1 DEF PitaLife!Next
<1>7. CASE Remove
  <2>1. PitaLife!Unload
    BY <1>7 DEF Remove, Goto, FileServed, TypeOK, InModule, Stage, PitaLife!Unload,
       PitaLife!Stage
  <2> QED
    BY <2>1 DEF PitaLife!Next
<1>8. ASSUME NEW o \in Opener, Open(o) \/ Call(o)
      PROVE  PitaLife!Start(o)
  <2>1. at["pita"] \in {"created", "live", "exit"}
    BY <1>8 DEF Open, Call, File, FileServed
  <2> QED
    BY <1>8, <2>1 DEF Open, Call, File, TypeOK, InModule, Stage, PitaLife!Start
<1>9. ASSUME NEW o \in Opener, CallReturns(o)
      PROVE  PitaLife!Finish(o)
  BY <1>9 DEF CallReturns, File, TypeOK, InModule, Stage, PitaLife!Finish
<1>10. ASSUME NEW o \in Opener, Close(o)
       PROVE  UNCHANGED PitaLife!vars
  BY <1>10 DEF Close, File, TypeOK, InModule, Stage, PitaLife!vars
<1>11. CASE Walker
  BY <1>11 DEF Walker, Enter, NextTask, PrintTask, Leave, Walk, Goto, TypeOK, InModule,
     Stage, PitaLife!vars
<1>12. CASE Kernel \/ UNCHANGED vars
  BY <1>12 DEF Kernel, Fork, Exit, FreeTask, vars, modules, InModule, Stage, PitaLife!vars
<1> QED
  BY <1>1, <1>2, <1>3, <1>4, <1>5, <1>6, <1>7, <1>8, <1>9, <1>10, <1>11, <1>12
     DEF Next, Loader, User, PitaLife!Next

\* Neither base_lib nor pita is freed while its code runs or its file is there,
\* whoever uses it, and a load of pita that fails leaves nothing.
THEOREM KeepsModuleLife == Spec => LifeSpec
<1>1. Init => BaseLife!Init /\ PitaLife!Init
  BY DEF Init, Module, InModule, Stage, BaseLife!Init, PitaLife!Init
<1>2. Inv /\ [Next]_vars => [BaseLife!Next]_(BaseLife!vars)
  BY BaseStep
<1>3. Inv /\ [Next]_vars => [PitaLife!Next]_(PitaLife!vars)
  BY PitaStep
<1> QED
  BY <1>1, <1>2, <1>3, Invariance, PTL DEF Spec, LifeSpec, BaseLife!Spec, PitaLife!Spec
==============================================================================
