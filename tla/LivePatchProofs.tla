--------------------------- MODULE LivePatchProofs ---------------------------
(***************************************************************************)
(* Proofs about LivePatch, for a user who leaves sysfs alone until the     *)
(* patch is enabled: no process is in the new function of a module that is *)
(* gone, a process reads what was asked for last, a patch that cannot be   *)
(* traced is never removed, and a read on its own leaks but frees nothing. *)
(***************************************************************************)
EXTENDS LivePatch, TLAPS

Loaded == loader \in {"enabled", "live"}

\* The core knows the patch while the module is there, and has put it to use
\* only while the module is loaded; then it is what was asked for last.
Registry ==
  /\ registered <=> loader # "absent"
  /\ registered => (immediate <=> ~ reliable)
  /\ ~ Loaded => ~ enabled /\ ~ installed /\ ~ moving /\ refs = 0
  /\ loader = "registered" => wanted
  /\ Loaded => (wanted <=> enabled)

\* An immediate patch moves no task and keeps its references; any other holds
\* one reference just while calls can reach the new function.
References ==
  /\ moving => reliable /\ (target <=> enabled)
  /\ Loaded /\ reliable => (installed <=> enabled \/ moving) /\ refs = IF installed THEN 1 ELSE 0
  /\ Loaded /\ ~ reliable => (installed <=> enabled) /\ refs > 0

\* Whose stack shows the new function is on its side of the transition.
SideOf(r) == InNew(r) => Loaded /\ (reliable => installed /\ (moving => task[r]))
Sides == \A r \in Reader : SideOf(r)

\* Who comes from user mode is on the side it is to be moved to.
FreshMoved == moving => \A r \in fresh : task[r] <=> target

\* As long as reads have not overlapped ptr goes from a buffer, or 0, to an
\* address 41 longs behind it, which is odd, or beyond all buffers.
AloneAt(r) ==
  /\ pc[r] \in {"shadow", "load"} => ptr \in Block \cup {0} /\ end[r] = Address(ptr + 40)
  /\ pc[r] = "store" => end[r] \notin Block
  /\ pc[r] \in {"unshadow", "kfree"} => ptr \notin Block
Alone ==
  ~ overlap =>
    /\ \A q, r \in Reader : InNew(q) /\ InNew(r) => q = r
    /\ \A r \in Reader : AloneAt(r)

CoreInv == Registry /\ References /\ Sides /\ FreshMoved
Inv == EarlyWrite = {} /\ TypeOK /\ CoreInv /\ Alone
-----------------------------------------------------------------------------
LEMMA InitInv == EarlyWrite = {} /\ Init => Inv
<1> SUFFICES ASSUME EarlyWrite = {}, Init PROVE Inv
  OBVIOUS
<1> USE DEF Init
<1>1. TypeOK
  <2>1. 0 \in 0 .. MaxRefs /\ 0 \in 0 .. Beyond
    BY BlockAssumption, RefsAssumption
  <2>2. {reliable, immediate, registered, enabled, installed} \subseteq BOOLEAN
    OBVIOUS
  <2>3. {moving, target, wanted, overlap} \subseteq BOOLEAN
    OBVIOUS
  <2>4. pc \in [Reader -> {"user", "old"} \cup Lines] /\ end \in [Reader -> 0 .. Beyond]
    BY <2>1
  <2>5. task \in [Reader -> BOOLEAN] /\ fresh \in SUBSET Reader
    OBVIOUS
  <2> QED
    BY <2>1, <2>2, <2>3, <2>4, <2>5 DEF TypeOK
<1>2. CoreInv
  BY DEF CoreInv, Registry, References, Sides, SideOf, FreshMoved, Loaded, InNew, Lines
<1>3. Alone
  BY DEF Alone, AloneAt, InNew, Lines
<1> QED
  BY <1>1, <1>2, <1>3 DEF Inv

\* What happens outside the function leaves the readers' memory as it is.
LEMMA AloneKept == ASSUME Alone, UNCHANGED readers PROVE Alone'
BY DEF Alone, AloneAt, readers, memory, InNew

LEMMA LoaderInv == ASSUME Inv, Loader PROVE Inv'
<1> USE DEF Inv, CoreInv
<1>1. UNCHANGED readers
  BY DEF Loader, Register, InitEnable, InitEnableFails, InitReturns, Rmmod, Unregister
<1>2. UNCHANGED <<pc, end, ptr, allocated, shadowed, overlap>>
  BY <1>1 DEF readers, memory
<1>3. Alone'
  BY <1>1, AloneKept
<1>4. CASE Register
  BY <1>2, <1>3, <1>4 DEF Register, TypeOK, Registry, References, Sides, SideOf,
     FreshMoved, Loaded, InNew
<1>5. CASE InitEnable
  <2>1. refs' = 1 /\ 1 \in 0 .. MaxRefs
    BY <1>5, RefsAssumption DEF InitEnable, Enable, Registry, Loaded, TypeOK
  <2>2. TypeOK'
    BY <1>2, <1>5, <2>1 DEF InitEnable, Enable, TypeOK
  <2>3. Registry' /\ References' /\ FreshMoved'
    BY <1>5, <2>1 DEF InitEnable, Enable, TypeOK, Registry, References, FreshMoved, Loaded
  <2>4. Sides'
    BY <1>2, <1>5 DEF InitEnable, Sides, SideOf, Loaded, InNew
  <2> QED
    BY <1>3, <2>2, <2>3, <2>4
<1>6. CASE InitEnableFails \/ InitReturns
  BY <1>2, <1>3, <1>6 DEF InitEnableFails, InitReturns, patch, TypeOK, Registry,
     References, Sides, SideOf, FreshMoved, Loaded, InNew
<1>7. CASE Rmmod \/ Unregister
  BY <1>2, <1>3, <1>7 DEF Rmmod, Unregister, patch, TypeOK, Registry, References, Sides,
     SideOf, FreshMoved, Loaded, InNew
<1> QED
  BY <1>4, <1>5, <1>6, <1>7 DEF Loader

LEMMA StoreInv == ASSUME Inv, NEW v \in BOOLEAN, Store(v) PROVE Inv'
<1> USE DEF Inv, CoreInv
<1>1. UNCHANGED readers
  BY DEF Store
<1>2. UNCHANGED <<pc, end, ptr, allocated, shadowed, overlap>>
  BY <1>1 DEF readers, memory
<1>3. Alone'
  BY <1>1, AloneKept
<1>4. Loaded /\ UNCHANGED <<loader, reliable, immediate, registered>>
  BY DEF Store, Enable, Disable, Reverse, Registry, Loaded
<1>5. wanted' = v /\ enabled' = v /\ fresh' = {} /\ enabled # v
  BY DEF Store, Enable, Disable, Reverse
<1>6. CASE moving /\ Reverse(v)
  BY <1>2, <1>3, <1>4, <1>5, <1>6 DEF Reverse, TypeOK, Registry, References, Sides,
     SideOf, FreshMoved, Loaded, InNew
<1>7. CASE ~ moving /\ v /\ refs < MaxRefs /\ Enable
  <2>1. refs' = refs + 1 /\ refs' \in 0 .. MaxRefs
    BY <1>7, RefsAssumption DEF Enable, TypeOK
  <2>2. ~ enabled /\ enabled' /\ installed' /\ wanted'
    BY <1>5, <1>7 DEF Enable, TypeOK
  <2>3. IF reliable THEN ~ installed /\ moving' /\ target' /\ task' = [r \in Reader |-> FALSE]
                    ELSE UNCHANGED <<moving, target, task>>
    BY <1>4, <1>7, <2>2 DEF Enable, Registry, References, Loaded
  <2>4. TypeOK'
    BY <1>2, <1>4, <1>5, <1>7, <2>1, <2>3 DEF Enable, TypeOK
  <2>5. Registry' /\ References' /\ FreshMoved'
    BY <1>4, <1>5, <1>7, <2>1, <2>2, <2>3 DEF TypeOK, Registry, References, FreshMoved, Loaded
  <2>6. Sides'
    BY <1>2, <1>4, <2>2, <2>3 DEF Sides, SideOf, Loaded, InNew
  <2> QED
    BY <1>3, <2>4, <2>5, <2>6
<1>8. CASE ~ moving /\ ~ v /\ Disable
  <2>1. enabled /\ ~ enabled' /\ ~ wanted' /\ refs' = refs /\ installed
    BY <1>4, <1>5, <1>8 DEF Disable, TypeOK, References, Loaded
  <2>2. IF reliable THEN installed' /\ moving' /\ ~ target' /\ task' = [r \in Reader |-> TRUE]
                    ELSE ~ installed' /\ UNCHANGED <<moving, target, task>>
    BY <1>4, <1>8, <2>1 DEF Disable, Registry, Loaded
  <2>3. TypeOK'
    BY <1>2, <1>4, <1>5, <1>8, <2>1, <2>2 DEF Disable, TypeOK
  <2>4. Registry' /\ References' /\ FreshMoved'
    BY <1>4, <1>5, <1>8, <2>1, <2>2 DEF TypeOK, Registry, References, FreshMoved, Loaded
  <2>5. Sides'
    BY <1>2, <1>4, <2>1, <2>2 DEF Sides, SideOf, Loaded, InNew
  <2> QED
    BY <1>3, <2>3, <2>4, <2>5
<1> QED
  BY <1>6, <1>7, <1>8 DEF Store

LEMMA CompleteInv == ASSUME Inv, Complete PROVE Inv'
<1> USE DEF Inv, CoreInv
<1>1. UNCHANGED <<pc, end, ptr, allocated, shadowed, overlap>>
  BY DEF Complete, readers, memory
<1>2. Alone'
  BY AloneKept DEF Complete
<1>3. CASE target
  BY <1>1, <1>2, <1>3 DEF Complete, TypeOK, Registry, References, Sides, SideOf,
     FreshMoved, Loaded, InNew
<1>4. CASE ~ target
  <2>1. installed /\ reliable /\ Loaded /\ refs = 1 /\ ~ immediate
    BY <1>4 DEF Complete, Registry, References, Loaded
  <2>2. \A r \in Reader : ~ InNew(r)
    BY <1>4, <2>1 DEF Complete, Sides, SideOf
  <2>3. refs' = 0 /\ 0 \in 0 .. MaxRefs
    BY <1>4, <2>1, RefsAssumption DEF Complete
  <2> QED
    BY <1>1, <1>2, <1>4, <2>1, <2>2, <2>3 DEF Complete, TypeOK, Registry, References,
       Sides, SideOf, FreshMoved, Loaded, InNew
<1> QED
  BY <1>3, <1>4

LEMMA SwitchInv == ASSUME Inv, NEW r \in Reader, Switch(r) PROVE Inv'
<1> USE DEF Inv, CoreInv
<1>1. UNCHANGED <<pc, end, ptr, allocated, shadowed, overlap>> /\ UNCHANGED core
  BY DEF Switch, readers, memory
<1>2. Alone'
  BY AloneKept DEF Switch
<1>3. TypeOK' /\ Registry' /\ References' /\ FreshMoved'
  BY <1>1 DEF Switch, core, TypeOK, Registry, References, FreshMoved, Loaded
<1>4. Sides'
  BY <1>1 DEF Switch, core, TypeOK, Sides, SideOf, Loaded, InNew
<1> QED
  BY <1>1, <1>2, <1>3, <1>4

LEMMA ReadInv == ASSUME Inv, NEW r \in Reader, Read(r) PROVE Inv'
<1> USE DEF Inv, CoreInv
<1>1. UNCHANGED <<core, task, fresh, end, ptr, allocated, shadowed>>
  BY DEF Read, memory
<1>2. TypeOK'
  BY <1>1 DEF Read, Goto, ReachesNew, core, TypeOK, Lines
<1>3. Registry' /\ References' /\ FreshMoved'
  BY <1>1 DEF core, Registry, References, FreshMoved, Loaded
<1>4. Sides'
  <2>1. installed => Loaded
    BY DEF Registry
  <2> QED
    BY <1>1, <2>1 DEF Read, Goto, ReachesNew, core, TypeOK, Sides, SideOf, Loaded, InNew, Lines
<1>5. Alone'
  BY <1>1 DEF Read, Goto, ReachesNew, TypeOK, Alone, AloneAt, InNew, Lines
<1> QED
  BY <1>1, <1>2, <1>3, <1>4, <1>5

\* The loop of livepatch_cmdline_proc_show (lpm.c:59) leaves a buffer, or 0,
\* for an address that is no buffer.
LEMMA LoopLeaves ==
  ASSUME NEW p \in Block \cup {0}, NEW e, e = Address(p + 40)
  PROVE  Address(IF p < e THEN e + 1 ELSE p + 1) \notin Block
<1>1. p \in Nat /\ p <= Beyond /\ p % 2 = 0
  BY BlockAssumption
<1>2. p + 41 \notin Block /\ Beyond \notin Block
  BY <1>1, BlockAssumption
<1>3. CASE p + 40 < Beyond
  <2>1. e = p + 40 /\ p < e /\ e + 1 = p + 41
    BY <1>1, <1>3 DEF Address
  <2> QED
    BY <1>2, <2>1 DEF Address
<1>4. CASE ~ (p + 40 < Beyond)
  <2>1. e = Beyond
    BY <1>4 DEF Address
  <2>2. ~ ((IF p < e THEN e + 1 ELSE p + 1) < Beyond)
    BY <1>1, <2>1, BlockAssumption
  <2> QED
    BY <1>2, <2>2 DEF Address
<1> QED
  BY <1>3, <1>4

\* A line of the new function: only the last one leaves it, or the core's books.
LEMMA FunctionInv == ASSUME Inv, NEW r \in Reader, InFunction(r) PROVE Inv'
<1> USE DEF Inv, CoreInv
<1> DEFINE Line == Kmalloc(r) \/ ShadowAlloc(r) \/ LoopLoad(r) \/ LoopStore(r) \/ ShadowFree(r)
<1>1. \A a \in Nat : Address(a) \in 0 .. Beyond
  BY BlockAssumption DEF Address
<1>2. UNCHANGED <<core, overlap>>
  BY DEF InFunction, OldReturns, Kmalloc, ShadowAlloc, LoopLoad, LoopStore, ShadowFree,
     Kfree, Step, At
<1>3. Registry' /\ References'
  BY <1>2 DEF core, Registry, References, Loaded
<1>4. ASSUME Line
      PROVE  /\ InNew(r) /\ InNew(r)' /\ UNCHANGED <<task, fresh>>
             /\ \A q \in Reader \ {r} : pc'[q] = pc[q]
             /\ pc' \in [Reader -> {"user", "old"} \cup Lines]
  BY <1>4 DEF Kmalloc, ShadowAlloc, LoopLoad, LoopStore, ShadowFree, Step, At, Goto,
     InNew, Lines, TypeOK
<1>5. ASSUME OldReturns(r) \/ Kfree(r)
      PROVE  /\ pc' = [pc EXCEPT ![r] = "user"] /\ fresh' = fresh \cup {r}
             /\ task' = IF moving THEN [task EXCEPT ![r] = target] ELSE task
             /\ UNCHANGED <<end, ptr, shadowed>>
  BY <1>5 DEF OldReturns, Kfree, Return, Goto, memory
<1>6. CASE Line
  <2> HIDE DEF Line
  <2>1. Sides' /\ FreshMoved'
    <3>1. \A q \in Reader : InNew(q)' <=> InNew(q)
      BY <1>4, <1>6 DEF InNew
    <3> QED
      BY <1>2, <1>4, <1>6, <3>1 DEF core, Sides, SideOf, FreshMoved, Loaded
  <2>2. end' \in [Reader -> 0 .. Beyond] /\ ptr' \in 0 .. Beyond
    <3>1. CASE Kmalloc(r)
      <4>1. PICK b \in (Block \ allocated) \cup {0} :
              ptr' = b /\ end' = [end EXCEPT ![r] = Address(b + 40)]
        BY <3>1 DEF Kmalloc
      <4>2. b \in 0 .. Beyond /\ b + 40 \in Nat
        BY BlockAssumption
      <4> QED
        BY <1>1, <4>1, <4>2 DEF TypeOK
    <3>2. CASE LoopLoad(r)
      <4>1. (IF ptr < end[r] THEN end[r] + 1 ELSE ptr + 1) \in Nat
        BY BlockAssumption DEF TypeOK
      <4> QED
        BY <1>1, <3>2, <4>1 DEF LoopLoad, memory, TypeOK
    <3>3. CASE ShadowAlloc(r) \/ LoopStore(r) \/ ShadowFree(r)
      BY <3>3, BlockAssumption DEF ShadowAlloc, LoopStore, ShadowFree, TypeOK
    <3> QED
      BY <1>6, <3>1, <3>2, <3>3 DEF Line
  <2>3. allocated' \in SUBSET Block /\ shadowed' \in SUBSET Block
    BY <1>6 DEF Line, Kmalloc, ShadowAlloc, LoopLoad, LoopStore, ShadowFree, memory, TypeOK
  <2>4. TypeOK'
    BY <1>2, <1>4, <1>6, <2>2, <2>3 DEF core, TypeOK
  <2>5. Alone'
    <3> SUFFICES ASSUME ~ overlap PROVE Alone'
      BY <1>2 DEF Alone
    <3>1. \A q \in Reader \ {r} : ~ InNew(q) /\ ~ InNew(q)'
      BY <1>4, <1>6 DEF Alone, InNew
    <3>2. \A q \in Reader \ {r} : AloneAt(q)'
      BY <3>1 DEF AloneAt, InNew, Lines
    <3>3. AloneAt(r)
      BY DEF Alone
    <3>4. AloneAt(r)'
      <4>1. CASE Kmalloc(r)
        BY <4>1 DEF Kmalloc, Step, At, Goto, AloneAt, Address, TypeOK
      <4>2. CASE ShadowAlloc(r) \/ LoopStore(r) \/ ShadowFree(r)
        BY <3>3, <4>2 DEF ShadowAlloc, LoopStore, ShadowFree, Step, At, Goto, AloneAt,
           Address, TypeOK
      <4>3. CASE LoopLoad(r)
        <5>1. pc'[r] = "store" /\ end'[r] = Address(IF ptr < end[r] THEN end[r] + 1 ELSE ptr + 1)
          BY <4>3 DEF LoopLoad, Step, At, Goto, TypeOK
        <5>2. ptr \in Block \cup {0} /\ end[r] = Address(ptr + 40)
          BY <3>3, <4>3 DEF AloneAt, LoopLoad, Step, At
        <5>3. end'[r] \notin Block
          BY <5>1, <5>2, LoopLeaves
        <5> QED
          BY <5>1, <5>3 DEF AloneAt
      <4> QED
        BY <1>6, <4>1, <4>2, <4>3 DEF Line
    <3> QED
      BY <1>4, <1>6, <3>1, <3>2, <3>4 DEF Alone
  <2> QED
    BY <1>3, <2>1, <2>4, <2>5
<1>7. CASE OldReturns(r) \/ Kfree(r)
  <2>1. TypeOK'
    <3>1. allocated' \in SUBSET Block
      BY <1>7 DEF OldReturns, Kfree, memory, TypeOK
    <3> QED
      BY <1>2, <1>5, <1>7, <3>1 DEF core, TypeOK
  <2>2. Sides' /\ FreshMoved'
    BY <1>2, <1>5, <1>7 DEF core, Sides, SideOf, FreshMoved, Loaded, InNew, Lines, TypeOK
  <2>3. Alone'
    BY <1>2, <1>5, <1>7 DEF Alone, AloneAt, InNew, Lines, TypeOK
  <2> QED
    BY <1>3, <2>1, <2>2, <2>3
<1> QED
  BY <1>6, <1>7 DEF InFunction

LEMMA NextInv == Inv /\ [Next]_vars => Inv'
<1>1. Inv /\ UNCHANGED vars => Inv'
  <2> SUFFICES ASSUME Inv, UNCHANGED vars PROVE Inv'
    OBVIOUS
  <2>1. Alone'
    BY AloneKept DEF Inv, vars
  <2>2. TypeOK' /\ Registry' /\ References' /\ Sides' /\ FreshMoved'
    BY DEF Inv, CoreInv, vars, core, readers, memory, TypeOK, Registry, References, Sides,
       SideOf, FreshMoved, Loaded, InNew
  <2> QED
    BY <2>1, <2>2 DEF Inv, CoreInv
<1> QED
  BY <1>1, LoaderInv, StoreInv, CompleteInv, SwitchInv, ReadInv, FunctionInv DEF Next, Core

LEMMA Invariance == EarlyWrite = {} /\ Spec => []Inv
<1>1. EarlyWrite = {} /\ Init => Inv
  BY InitInv
<1> QED
  BY <1>1, NextInv, PTL DEF Spec
-----------------------------------------------------------------------------
\* The state is well typed: the references of the core stay within the bound,
\* and ptr among the addresses the model tells apart.
THEOREM TypeCorrect == EarlyWrite = {} /\ Spec => []TypeOK
<1>1. Inv => TypeOK
  BY DEF Inv
<1> QED
  BY <1>1, Invariance, PTL

\* livepatch_exit (lpm.c:119) and the error path of livepatch_init leave a
\* core that knows nothing of the patch.
THEOREM RemovalIsClean == EarlyWrite = {} /\ Spec => []RemovalClean
<1>1. Inv => RemovalClean
  BY DEF Inv, CoreInv, Registry, Loaded, RemovalClean
<1> QED
  BY <1>1, Invariance, PTL

\* Unless sysfs is written before the patch is enabled, the assertion of
\* lpm.c:113 on the error path holds.
THEOREM AssertionHolds == EarlyWrite = {} /\ Spec => []UnregisterSucceeds
<1>1. Inv => UnregisterSucceeds
  BY DEF Inv, CoreInv, Registry, Loaded, UnregisterSucceeds
<1> QED
  BY <1>1, Invariance, PTL

\* Where stacks are unreliable the patch is immediate (lpm.c:104), its
\* references are never given back, and rmmod is refused for ever.
THEOREM ImmediateIsKept == EarlyWrite = {} /\ Spec => ImmediateStays
<1>1. Inv /\ [Next]_vars => [~ reliable /\ loader = "live" => loader' = "live"]_vars
  <2> SUFFICES ASSUME Inv, Next, ~ reliable, loader = "live" PROVE loader' = "live"
    OBVIOUS
  <2>1. refs > 0
    BY DEF Inv, CoreInv, References, Loaded
  <2>2. ~ Loader
    BY <2>1 DEF Loader, Register, InitEnable, InitEnableFails, InitReturns, Rmmod, Unregister
  <2> QED
    BY <2>2 DEF Next, Core, Complete, Switch, Store, Read, InFunction, OldReturns, Kmalloc,
       ShadowAlloc, LoopLoad, LoopStore, ShadowFree, Kfree, Step, At, core
<1> QED
  BY <1>1, Invariance, PTL DEF Spec, ImmediateStays

\* The example at the head of lpm.c: who comes from user mode is on the side
\* of the transition that was asked for last, or there is none.
THEOREM ExampleIsShown == EarlyWrite = {} /\ Spec => ShowsExample
<1>1. Inv /\ [Next]_vars =>
        [\A r \in fresh :
           loader = "live" /\ Read(r) => (pc'[r] = "kmalloc" <=> wanted)]_vars
  <2> SUFFICES ASSUME Inv, NEW r \in fresh, loader = "live", Read(r)
               PROVE  pc'[r] = "kmalloc" <=> wanted
    OBVIOUS
  <2>1. r \in Reader /\ (pc'[r] = "kmalloc" <=> ReachesNew(r))
    BY DEF Inv, TypeOK, Read, Goto
  <2>2. moving => reliable /\ (task[r] <=> enabled)
    BY DEF Inv, CoreInv, References, FreshMoved
  <2>3. ReachesNew(r) <=> enabled
    BY <2>2 DEF Inv, CoreInv, References, Loaded, ReachesNew
  <2> QED
    BY <2>1, <2>3 DEF Inv, CoreInv, Registry, Loaded
<1> QED
  BY <1>1, Invariance, PTL DEF Spec, ShowsExample

\* klp_shadow_free and kfree (lpm.c:64-65) get an address that the loop has
\* moved behind the buffer: unless two reads overlap they free nothing.
THEOREM LoneReadFreesNothing == EarlyWrite = {} /\ Spec => LoneReadLeaks
<1>1. Inv /\ [Next]_vars =>
        [~ overlap' => allocated \subseteq allocated' /\ shadowed \subseteq shadowed']_vars
  <2> SUFFICES ASSUME Inv, Next, ~ overlap'
               PROVE  allocated \subseteq allocated' /\ shadowed \subseteq shadowed'
    OBVIOUS
  <2>1. CASE Loader \/ Core \/ \E v \in BOOLEAN : Store(v)
    BY <2>1 DEF Loader, Register, InitEnable, InitEnableFails, InitReturns, Rmmod,
       Unregister, Core, Complete, Switch, Store, readers, memory
  <2>2. ASSUME NEW r \in Reader,
               \/ Read(r) \/ OldReturns(r) \/ Kmalloc(r) \/ ShadowAlloc(r)
               \/ LoopLoad(r) \/ LoopStore(r)
        PROVE  allocated \subseteq allocated' /\ shadowed \subseteq shadowed'
    BY <2>2 DEF Read, OldReturns, Kmalloc, ShadowAlloc, LoopLoad, LoopStore, memory
  <2>3. ASSUME NEW r \in Reader, ShadowFree(r) \/ Kfree(r)
        PROVE  allocated \subseteq allocated' /\ shadowed \subseteq shadowed'
    <3>1. ~ overlap /\ pc[r] \in {"unshadow", "kfree"}
      BY <2>3 DEF ShadowFree, Kfree, Step, At
    <3>2. ptr \notin Block
      BY <3>1 DEF Inv, Alone, AloneAt
    <3> QED
      BY <2>3, <3>2 DEF Inv, TypeOK, ShadowFree, Kfree
  <2> QED
    BY <2>1, <2>2, <2>3 DEF Next, InFunction
<1> QED
  BY <1>1, Invariance, PTL DEF Spec, LoneReadLeaks

\* rmmod frees the new function (.new_func, lpm.c:74) only when no process is
\* in it, and none enters it once rmmod has begun.
THEOREM KeepsModuleLife == EarlyWrite = {} /\ Spec => LifeSpec
<1>1. Init => Life!Init
  BY DEF Init, InNew, Lines, Stage, Life!Init
<1>2. Inv /\ [Next]_vars => [Life!Next]_(Life!vars)
  <2> SUFFICES ASSUME Inv, [Next]_vars PROVE Life!Next \/ UNCHANGED Life!vars
    OBVIOUS
  <2>1. CASE Loader
    <3>1. UNCHANGED pc
      BY <2>1 DEF Loader, Register, InitEnable, InitEnableFails, InitReturns, Rmmod,
         Unregister, readers
    <3>2. ~ Loaded => \A r \in Reader : ~ InNew(r)
      BY DEF Inv, CoreInv, Sides, SideOf
    <3>3. \/ Life!Load \/ Life!Loaded \/ Life!Unload \/ Life!Free
          \/ UNCHANGED Life!vars
      BY <2>1, <3>1, <3>2 DEF Loader, Register, InitEnable, InitEnableFails, InitReturns,
         Rmmod, Unregister, InNew, Loaded, Stage, Life!Load, Life!Loaded, Life!Unload,
         Life!Free, Life!Stage, Life!vars
    <3> QED
      BY <3>3 DEF Life!Next
  <2>2. CASE Core \/ (\E v \in BOOLEAN : Store(v)) \/ UNCHANGED vars
    BY <2>2 DEF Core, Complete, Switch, Store, core, readers, vars, InNew, Stage, Life!vars
  <2>3. ASSUME NEW r \in Reader, Read(r)
        PROVE  Life!Start(r) \/ UNCHANGED Life!vars
    <3>1. installed => Stage \in {"loading", "live"}
      BY DEF Inv, CoreInv, Registry, Loaded, Stage
    <3>2. UNCHANGED loader
      BY <2>3 DEF Read, core
    <3>3. CASE ReachesNew(r)
      BY <2>3, <3>1, <3>2, <3>3 DEF Inv, TypeOK, Read, Goto, ReachesNew, InNew, Lines,
         Stage, Life!Start
    <3>4. CASE ~ ReachesNew(r)
      BY <2>3, <3>2, <3>4 DEF Inv, TypeOK, Read, Goto, InNew, Lines, Stage, Life!vars
    <3> QED
      BY <3>3, <3>4
  <2>4. ASSUME NEW r \in Reader, Kfree(r)
        PROVE  Life!Finish(r)
    BY <2>4 DEF Inv, TypeOK, Kfree, Return, At, Goto, core, InNew, Lines, Stage, Life!Finish
  <2>5. ASSUME NEW r \in Reader, InFunction(r), ~ Kfree(r)
        PROVE  UNCHANGED Life!vars
    BY <2>5 DEF Inv, TypeOK, InFunction, OldReturns, Kmalloc, ShadowAlloc, LoopLoad,
       LoopStore, ShadowFree, Return, Step, At, Goto, core, InNew, Lines, Stage, Life!vars
  <2> QED
    BY <2>1, <2>2, <2>3, <2>4, <2>5 DEF Next, Life!Next
<1> QED
  BY <1>1, <1>2, Invariance, PTL DEF Spec, LifeSpec, Life!Spec
==============================================================================
