------------------------------ MODULE LivePatch ------------------------------
(***************************************************************************)
(* kmods/livepatch/lpm.c: a live patch of the function behind              *)
(* /proc/cmdline.  The module registers and enables its patch; the user    *)
(* disables and enables it through sysfs and removes the module; processes *)
(* read /proc/cmdline meanwhile.  The patching core (per-task transition,  *)
(* module reference) and kmalloc are the kernel's; what a kfree of an      *)
(* address that is no buffer does to the allocator is not modelled.        *)
(***************************************************************************)
EXTENDS Naturals

CONSTANTS
  Reader,      \* the processes that read /proc/cmdline
  Block,       \* the buffers of kmalloc(16), by their address in longs
  Beyond,      \* bound: stands for all addresses behind the buffers
  MaxRefs,     \* bound: the patch is not enabled while it has more references
  EarlyWrite   \* where in livepatch_init, outside the time it is enabled, sysfs may be
               \* written: "registered", "failed"

\* kmalloc(16) returns multiples of 16 bytes.
ASSUME BlockAssumption ==
  /\ Beyond \in Nat /\ Block \subseteq 1 .. Beyond - 1
  /\ \A b \in Block : b % 2 = 0
ASSUME RefsAssumption == MaxRefs \in Nat \ {0}
ASSUME EarlyAssumption == EarlyWrite \subseteq {"registered", "failed"}

VARIABLES
  loader,      \* where livepatch_init / livepatch_exit stands
  reliable,    \* klp_have_reliable_stack()
  immediate,   \* patch.immediate
  registered, enabled,   \* the patch in the core's list; patch->enabled
  installed,   \* calls of cmdline_proc_show reach the core's handler
  moving,      \* a transition of the tasks is on
  target, task,          \* then: to the new function? task[r]: is r there?
  refs,        \* the references the core holds on the module
  pc,          \* pc[r]: not in the function, in the old one, or a line of the new
  end,         \* end[r]: eptr, then the value the loop is about to store
  ptr,         \* the global the readers share
  allocated,   \* the buffers in use
  shadowed,    \* the buffers with a shadow variable
  wanted,      \* history: what insmod or the last write to sysfs asked for
  fresh,       \* history: the readers that were in user mode since
  overlap      \* history: two readers have been in the new function at once

patch == <<registered, enabled, installed, moving, target, task, refs>>
core  == <<loader, reliable, immediate, registered, enabled, installed, moving,
           target, refs, wanted>>
memory == <<ptr, allocated, shadowed>>
readers == <<pc, end, memory, overlap>>
vars  == <<core, task, readers, fresh>>

Lines == {"kmalloc", "shadow", "load", "store", "unshadow", "kfree"}

Init ==
  /\ loader = "absent" /\ reliable \in BOOLEAN /\ immediate = FALSE
  /\ registered = FALSE /\ enabled = FALSE /\ installed = FALSE
  /\ moving = FALSE /\ target = FALSE /\ task = [r \in Reader |-> FALSE]
  /\ refs = 0
  /\ pc = [r \in Reader |-> "user"] /\ end = [r \in Reader |-> 0]
  /\ ptr = 0 /\ allocated = {} /\ shadowed = {}
  /\ wanted = FALSE /\ fresh = Reader /\ overlap = FALSE
-----------------------------------------------------------------------------
(* The patching core *)

InNew(r) == pc[r] \in Lines

\* __klp_enable_patch and __klp_disable_patch: unless the patch is immediate
\* every task starts on the side it has been on and is moved on its own.
Enable ==
  /\ enabled' = TRUE /\ installed' = TRUE /\ refs' = refs + 1
  /\ IF immediate THEN UNCHANGED <<moving, target, task>>
     ELSE moving' = TRUE /\ target' = TRUE /\ task' = [r \in Reader |-> FALSE]
  /\ UNCHANGED registered

Disable ==
  /\ enabled' = FALSE
  /\ IF immediate THEN installed' = FALSE /\ UNCHANGED <<moving, target, task>>
     ELSE /\ moving' = TRUE /\ target' = FALSE /\ UNCHANGED installed
          /\ task' = [r \in Reader |-> TRUE]
  /\ UNCHANGED <<registered, refs>>

Reverse(v) == enabled' = v /\ target' = v
              /\ UNCHANGED <<registered, installed, moving, task, refs>>

\* A write to /sys/kernel/livepatch/lpm/enabled.
Store(v) ==
  /\ registered /\ enabled # v
  /\ loader \in {"enabled", "live"} \cup EarlyWrite
  /\ \/ moving /\ Reverse(v)
     \/ ~ moving /\ v /\ refs < MaxRefs /\ Enable
     \/ ~ moving /\ ~ v /\ Disable
  /\ wanted' = v /\ fresh' = {}
  /\ UNCHANGED <<loader, reliable, immediate, readers>>

\* A task whose stack does not show the function it is to leave is moved.
Switch(r) ==
  /\ moving /\ reliable /\ task[r] # target
  /\ IF target THEN pc[r] # "old" ELSE ~ InNew(r)
  /\ task' = [task EXCEPT ![r] = target]
  /\ UNCHANGED <<core, readers, fresh>>

\* The last task has been moved: a disabled patch gives the module up, unless
\* it is immediate, for then nobody knows who is still in the new function.
Complete ==
  /\ moving /\ \A r \in Reader : task[r] = target
  /\ moving' = FALSE /\ target' = FALSE /\ task' = [r \in Reader |-> FALSE]
  /\ IF target THEN UNCHANGED <<installed, refs>>
     ELSE /\ installed' = FALSE
          /\ refs' = IF immediate THEN refs ELSE refs - 1
  /\ UNCHANGED <<loader, reliable, immediate, registered, enabled, wanted, readers,
                 fresh>>
-----------------------------------------------------------------------------
(* livepatch_init and livepatch_exit *)

\* klp_register_patch refuses a patch that is not immediate where stacks are
\* unreliable; a registration that fails for another reason leaves no trace.
Register ==
  /\ loader = "absent" /\ ~ registered
  /\ immediate' = ~ reliable
  /\ reliable \/ immediate'
  /\ loader' = "registered" /\ registered' = TRUE
  /\ wanted' = TRUE
  /\ UNCHANGED <<reliable, enabled, installed, moving, target, task, refs,
                 readers, fresh>>

\* Mutant: immediate is only set for the registration.
InitEnableResets ==
  /\ loader = "registered" /\ ~ moving /\ ~ enabled
  /\ Enable /\ loader' = "enabled" /\ immediate' = FALSE /\ fresh' = {}
  /\ UNCHANGED <<reliable, wanted, readers>>

\* Mutant: the patch is registered, but not enabled.
InitRegisters ==
  /\ loader = "registered" /\ loader' = "enabled" /\ fresh' = {}
  /\ UNCHANGED <<reliable, immediate, patch, wanted, readers>>

InitEnable ==
  /\ loader = "registered" /\ ~ moving /\ ~ enabled
  /\ Enable /\ loader' = "enabled" /\ fresh' = {}
  /\ UNCHANGED <<reliable, immediate, wanted, readers>>

\* Mutant: a patch that cannot be enabled stays registered.
InitKeepsPatch ==
  /\ loader = "registered" /\ loader' = "absent"
  /\ UNCHANGED <<reliable, immediate, patch, wanted, readers, fresh>>

\* klp_enable_patch fails: a transition of this patch is on or it is enabled
\* already, another patch's is on, or the function could not be hooked.
InitEnableFails ==
  /\ loader = "registered" /\ loader' = "failed"
  /\ UNCHANGED <<reliable, immediate, patch, wanted, readers, fresh>>

InitReturns ==
  /\ loader = "enabled" /\ loader' = "live"
  /\ UNCHANGED <<reliable, immediate, patch, wanted, readers, fresh>>

\* Mutant: the module is not named as the owner of the patch (.mod).
RmmodUnowned ==
  /\ loader = "live" /\ loader' = "exit"
  /\ UNCHANGED <<reliable, immediate, patch, wanted, readers, fresh>>

\* delete_module succeeds only without references on the module.
Rmmod ==
  /\ loader = "live" /\ refs = 0 /\ loader' = "exit"
  /\ UNCHANGED <<reliable, immediate, patch, wanted, readers, fresh>>

\* klp_unregister_patch in init's error path and in exit: an enabled patch
\* stays registered (-EBUSY), but the module goes all the same.
Unregister ==
  /\ loader \in {"failed", "exit"} /\ loader' = "absent"
  /\ registered' = enabled /\ refs' = 0
  /\ UNCHANGED <<reliable, immediate, enabled, installed, moving, target, task,
                 wanted, readers, fresh>>
-----------------------------------------------------------------------------
(* The readers *)

Goto(r, line) == pc' = [pc EXCEPT ![r] = line]
At(r, line)   == pc[r] = line /\ UNCHANGED <<core, overlap>>
Step(r, from, to) == At(r, from) /\ Goto(r, to) /\ UNCHANGED <<task, fresh>>

\* read(2) calls the function its task is on.
ReachesNew(r) == installed /\ (moving => task[r])
Read(r) ==
  /\ pc[r] = "user"
  /\ Goto(r, IF ReachesNew(r) THEN "kmalloc" ELSE "old")
  /\ overlap' = (overlap \/ (ReachesNew(r) /\ \E q \in Reader : InNew(q)))
  /\ UNCHANGED <<core, task, fresh, end, memory>>

\* Back to user mode, where a pending move of the task is made.
Return(r) ==
  /\ Goto(r, "user") /\ fresh' = fresh \cup {r}
  /\ task' = IF moving THEN [task EXCEPT ![r] = target] ELSE task

OldReturns(r) == At(r, "old") /\ Return(r) /\ UNCHANGED <<end, memory>>

Address(a) == IF a < Beyond THEN a ELSE Beyond

\* kmalloc may fail, with 0; no line of the function looks.  eptr is made of the
\* value kmalloc returned: nothing between the store to ptr (line 52) and its use
\* for eptr (line 53) makes the compiler read ptr again.
Kmalloc(r) ==
  /\ Step(r, "kmalloc", "shadow")
  /\ \E b \in (Block \ allocated) \cup {0} :
       /\ ptr' = b /\ end' = [end EXCEPT ![r] = Address(b + 40)]
       /\ allocated' = allocated \cup ({b} \ {0})
  /\ UNCHANGED shadowed

\* klp_shadow_alloc gives an address one shadow of an id only,
\* and may fail; the shadows of buffers are kept track of.
ShadowAlloc(r) ==
  /\ Step(r, "shadow", "load")
  /\ shadowed' \in {shadowed, shadowed \cup ({ptr} \cap Block)}
  /\ UNCHANGED <<end, ptr, allocated>>

\* while ((tmp = ptr++) < eptr): nothing in the loop is visible but the last
\* value of ptr, which the compiler stores when the loop is over.
LoopLoad(r) ==
  /\ Step(r, "load", "store")
  /\ end' = [end EXCEPT ![r] = Address(IF ptr < @ THEN @ + 1 ELSE ptr + 1)]
  /\ UNCHANGED memory

\* Mutant: while (++ptr < eptr).
LoopStoreLess(r) ==
  /\ Step(r, "store", "unshadow")
  /\ ptr' = end[r] - 1 /\ end' = [end EXCEPT ![r] = 0]
  /\ UNCHANGED <<allocated, shadowed>>

\* Mutant: the loop does not advance.
LoopStays(r) == Step(r, "store", "load") /\ UNCHANGED <<end, memory>>

LoopStore(r) ==
  /\ Step(r, "store", "unshadow")
  /\ ptr' = end[r] /\ end' = [end EXCEPT ![r] = 0]
  /\ UNCHANGED <<allocated, shadowed>>

ShadowFree(r) ==
  /\ Step(r, "unshadow", "kfree")
  /\ shadowed' = shadowed \ {ptr} /\ UNCHANGED <<end, ptr, allocated>>

Kfree(r) ==
  /\ At(r, "kfree") /\ Return(r)
  /\ allocated' = allocated \ {ptr}
  /\ UNCHANGED <<end, ptr, shadowed>>

InFunction(r) ==
  \/ OldReturns(r) \/ Kmalloc(r) \/ ShadowAlloc(r) \/ LoopLoad(r)
  \/ LoopStore(r) \/ ShadowFree(r) \/ Kfree(r)
-----------------------------------------------------------------------------
Loader == \/ Register \/ InitEnable \/ InitEnableFails \/ InitReturns
          \/ Rmmod \/ Unregister
Core   == Complete \/ \E r \in Reader : Switch(r)
Next   == \/ Loader \/ Core \/ \E v \in BOOLEAN : Store(v)
          \/ \E r \in Reader : Read(r) \/ InFunction(r)

\* The core retries every second; a function that was called goes on.
Spec == /\ Init /\ [][Next]_vars
        /\ WF_vars(Complete)
        /\ \A r \in Reader : WF_vars(Switch(r)) /\ WF_vars(InFunction(r))
-----------------------------------------------------------------------------
TypeOK ==
  /\ loader \in {"absent", "registered", "enabled", "failed", "live", "exit"}
  /\ {reliable, immediate, registered, enabled, installed} \subseteq BOOLEAN
  /\ {moving, target, wanted, overlap} \subseteq BOOLEAN
  /\ task \in [Reader -> BOOLEAN] /\ fresh \in SUBSET Reader
  /\ refs \in 0 .. MaxRefs
  /\ pc \in [Reader -> {"user", "old"} \cup Lines]
  /\ end \in [Reader -> 0 .. Beyond] /\ ptr \in 0 .. Beyond
  /\ allocated \in SUBSET Block /\ shadowed \in SUBSET Block

\* The example at the head of lpm.c: a process that comes from user mode after
\* insmod, or after a write to sysfs, reads what was asked for last, though
\* the tasks are moved one by one and the user may change his mind meanwhile.
ShowsExample ==
  [][\A r \in fresh :
       loader = "live" /\ Read(r) => (pc'[r] = "kmalloc" <=> wanted)]_vars

\* "Use of this option will also prevent removal of the patch.": where
\* stacks are unreliable a loaded module stays, however often it is disabled.
ImmediateStays == [][~ reliable /\ loader = "live" => loader' = "live"]_vars

\* The core knows the patch only while the module is there, and then a module
\* that goes has no patch that is enabled or hooked.
RemovalClean ==
  /\ loader = "absent" => ~ registered
  /\ loader \in {"absent", "failed", "exit"} => ~ enabled /\ ~ installed /\ ~ moving

\* A patch that is disabled and left alone can be removed in the end.
Removable ==
  loader = "live" /\ ~ wanted /\ reliable ~> refs = 0 \/ wanted

\* What a read does to memory, if reads do not overlap: the loop has moved ptr
\* away, so neither its own buffer and shadow nor those of others are freed.
LoneReadLeaks ==
  [][~ overlap' => allocated \subseteq allocated' /\ shadowed \subseteq shadowed']_vars

\* The assertion on the error path: WARN_ON(klp_unregister_patch(&patch)).
UnregisterSucceeds == loader = "failed" => ~ enabled
-----------------------------------------------------------------------------
\* The readers in the new function keep the life cycle of a module that can be
\* entered from the moment its patch is enabled.
Stage ==
  CASE loader = "enabled" -> "loading"
    [] loader = "live"    -> "live"
    [] loader = "exit"    -> "unloading"
    [] OTHER              -> "absent"

Life == INSTANCE ModuleLife
          WITH Agent <- Reader, stage <- Stage, running <- {r \in Reader : InNew(r)}
LifeSpec == Life!Spec
==============================================================================
