# A verification development for `yu`

`yu` is a kernel tester's toolbox. It has no main program and no test suite: it
is a collection of small, independent programs, most of them kernel modules that
provoke one situation on purpose (a hung task, a long wait queue, a full slab
cache, a probed function), with the user programs and scripts that drive them.
This directory holds TLA+ specifications of the parts whose behaviour depends on
the order of events, the TLC configurations that check them, and TLAPS proofs of
their safety for every value of the constants.

Run `tlc -config X.cfg M` for a row of the table of runs, and `tlapm MProofs.tla`
for the proofs. `PROJECT.json` lists components, runs, mutants (one deliberate
bug per property that the run must catch), the source lines every definition
stands for, the hazards of the code and the theorems.

## 1. Inventory

### Parts that are modelled

**Wait-queue bookmark module** (`kmods/waitqueue_bookmark/waitqueue.c`).
*State*: a list of 80 `wait_thread` records, the queue `bookmark_wait_queue`, the
flag `stop`, a work item, and one kernel thread per record with its entry on the
queue. *Operations*: insmod creates the threads, schedules the work, waits on
`waker_wait_queue` until `stop`, and wakes all of `bookmark_wait_queue`; the work
handler sleeps, sets `stop` and wakes insmod; rmmod calls `kthread_stop` on each
thread, pokes the task and frees the record. *Hard*: insmod, work item, rmmod and
80 threads run concurrently; a wake-up can fall between a thread's stop test and
its sleep; the kernel wakes the queue in batches and drops the lock in between; a
signal can end insmod's wait. *Correct when*: no thread runs module code after
rmmod; `kthread_stop` is only called on live threads; the batched wake-up visits
no entry whose thread has left; insmod and rmmod return.

**Hung-task module** (`kmods/hung_task/hung_task.c`). *State*: a mutex and an
hrtimer. *Operations*: insmod locks the mutex, starts the timer and locks again;
the callback unlocks, in interrupt context; rmmod polls `hrtimer_active`. *Hard*:
the interrupt may hit insmod anywhere, on its own processor too; a task may migrate;
insmod may be so late that the timer is over. *Correct when*: insmod blocks for the
whole timeout and then returns; rmmod does not free a running callback.

**Netlink echo module and client** (`kmods/netlink/nl.c`, `unl.c`). *State*: the
kernel socket and its registration; per client a socket, the shared port 100 and a
receive queue. *Operations*: load, failed load, unload, the input callback that
sends two replies with a sleep before each; the client binds, sends, and reads
without blocking until its queue is empty. *Hard*: several clients, one port; the
callback runs in the sender's context; clients may be killed, `sendmsg`, `alloc_skb` or
`netlink_kernel_create` may fail. *Correct when*: a client that ends has all replies
that were sent, and no one else's; nothing leads to the callback after unload.

**Kretprobe example** (`kmods/kprobes/kretprobe_example.c`). *State*: a pool of
`maxactive` instances, a time stamp in each. *Operations*: register, entry handler
(skips kernel threads), return handler (logs the duration), unregister. *Hard*:
calls of many tasks interleave and reuse instances; calls may outlive the probe.
*Correct when*: the duration logged is that of the call; no instance is lost or
shared; no handler runs in a module that is gone.

**Slab cache module** (`kmods/slabtest/slabtest.c`). *State*: a cache, its objects, a
list of nodes that name them. *Operations*: fill at insmod, free and destroy at
rmmod. *Hard*: every allocation can fail; the list is walked while its nodes are freed.
*Correct when*: each object and node is freed once, before the cache is, and no freed
node is read.

**Page table walker** (`pagetable_walking/walk_pg_table.c` with `userpage.c` and
`userhugepage.c`). *State*: the page tables of the observed process, the walk's
position. *Operations*: find the task; read pgd, pud, pmd, then a 2M page or a pte
and a 4K page; meanwhile the process unmaps and exits. *Hard*: index and offset
arithmetic; no lock, entries are read twice; `userhugepage` maps twelve pages of 2M but
touches only the first. *Correct when*: the word printed is the one at `vaddr`.

**Calibration script** (`memo/serial.sh`, function `Calibrate`). *State*: the
sleep between two runs of a command, the window, the counters of a round.
*Operations*: parse, measure, then rounds that lengthen or shorten the sleep.
*Hard*: an adaptive loop over uncertain run times, with variables that outlive a
round. *Correct when*: the sleep is never negative, and a match says which sleep and speed
were measured.

**Live patch** (`kmods/livepatch/lpm.c`). *State*: the patch as the kernel's patching
core sees it (registered, enabled, in transition, module references), `immediate`, the
globals `ptr` and `shadow` that every reader of `/proc/cmdline` assigns. *Operations*:
register and enable at insmod, unregister at rmmod, the new function with its
allocation, shadow variable and loop. *Hard*: sysfs writes may come at any time and
reverse a transition; tasks are moved one by one, readers share `ptr`. *Correct when*:
the module stays while a reader is in its function or the patch is enabled,
`klp_unregister_patch` never fails, a process reads what was asked for last, a disabled
patch can be removed, what a read allocates it frees (the last fails: the loop moves
`ptr` 41 longs on before `kfree`).

**Module stack** (`kmods/base_lib`, `kmods/kinfo`, `kmods/event_mod`). *State*: which
of the four modules is loaded, the exported variable `depends`, the task list that
`test_dump_tasklist` walks, the debugfs directory and file of `pita` and who has it
open. *Operations*: insmod and rmmod of each, in any order the kernel's references
allow; the walk, one task at a time, until its limit; creating the directory and the
file, either of which may fail, and removing both; open (which stores to `depends`),
read, write and close. *Hard*: tasks fork, exit and are freed under the walk, whose
limit is tested after the print and whose result is the counter; rmmod meets calls on
the file and files that stay open; `pita` declares `depends` wider than `base_lib`
defines it. *Correct when*: the walk touches no freed task and its result says
whether the list is complete; the library outlives its users' calls; nothing leads to
`pita`'s code once it is gone; the store hits `depends` and padding only.

**Entry probes** (`kmods/kprobes/kprobe_example.c`, `jprobe_example.c`). *State*: the
list of probes at one instruction, and where each call of `_do_fork` stands.
*Operations*: register, failed register, unregister; `handler_pre`, `handler_post`,
`j_do_fork`. *Hard*: two modules come and go at the same instruction while calls are
on their way through its list; the jprobe's entry runs in place of the function.
*Correct when*: a probe that is there for the whole call sees it, whatever the other
does; a call that met a probe runs `_do_fork`; no handler runs in a module that is gone;
rmmod does not wait for calls to return.

**Job XML filters** (`sh/awk/combine_extract.awk`, `filter.awk`, `awk.awk`). *State*:
awk's position, the range rules that are open, flags and a counter that outlive a file,
the lines of a recipe set held back, the tasks read from a task file and the globals
that gather one. *Operations*: one per record, and one per piece of a task file's line;
a loop of `getline`; `nextfile`. *Hard*: several rules fire on a line, a rule may read on by itself, and
what is not reset changes how the next set or file is read. *Correct when*: the
combined job has one head, one notify block and the recipe set at `t_pos` of each
file; the filter drops exactly the sets of a debug variant; each
recipe gets each task of the task file, with what its own line says of it.

The parts do not call each other. What they share is the kernel's contract for a
module (code of the module runs only between the start of insmod and the start of
rmmod, and rmmod waits until none is left), which is a module of its own,
`ModuleLife`, that seven of the specifications are shown to implement (two of them
for two modules at once).

### Parts that are not modelled

| part | why |
|---|---|
| `kmods/deubg_pagealloc`, `pagetable_walking/debug_pa.c` | allocate at insmod, free at rmmod; no order of steps to get wrong |
| `stattests` | does not compile (`debug.h:16` defines a macro with the parameter list `(0, ...)`); `tmp.c` is a fragment |
| `kmods/kmemleak_extra` | does not compile |
| `kmods/percpu`, `warn_mod`, `sched_warn` | straight-line init functions without state |
| `sh/*.sh`, `sh/awk/*.sh` | single passes of text through shell tools |
| `py`, `dbus`, `systemtap` | one HTTP answer printed; library samples; probes that print |
| `kpatch-gcov` | generated coverage report and the script that made it |
| `config`, `vim`, `memo` (but for `serial.sh`) | configurations, install and compile commands, notes |

## 2. Modules

`ModuleLife.tla` is the abstract specification: a `stage` and the set of `running`
agents. `Start` needs a loading or live module, `Free` and `Fail` (an init that
failed) an empty set. A concrete
module says what its stages and agents are in `Life == INSTANCE ModuleLife WITH ...`
and checks `LifeSpec == Life!Spec`.

| module | actors | what stands for the code |
|---|---|---|
| `WaitQueue` | loader, threads, work item, signal | `loader` is the line of `init_module` / `cleanup_module`; one iteration of each of their loops is an action. A thread's loop is cut where another actor can come between: after queueing, after the second set of the task state, after the wake-up, after the stop test |
| `HungTask` | loader, timer interrupt, scheduler | the slow path of `mutex_lock` is two steps, since it holds `wait_lock` with interrupts on; `cpu` and `timerCpu` say whether the interrupt stops the loader |
| `NetlinkTest` | module, clients | `nl_data_ready` is a loop of `SendReply` steps of the *sender*, as it runs inside `sendmsg`; `queue` holds the process each reply answers |
| `Kretprobe` | loader, callers, clock | a call is out, in its entry handler, inside, or in its return handler; `called` is a history of when the call really began |
| `SlabTest` | loader | objects and nodes are named by the loop counter that made them; `pos` and `next_pos` are positions in the list, and the next pointer of a freed node may lead anywhere |
| `PageWalk` | walker, process | a table is a place (its level, and which block of the address space it translates), a page its first frame; freed memory read as a table gives *any* entry. The two reads of the pmd entry are two steps, and so is each other dereference whose result the walk uses; reads whose result is only logged are left out |
| `Calibrate` | script | one turn of the inner loop is a step; how long a run takes is arbitrary |
| `LivePatch` | module, sysfs, patching core, readers | `pc[r]` is the line of the new function that reader `r` is on; each access to `ptr` that another reader could come between is a step, the loop a load and a store. Lines 52 and 53 are one: `eptr` is computed from the value just allocated. Addresses are counted in longs, so that the loop's `ptr + 41` is exact |
| `ModuleStack` | loader, user, tasks, RCU, openers, test_clobber's init | composes `base_lib` with its three users: `at[m]` is the line of `m`'s init or exit, `Resolves` and `Unused` are the references the kernel takes for exported symbols. `walk` is the line of `test_dump_tasklist`; `next` is the list as a reader sees it, with the stale pointers of unlinked tasks. `Neighbours` computes what a 4-byte store to `depends` hits in any order of the variables |
| `EntryProbe` | loader, callers of `_do_fork` | `pc[t]` is the handler a call is in, or the kernel's step between two; `awaited` is what `synchronize_sched` waits for; `seen` and `due` are histories |
| `JobXml` | awk | a line is the set of patterns it matches; each record, and each line read by `getline`, is a step that does what all the rules do with it; a piece of a task file's line is its kind and value |

Left out on purpose: log texts and the text of netlink replies, the order inside
`wait_threads_list` (rmmod meets the records in an arbitrary order), the internals
of mutex, scheduler and allocator beyond what the comments of the modules name.
Definitions that stand for the kernel are marked external in the map.

## 3. Runs

| run | module | bounds | shows |
|---|---|---|---|
| `waitqueue` | WaitQueue | 4 threads, batches of 2 | the queue holds exactly the entries of threads in their loop (`QueueIsLoop`), only live threads are stopped (`StopTargetsLive`), the entries the batched wake-up has still to visit are on the queue (`WalkOnQueue`), insmod and rmmod return (`CallsReturn`), `ModuleLife` is kept |
| `hung_task` | HungTask | 2 processors, 20 s | insmod blocks for the whole timeout, returns unless the interrupt deadlocks with it (`SelfDeadlock`), rmmod returns, the callback ends before the module is freed (`ModuleLife`) |
| `netlink` | NetlinkTest | 3 clients | complete replies, to their sender only, clean unload, every client ends |
| `kretprobe` | Kretprobe | 2 user tasks, 1 kernel thread, 2 instances, 2 ticks, 2 misses | durations are never mixed up, no instance is lost, rmmod ends though calls may never return |
| `slabtest` | SlabTest | 40 objects | all is freed once, before the cache, and no freed node is read; any allocation may fail |
| `page_walk` | PageWalk (`MCPageWalk`) | 2 entries a table, 4 bytes a page, 2 a word; one small page or 3 huge ones | the walk of an address in a touched page of the mapping stays inside the tables and shows the word at that address for the first one of the page, and for no other (`ShowsWord`) |
| `calibrate` | Calibrate (`MCCalibrate`) | 14 runs a round, speeds 0, 1, 2, 4, steps of at most 2 s, sleeps up to 20 | the sleep stays non-negative and no divisor of the inner loop is 0 (a load or a speed of 0 does divide by 0, before it), a match by hits had the wanted speed at the sleep it prints, and no hit counted for it was measured at a longer one, and a match at a round's end has the round's runs (`MatchedIsMeasured`), a round that times out dooms the calibration |
| `live_patch` | LivePatch | 2 readers, 2 buffers 40 longs apart, no sysfs write before the patch is enabled | a process reads what was asked for last, the core's data is clean when the module is gone, an immediate patch is never removed, a disabled one can be, a lone read leaks its buffer and frees no other, `ModuleLife` is kept |
| `live_patch_early` | LivePatch | same, with early writes | **violated**: `UnregisterSucceeds` |
| `module_stack` | ModuleStack | 3 tasks besides `init_task`, limit 2, 2 openers | the walk never stands on freed memory (`WalkSafe`), -1 means limit + 1 tasks printed, anything else a complete list without repetition (`WalkComplete`), the wide store hits padding only (`DependsAlone`), insmod and rmmod return although tasks come and go and the file stays open, `ModuleLife` of `base_lib` and of `pita` |
| `entry_probe` | EntryProbe | 2 callers | a probe that stays sees every call (`AllProbesSee`), no call is lost and rmmod ends (`CallsGoOn`), `ModuleLife` of both modules |
| `job_xml` | JobXml (`MCJobXml`) | all pairs of files with one of four heads and up to two of four kinds of recipe set, `t_pos` 0 or 1; all task files of up to two of six kinds of line, and one that is missing, with jobs of up to three lines | the combined job has the lines it should, in order (`CombinesPosition`); `EditsJob`: the filter drops exactly the debug sets, and each element gets all tasks with their own parameters and repository; the programs end if notify blocks are closed on a later line and the task file can be read |

Why these bounds are enough:

* *WaitQueue*: four threads and batches of two give two batches with queue changes
  between them, and a thread in each relation to `kthread_stop` (stopped, being
  stopped, to be stopped) with one to spare.
* *HungTask*: two processors are the cases "same" and "other"; the timeout only
  counts down, and is the one of the code.
* *NetlinkTest*: three clients are one that owns the port, one that loses it and one
  that comes when the port is free again.
* *Kretprobe*: with fewer instances than tasks the pool runs dry; with two ticks the
  durations 0, 1 and 2 differ. `MaxTime` stops the clock, `MaxMissed` the misses.
* *SlabTest*: the loop is uniform; the proofs cover every number of objects.
* *PageWalk*: with two entries a table, four levels and all addresses, every index can
  agree or differ at every level; page and word size keep the offset's scaling
  visible. `HugePages` is 3 for the program's 12: a first, a middle and a last page, with
  frames in another order than the addresses (`Frame`). Which pages but the first have
  been touched is left open (`present`): the program writes one word, and a page that was
  never touched has no memory behind it.
* *Calibrate*: the constants are the script's, divided so that all eight corrections
  and both ends of a round are reached; `Tolerance` and `Hits` are scaled with them.
  The bounds are `MaxStep` and `MaxSleep`. `Times` has a run of over a minute and a
  load of 0; a speed of 1 is where every round may end with its first run.
* *LivePatch*: two readers make every race on `ptr`; the buffers are as far apart as the
  loop is long, so that an off-by-one would hit the other. `Beyond` stands for all
  addresses behind them; `MaxRefs` bounds how often an immediate patch, whose
  references are never given back, is enabled. `EarlyWrite` names the points of init,
  before or after a failed enabling, at which somebody writes to sysfs: nowhere in
  `live_patch`, between registering and enabling in `live_patch_early`.
* *ModuleStack*: with three tasks one can exit in front of, under and behind the walk at
  once, and the list is shorter than, as long as and longer than limit + 1; struct
  memory is reused, so a task can be freed and forked again under the walk. Two openers
  are one inside a call and one that only holds the file open.
* *EntryProbe*: two callers are one in a handler and one that enters meanwhile; both
  probes exist in the code.
* *JobXml*: two files show what one leaves to the next, two recipe sets likewise. Files
  with too few sets, notify blocks of one line and debug lines that end their set are
  among the inputs; the properties exclude them by name (`JobFiles`, `SetsClosed`,
  `BlocksClosed`), and the hazards say what happens then. Two lines of a task file show
  what one leaves to the next, and the kinds include an empty one, one with two
  repositories and one that ends with an equation; jobs whose elements begin and end on
  one line are excluded by `ElementsOpen` (the tasks are then put in front of them).

Only the run whose system can stop switches deadlock checking off (`hung_task`, for
`SelfDeadlock`); the others give every legal end a stuttering action.

### Fairness

Weak fairness stands for what the kernel grants: a runnable task is run, a timer
expires, an interrupt is taken. It is on the steps of a call that has begun
(`LoaderStep`, `ExitStep`, `ClientStep`, `Handler`), never on the user's decision to
begin one (`CleanupModule`, `Rmmod`, `Insmod`, `Call`, `Open`, `Close`), on signals and kills, on
fork and exit, or on the return of a probed function. In `ModuleStack` each module's
init or exit and each call on the file is fair by itself, so that none waits for
another but where the code does; in `EntryProbe` a call at the trap is fair, since it
cannot be preempted. In `WaitQueue` fairness of `Timeout` is the
10-second `schedule_timeout_interruptible`: without it rmmod need not return, since
`kthread_stop`'s own wake-up can be lost. In `LivePatch` the core's retry, once a second,
and a reader inside the function are fair. `Calibrate` and `JobXml` are sequential
programs with fairness on their single next step. `SlabTest` and `PageWalk` state no liveness.

### What the violation shows

`lpm.c:113` states that `klp_unregister_patch` succeeds. In the trace the module
registers its patch, a write to sysfs enables it, and `klp_enable_patch` then fails
because of that; init goes on to unregister, which is refused for an enabled patch, and
the patch's code is freed. Nothing else fails in that run: `EarlyWrite` allows the write
between registering and enabling only.

Further defects are visible in the models: `mutex_unlock` from the timer interrupt
deadlocks with an insmod that the interrupt hits inside `mutex_lock`'s slow path
(`hung_task.c:25`, `SelfDeadlock`); the page walker adds a byte offset to a `long *`,
so that an address inside a page shows another word (`walk_pg_table.c:77`, the second
half of `ShowsWord`); the same walk of a page of `userhugepage` that was never touched
reads whatever frame 0 holds, since no entry is tested for being present
(`walk_pg_table.c:50-55`); a signal that ends the wait for `stop`, so that the module can be unloaded under its pending work
item, whose handler then runs in freed code (`waitqueue.c:100`, `RunFreedHandler`),
`wake_up_process` on a task that `kthread_stop` may have freed
(`waitqueue.c:40`), a failed netlink
load that returns 1, which the kernel takes for success (`nl.c:91`), the cache leaked by
a failed `slabtest_init` (line 45), `nmissed` counting kernel threads
(`kretprobe_example.c:100`), the option loop of `serial.sh:4` that never ends, its
minutes lost at line 15, and `diff` kept from the round before (line 46), which
`StaleDiffUnderflows` describes, the hits carried from round to round (lines 55-59),
so that at speed 1 eleven rounds of one run each, at eleven different sleeps, print
"Matched", the position that a job file with too few recipe sets
leaves to the next (`combine_extract.awk:53`), the debug line that ends its set and
takes the next one with it (`filter.awk:10`), a task file that cannot be read and is
read for ever (`awk.awk:52`, `Hangs`), the -1 of `test_dump_tasklist` that its
unsigned type turns into 2^64 - 1 (`base_lib.c:48`), and the two widths of `depends`,
harmless by alignment (`pita.c:19`). Outside the models are the closing quote
of a repository's URL, which `split` takes away (`awk.awk:53`) and `parse_restraint` does
not put back although the comment at line 24 shows it, a value cut at its second `=`
(`awk.awk:20`), the stray byte of a netlink
reply (`nl.c:45`), the writable name that the kprobe's handlers log
(`kprobe_example.c:19`), and what debugfs reads of `test_fops`, which has no `.owner`,
when the file is closed after rmmod (`pita.c:42`).

## 4. Proofs

Each proof module extends its specification and leads from one inductive invariant
`Inv` (`InitInv`, the step lemmas, `Invariance`) to a theorem per property. The
assumptions are those on the constants, named in the specification. The type
invariants are theorems (`TypeCorrect`), so the runs need not
repeat them.

| module | proved for every | inductive invariant, beyond the properties |
|---|---|---|
| `WaitQueueProofs` | finite set of threads, batch size | `ListedAlive`: a thread that can run module code is listed (what makes an empty list mean that rmmod is safe); `MarkedGone`: only the thread being stopped, or one already unlisted, is marked to stop; `Untried`: an index not tried yet has no thread; `NoneMarked`: before rmmod nobody has been told to stop, so no thread leaves the queue while insmod wakes it |
| `HungTaskProofs` | set of processors, timeout | `HeldUntilReleased`: until the callback unlocks, insmod holds the mutex and waits; `CallbackFirst`: a loaded module is past the callback's unlock, a freed one past its return |
| `NetlinkTestProofs` | set of clients | `OwnsPort`: a process past its bind owns the port (so replies to the port reach the asker); `Accounted`: each reply is to be sent, lost, queued or received; `SocketKept`: a registered live module has `nl_sk` |
| `KretprobeProofs` | tasks, pool, clock bound | `StampIsOwn`: the stamp in a call's instance is the call's; `IdleIsFree`: outside the function a task holds none |
| `SequentialProofs`, `SlabTest` | number of objects | `Filling`, `Emptying`: the list, or what is left of it, names each live object exactly once, and the position saved is the next one, by the lemmas `ListsCons` and `LeftShrinks` on sequences |
| `SequentialProofs`, `PageWalk` | sizes of table, page and word, number of huge pages, their frames, mapping | `OnTrack`: while the address is mapped, the walk stands in the place of its level that translates the address, and what it has read of the pmd is the page's table or frame. `EntryNumber` and `RootNumber`: the indices lead to the block the address is in, at every level; `SameBlock` and `BlockOfBlock`: that block holds the page; by `ScaledOffset` the scaled offset is the address's own only at the page's start |
| `SequentialProofs`, `Calibrate` | scale of a round, arguments, speeds, run times | `CalInv`: the sleep is not negative in a round (`CorrectedSleep`: only the correction by `Small` can make it so), the window is at least 1, and in the inner loop at most the speed; `ran` counts what the round has run; `LongestHit`: no hit that counts was measured at a longer sleep than the one in use, or the time of all rounds is up |
| `SequentialProofs`, `JobXml` | files and their lines, task file, `t_pos` | `JobType`: the record is a line or behind the last file. `FilterInv`: what is printed are the lines so far that are kept, but for the set held in `stage`, which is the one the record lies in (`Held`). `InsertInv`: the tasks read so far, and the pieces of the current one, are those of their own lines (`TasksRead`, `Said`); the lines so far are printed in order, each entry that is no line stands in front of an element's end and each such end has the tasks above it (`Placed`). `CombineInv`: `inside`, `seen` and `curr_pos` are functions of the lines passed (`Remembers`), and what is printed is what of them the combined job has (`CombinedSoFar`); `JobFileShape` and `Positions` say where head, notify block and sets of a job file lie to each other |
| `ModuleStackProofs` | tasks, limit, openers | `ListIsRing`: the pointers of `init_task` and the linked tasks form one ring with one predecessor each (what lets an exit repair it); `PinnedStays`, `WalkGoesOn`: the walk stands on a task that is linked, or unlinked and pinned, whose pointer leads to such a task again; `WalkInv`: there is a rank of the tasks (the order in which they were linked) that rises along the pointers up to the head of the list, so what was printed is sorted by it, what is still to come ranks higher than the walk, and a task that was there all the time and ranks lower is printed; `BaseHeld`: a user that is not absent keeps `base_lib` live; `FileServed`: a call inside `pita` finds it live or waiting |
| `EntryProbeProofs` | set of callers | a probe that is due is registered and, once its place in the list is passed, has seen the call; a call in a handler finds the probe registered or is awaited |
| `LivePatchProofs` | readers, buffers, bound on references, if sysfs is not written early (`EarlyWrite = {}`) | `References`: a traced patch holds one reference just while calls can reach its function, an immediate one keeps at least one; `Sides`: whose stack shows the new function is on its side of the transition; `FreshMoved`: who came from user mode has been moved; `Alone`: while reads have not overlapped, `ptr` is a buffer (an even address) or 41 longs behind one |

`SequentialProofs` extends the specifications of the sequential programs, whose names
for the initial states, steps and so on carry a prefix (`PageInit`, `CalNext`,
`SlabSpec`) so that one module can. `SizeAssumption` says of a word that it has more
than one byte and that `WordSize - 1` has no divisor in common with the page's size: 7
and 4096 in the code. Without the second, an offset scaled by the word could again be
a multiple of the page away from the right one.

The theorems `KeepsModuleLife` of the other seven modules show the refinement of
`ModuleLife`: initial states map to initial states and every step, under the
invariant, to a step or a stutter.

The theorems of `JobXml` take no induction over a file's lines: what the lines up to
the record mean is a formula of the invariant, and a step of the program, which moves
the record by a line, to the next file or, within `getline`, by the loop's lines, moves
the formula with it. What the proof of `CombinesPosition` needed and the model had left
to the enumerated files is its hypothesis `JobFiles`: one head per file, from `<job>` to
`<whiteboard>`, at most one notify block that ends on a later line and does not overlap
the head's two ends, recipe sets behind both, and one at `t_pos`. Without it the property
is false: `nextfile` leaves a file at the end of its set at `t_pos`, so a notify block
behind that set is never printed. Likewise `EditsJob` supposes `SetsClosed` of the
filter and `ElementsOpen` of the tasks.

Every invariant a run checks is a theorem. Only model-checked: all liveness properties
(fairness and ENABLED are outside what the provers handle).

## 5. Plan

1. Done: `ModuleLife`, `WaitQueue`, `HungTask`, `NetlinkTest`, `Kretprobe`,
   `SlabTest`, `PageWalk`, `Calibrate`, `LivePatch`, `JobXml`, `ModuleStack`,
   `EntryProbe`, and the proof modules of section 4.
2. Done: a theorem for every invariant, those of `JobXml` last.
