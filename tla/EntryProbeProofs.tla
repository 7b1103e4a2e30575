-------------------------- MODULE EntryProbeProofs ---------------------------
(***************************************************************************)
(* Proofs about EntryProbe: no probe hides a call from the other, and no   *)
(* handler runs in a module that has been freed, for any set of callers.   *)
(***************************************************************************)
EXTENDS EntryProbe, TLAPS

\* unregister waits for calls at the trap only, and for none at other times.
AwaitedAtTrap ==
  \A p \in Probe :
    /\ \A t \in awaited[p] : Trapped(t)
    /\ awaited[p] # {} => at[p] = "unregistered"

\* Who runs a handler met the probe while it was registered, or is awaited.
HandlersHeld ==
  \A t \in Task :
    /\ pc[t] \in {"handler_pre", "handler_post"} => Registered("kp") \/ t \in awaited["kp"]
    /\ pc[t] = "j_do_fork" => Registered("my_jprobe") \/ t \in awaited["my_jprobe"]

\* A call owes a probe its visit only while the probe is registered; behind the
\* probe's place in the list it has paid.
DueInTime ==
  \A t \in Task :
    /\ \A p \in due[t] : Registered(p)
    /\ pc[t] \in {"next", "j_do_fork"} => due[t] \ {"my_jprobe"} \subseteq seen[t]
    /\ pc[t] \in {"step", "handler_post", "resume", "_do_fork"} => due[t] \subseteq seen[t]

Inv == TypeOK /\ AwaitedAtTrap /\ HandlersHeld /\ DueInTime
-----------------------------------------------------------------------------
LEMMA InitInv == Init => Inv
  BY DEF Init, Inv, TypeOK, AwaitedAtTrap, HandlersHeld, DueInTime, Probe, Registered

\* A step of a module's init or exit function, but for the unregistering.
LEMMA PlainInv ==
  ASSUME Inv, NEW p \in Probe,
         Insmod(p) \/ Register(p) \/ RegisterFails(p) \/ InitReturns(p) \/ Rmmod(p)
           \/ ExitReturns(p)
  PROVE  Inv'
<1> USE DEF Inv, Plain, Loader, Insmod, Register, RegisterFails, InitReturns, Rmmod,
            ExitReturns, Waited, TypeOK, Probe
<1>1. TypeOK'
  OBVIOUS
<1>2. AwaitedAtTrap'
  BY DEF AwaitedAtTrap, Trapped
<1>3. HandlersHeld'
  BY DEF HandlersHeld, Registered
<1>4. DueInTime'
  BY DEF DueInTime, Registered
<1> QED
  BY <1>1, <1>2, <1>3, <1>4

LEMMA UnregisterInv == ASSUME Inv, NEW p \in Probe, Unregister(p) PROVE Inv'
<1> USE DEF Inv, Unregister, Loader, TypeOK, Probe
<1>1. TypeOK'
  OBVIOUS
<1>2. AwaitedAtTrap'
  BY DEF AwaitedAtTrap, Trapped
<1>3. HandlersHeld'
  BY DEF HandlersHeld, Registered, Trapped
<1>4. DueInTime'
  BY DEF DueInTime, Registered
<1> QED
  BY <1>1, <1>2, <1>3, <1>4

LEMMA CallInv ==
  ASSUME Inv, NEW t \in Task, Enter(t) \/ AtTrap(t) \/ Return(t)
  PROVE  Inv'
<1> USE DEF Inv, Goto, Handler, Sees, Enter, AtTrap, Return, MeetKprobe, HandlerPre,
            MeetJprobe, JDoFork, SingleStep, HandlerPost, Resume, TypeOK, Probe
<1>1. TypeOK'
  OBVIOUS
<1>2. AwaitedAtTrap'
  BY DEF AwaitedAtTrap, Trapped
<1>3. HandlersHeld'
  BY DEF HandlersHeld, Registered
<1>4. DueInTime'
  BY DEF DueInTime, Registered
<1> QED
  BY <1>1, <1>2, <1>3, <1>4

LEMMA NextInv == Inv /\ [Next]_vars => Inv'
<1>1. Inv /\ UNCHANGED vars => Inv'
  BY DEF Inv, vars, TypeOK, AwaitedAtTrap, HandlersHeld, DueInTime, Trapped, Registered
<1> QED
  BY <1>1, PlainInv, UnregisterInv, CallInv DEF Next, LoaderStep

LEMMA Invariance == Spec => []Inv
  BY InitInv, NextInv, PTL DEF Spec
-----------------------------------------------------------------------------
\* The state is well typed.
THEOREM TypeCorrect == Spec => []TypeOK
<1>1. Inv => TypeOK
  BY DEF Inv
<1> QED
  BY <1>1, Invariance, PTL

\* A call has been seen by every probe that was there all the time, because
\* handler_pre returns 0 (kprobe_example.c:53) and j_do_fork goes back to the
\* trap (jprobe_example.c:34).
THEOREM CallsAreSeen == Spec => []AllProbesSee
<1>1. Inv => AllProbesSee
  BY DEF Inv, DueInTime, AllProbesSee
<1> QED
  BY <1>1, Invariance, PTL

\* kprobe_exit and jprobe_exit return only when no handler of theirs runs.
THEOREM KeepsModuleLife == Spec => LifeSpec
<1>1. Init => KprobeLife!Init /\ JprobeLife!Init
  BY DEF Init, Probe, Stage, Registered, KprobeLife!Init, JprobeLife!Init
<1>2. Inv /\ [Next]_vars => [KprobeLife!Next]_(KprobeLife!vars)
  <2> SUFFICES ASSUME Inv, [Next]_vars
               PROVE  KprobeLife!Next \/ UNCHANGED KprobeLife!vars
    OBVIOUS
  <2> USE DEF Inv, TypeOK, Probe, Stage, Registered
  <2>1. ASSUME NEW p \in Probe, Insmod(p) \/ LoaderStep(p) \/ Rmmod(p)
        PROVE  \/ KprobeLife!Load \/ KprobeLife!Loaded \/ KprobeLife!Fail
               \/ KprobeLife!Unload \/ KprobeLife!Free \/ UNCHANGED KprobeLife!vars
    BY <2>1 DEF Insmod, LoaderStep, Register, RegisterFails, InitReturns, Rmmod,
       Unregister, ExitReturns, Waited, Plain, Loader, HandlersHeld, AwaitedAtTrap,
       KprobeLife!Load, KprobeLife!Loaded, KprobeLife!Fail, KprobeLife!Unload,
       KprobeLife!Free, KprobeLife!Stage, KprobeLife!vars
  <2>2. ASSUME NEW t \in Task, MeetKprobe(t) \/ SingleStep(t)
        PROVE  KprobeLife!Start(t) \/ UNCHANGED KprobeLife!vars
    BY <2>2 DEF MeetKprobe, SingleStep, Handler, Goto, KprobeLife!Start, KprobeLife!vars
  <2>3. ASSUME NEW t \in Task, HandlerPre(t) \/ HandlerPost(t)
        PROVE  KprobeLife!Finish(t)
    BY <2>3 DEF HandlerPre, HandlerPost, Handler, Goto, KprobeLife!Finish
  <2>4. ASSUME NEW t \in Task, Enter(t) \/ MeetJprobe(t) \/ JDoFork(t) \/ Resume(t) \/ Return(t)
        PROVE  UNCHANGED KprobeLife!vars
    BY <2>4 DEF Enter, MeetJprobe, JDoFork, Resume, Return, Handler, Goto, KprobeLife!vars
  <2>5. CASE UNCHANGED vars
    BY <2>5 DEF vars, KprobeLife!vars
  <2> QED
    BY <2>1, <2>2, <2>3, <2>4, <2>5 DEF Next, AtTrap, KprobeLife!Next
<1>3. Inv /\ [Next]_vars => [JprobeLife!Next]_(JprobeLife!vars)
  <2> SUFFICES ASSUME Inv, [Next]_vars
               PROVE  JprobeLife!Next \/ UNCHANGED JprobeLife!vars
    OBVIOUS
  <2> USE DEF Inv, TypeOK, Probe, Stage, Registered
  <2>1. ASSUME NEW p \in Probe, Insmod(p) \/ LoaderStep(p) \/ Rmmod(p)
        PROVE  \/ JprobeLife!Load \/ JprobeLife!Loaded \/ JprobeLife!Fail
               \/ JprobeLife!Unload \/ JprobeLife!Free \/ UNCHANGED JprobeLife!vars
    BY <2>1 DEF Insmod, LoaderStep, Register, RegisterFails, InitReturns, Rmmod,
       Unregister, ExitReturns, Waited, Plain, Loader, HandlersHeld, AwaitedAtTrap,
       JprobeLife!Load, JprobeLife!Loaded, JprobeLife!Fail, JprobeLife!Unload,
       JprobeLife!Free, JprobeLife!Stage, JprobeLife!vars
  <2>2. ASSUME NEW t \in Task, MeetJprobe(t)
        PROVE  JprobeLife!Start(t) \/ UNCHANGED JprobeLife!vars
    BY <2>2 DEF MeetJprobe, Handler, Goto, JprobeLife!Start, JprobeLife!vars
  <2>3. ASSUME NEW t \in Task, JDoFork(t)
        PROVE  JprobeLife!Finish(t)
    BY <2>3 DEF JDoFork, Handler, Goto, JprobeLife!Finish
  <2>4. ASSUME NEW t \in Task,
               \/ Enter(t) \/ MeetKprobe(t) \/ HandlerPre(t) \/ SingleStep(t)
               \/ HandlerPost(t) \/ Resume(t) \/ Return(t)
        PROVE  UNCHANGED JprobeLife!vars
    BY <2>4 DEF Enter, MeetKprobe, HandlerPre, SingleStep, HandlerPost, Resume, Return,
       Handler, Goto, JprobeLife!vars
  <2>5. CASE UNCHANGED vars
    BY <2>5 DEF vars, JprobeLife!vars
  <2> QED
    BY <2>1, <2>2, <2>3, <2>4, <2>5 DEF Next, AtTrap, JprobeLife!Next
<1> QED
  BY <1>1, <1>2, <1>3, Invariance, PTL DEF Spec, LifeSpec, KprobeLife!Spec, JprobeLife!Spec
==============================================================================
