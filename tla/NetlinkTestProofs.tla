-------------------------- MODULE NetlinkTestProofs --------------------------
(* Safety of NetlinkTest for every set of clients.                           *)
EXTENDS NetlinkTest, TLAPS

\* A loaded module that is registered has nl_sk, so rmmod unregisters it.
SocketKept ==
  /\ module = "absent" => ~ registered
  /\ module \in {"live", "unloading"} /\ registered => nl_sk
  /\ module \in {"absent", "unloading"} => Open = {}

\* A process past its bind owns the port.
OwnsPort ==
  \A c \in Client : client[c] \in {"bound", "handling", "receiving"} => port = c

\* Each of the two replies is still to be sent, lost, queued, or received.
Accounted ==
  \A c \in Client :
    /\ client[c] \in {"new", "open", "bound"} =>
         got[c] = 0 /\ lost[c] = 0 /\ queue[c] = <<>>
    /\ client[c] \in {"handling", "receiving"} =>
         got[c] + lost[c] + i[c] + Len(queue[c]) = Replies
    /\ client[c] = "done" => got[c] + lost[c] = Replies
    /\ client[c] \in {"done", "failed"} => queue[c] = <<>>
    /\ i[c] > 0 <=> client[c] = "handling"

Inv == TypeOK /\ SocketKept /\ OwnsPort /\ Accounted /\ NoStrayReply
-----------------------------------------------------------------------------
\* No module, no process has started.
LEMMA InitInv == Init => Inv
<1> SUFFICES ASSUME Init PROVE Inv
  OBVIOUS
<1>1. TypeOK
  <2>1. [c \in Client |-> 0] \in [Client -> 0 .. Replies]
    BY DEF Replies
  <2>2. <<>> \in Seq(Client)
    OBVIOUS
  <2> QED
    BY <2>1, <2>2 DEF Init, TypeOK
<1>2. SocketKept /\ OwnsPort
  BY DEF Init, SocketKept, OwnsPort, Open
<1>3. Accounted /\ NoStrayReply
  BY DEF Init, Accounted, NoStrayReply
<1> QED
  BY <1>1, <1>2, <1>3 DEF Inv

\* The steps of nl.c leave the processes alone.
LEMMA ModuleStepInv == Inv /\ (ModuleStep \/ Insmod \/ Rmmod) => Inv'
<1> SUFFICES ASSUME Inv, ModuleStep \/ Insmod \/ Rmmod PROVE Inv'
  OBVIOUS
<1>1. UNCHANGED cvars
  BY DEF ModuleStep, Insmod, Rmmod, KernelCreate, KernelCreateFails, SetNlSk, NetlinkExit
<1>2. SocketKept'
  BY <1>1 DEF Inv, TypeOK, SocketKept, Open, cvars, ModuleStep, Insmod, Rmmod,
     KernelCreate, KernelCreateFails, SetNlSk, NetlinkExit
<1>3. (module \in {"absent", "loading", "live", "unloading"}
       /\ nl_sk \in BOOLEAN /\ registered \in BOOLEAN)'
  BY DEF Inv, TypeOK, ModuleStep, Insmod, Rmmod,
     KernelCreate, KernelCreateFails, SetNlSk, NetlinkExit
<1> QED
  BY <1>1, <1>2, <1>3
     DEF Inv, TypeOK, OwnsPort, Accounted, NoStrayReply, Open, cvars

\* A queue of c with a reply more, and with one less, is a queue of c.
QueueOf(c, q) == q \in Seq(Client) /\ \A n \in DOMAIN q : q[n] = c

LEMMA QueueGrows ==
  ASSUME NEW c \in Client, NEW q, QueueOf(c, q)
  PROVE  QueueOf(c, Append(q, c)) /\ Len(Append(q, c)) = Len(q) + 1
  BY DEF QueueOf

LEMMA QueueShrinks ==
  ASSUME NEW c \in Client, NEW q, QueueOf(c, q), q # <<>>
  PROVE  QueueOf(c, Tail(q)) /\ Len(Tail(q)) = Len(q) - 1 /\ Len(q) > 0
<1>1. Len(q) > 0 /\ Tail(q) \in Seq(Client) /\ Len(Tail(q)) = Len(q) - 1
  BY DEF QueueOf
<1>2. \A n \in DOMAIN Tail(q) : n + 1 \in DOMAIN q /\ Tail(q)[n] = q[n + 1]
  BY <1>1 DEF QueueOf
<1> QED
  BY <1>1, <1>2 DEF QueueOf

\* Only the queue of c changes, and stays a queue of c.
LEMMA QueuesStay ==
  ASSUME NEW c \in Client, NoStrayReply, QueueOf(c, queue'[c]),
         \A d \in Client \ {c} : queue'[d] = queue[d]
  PROVE  NoStrayReply'
<1> SUFFICES ASSUME NEW d \in Client PROVE \A n \in DOMAIN queue'[d] : queue'[d][n] = d
  BY DEF NoStrayReply
<1>1. CASE d = c
  BY <1>1 DEF QueueOf
<1>2. CASE d # c
  <2>1. queue'[d] = queue[d]
    BY <1>2
  <2> QED
    BY <2>1 DEF NoStrayReply
<1> QED
  BY <1>1, <1>2

\* The steps of one process, and of the callback on its behalf.
LEMMA ClientStepInv ==
  ASSUME Inv, NEW c \in Client, ClientStep(c) \/ Kill(c) PROVE Inv'
<1>typ. TypeOK
  BY DEF Inv
<1>skt. SocketKept
  BY DEF Inv
<1>own. OwnsPort
  BY DEF Inv
<1>acc. Accounted
  BY DEF Inv
<1>nos. NoStrayReply
  BY DEF Inv
<1>que. QueueOf(c, queue[c])
  BY <1>typ, <1>nos DEF TypeOK, NoStrayReply, QueueOf
<1>num. /\ got[c] \in 0 .. 2 /\ lost[c] \in 0 .. 2 /\ i[c] \in 0 .. 2
        /\ Len(queue[c]) \in Nat
  BY <1>typ DEF TypeOK, Replies
<1> DEFINE Others ==
      \A d \in Client \ {c} :
         /\ client'[d] = client[d] /\ i'[d] = i[d] /\ got'[d] = got[d]
         /\ lost'[d] = lost[d] /\ queue'[d] = queue[d]
<1>1. CASE Socket(c)
  <2>1. port' \in {None} \cup {d \in Open' : client'[d] # "open"}
    BY <1>1, <1>typ DEF Socket, At, TypeOK, Open
  <2>2. TypeOK'
    BY <1>1, <1>typ, <2>1 DEF Socket, At, TypeOK, Replies, kvars
  <2>3. SocketKept'
    BY <1>1, <1>typ, <1>skt DEF Socket, At, TypeOK, SocketKept, Open, kvars
  <2>4. OwnsPort'
    BY <1>1, <1>typ, <1>own, NoneAssumption DEF Socket, At, TypeOK, OwnsPort, Open
  <2>5. Accounted'
    BY <1>1, <1>typ, <1>acc DEF Socket, At, TypeOK, Accounted, Replies
  <2>6. NoStrayReply'
    BY <1>1, <1>nos DEF Socket, NoStrayReply
  <2> QED
    BY <2>2, <2>3, <2>4, <2>5, <2>6 DEF Inv
<1>2. CASE Bind(c)
  <2>1. port' \in {None} \cup {d \in Open' : client'[d] # "open"}
    BY <1>2, <1>typ, <1>own DEF Bind, At, TypeOK, OwnsPort, Open
  <2>2. TypeOK'
    BY <1>2, <1>typ, <2>1 DEF Bind, At, TypeOK, kvars
  <2>3. SocketKept'
    BY <1>2, <1>typ, <1>skt DEF Bind, At, TypeOK, SocketKept, Open, kvars
  <2>4. OwnsPort'
    BY <1>2, <1>typ, <1>own, NoneAssumption DEF Bind, At, TypeOK, OwnsPort, Open
  <2>5. Accounted'
    BY <1>2, <1>typ, <1>acc DEF Bind, At, TypeOK, Accounted, Replies
  <2>6. NoStrayReply'
    BY <1>2, <1>nos DEF Bind, NoStrayReply
  <2> QED
    BY <2>2, <2>3, <2>4, <2>5, <2>6 DEF Inv
<1>3. CASE SendMsg(c)
  <2>1. port' \in {None} \cup {d \in Open' : client'[d] # "open"}
    BY <1>3, <1>typ DEF SendMsg, At, TypeOK, Open
  <2>2. TypeOK'
    <3>1. i' \in [Client -> 0 .. 2]
      BY <1>3, <1>typ DEF SendMsg, TypeOK, Replies
    <3> QED
      BY <1>3, <1>typ, <2>1, <3>1 DEF SendMsg, At, TypeOK, Replies, kvars
  <2>3. SocketKept'
    BY <1>3, <1>typ, <1>skt DEF SendMsg, At, TypeOK, SocketKept, Open, kvars
  <2>4. OwnsPort'
    BY <1>3, <1>typ, <1>own, NoneAssumption DEF SendMsg, At, TypeOK, OwnsPort, Open
  <2>5. Accounted'
    BY <1>3, <1>typ, <1>acc DEF SendMsg, At, TypeOK, Accounted, Replies
  <2>6. NoStrayReply'
    BY <1>3, <1>nos DEF SendMsg, NoStrayReply
  <2> QED
    BY <2>2, <2>3, <2>4, <2>5, <2>6 DEF Inv
<1>4. CASE SendReply(c)
  <2>1. port = c /\ i[c] > 0 /\ client[c] = "handling"
    BY <1>4, <1>own DEF SendReply, OwnsPort
  <2>2. i' = [i EXCEPT ![c] = i[c] - 1] /\ UNCHANGED <<kvars, port, got>>
    BY <1>4 DEF SendReply
  <2>3. client' = [client EXCEPT ![c] = IF i[c] = 1 THEN "receiving" ELSE "handling"]
    BY <1>4, <2>1 DEF SendReply
  <2>4. PICK q :
          /\ QueueOf(c, q) /\ queue' = [queue EXCEPT ![c] = q]
          /\ \/ Len(q) = Len(queue[c]) + 1 /\ lost' = [lost EXCEPT ![c] = lost[c]]
             \/ Len(q) = Len(queue[c]) /\ lost' = [lost EXCEPT ![c] = lost[c] + 1]
    <3>1. CASE UNCHANGED queue /\ lost' = [lost EXCEPT ![c] = lost[c] + 1]
      BY <1>que, <1>typ, <3>1 DEF TypeOK
    <3>2. ASSUME UNCHANGED lost,
                 queue' = [queue EXCEPT ![c] = Append(queue[c], c)]
          PROVE  \E q : /\ QueueOf(c, q) /\ queue' = [queue EXCEPT ![c] = q]
                        /\ Len(q) = Len(queue[c]) + 1
      BY <1>que, <3>2, QueueGrows
    <3>3. UNCHANGED lost => lost' = [lost EXCEPT ![c] = lost[c]]
      BY <1>typ DEF TypeOK
    <3> QED
      BY <1>4, <2>1, <3>1, <3>2, <3>3 DEF SendReply
  <2>5. got[c] + lost[c] + i[c] + Len(queue[c]) = 2
    BY <1>acc, <2>1 DEF Accounted, Replies
  <2>6. PICK l \in 0 .. 2 :
          /\ lost' = [lost EXCEPT ![c] = l]
          /\ got[c] + l + (i[c] - 1) + Len(q) = 2
    <3>1. CASE Len(q) = Len(queue[c]) + 1 /\ lost' = [lost EXCEPT ![c] = lost[c]]
      <4>1. got[c] + lost[c] + (i[c] - 1) + Len(q) = 2
        <5>1. Len(q) = Len(queue[c]) + 1
          BY <3>1
        <5>2. \A a, b, d \in 0 .. 2 : \A n \in Nat :
                a + b + d + n = 2 => a + b + (d - 1) + (n + 1) = 2
          OBVIOUS
        <5>3. got[c] + lost[c] + (i[c] - 1) + (Len(queue[c]) + 1) = 2
          BY <1>num, <2>5, <5>2
        <5> QED
          BY <5>1, <5>3
      <4> QED
        BY <1>num, <3>1, <4>1
    <3>2. CASE Len(q) = Len(queue[c]) /\ lost' = [lost EXCEPT ![c] = lost[c] + 1]
      <4>1. lost[c] + 1 \in 0 .. 2 /\ got[c] + (lost[c] + 1) + (i[c] - 1) + Len(q) = 2
        BY <1>num, <2>1, <2>5, <3>2
      <4> QED
        BY <3>2, <4>1
    <3> QED
      BY <2>4, <3>1, <3>2
  <2>7. Others
    BY <1>typ, <2>2, <2>3, <2>4, <2>6 DEF TypeOK
  <2>8. /\ queue'[c] = q /\ lost'[c] = l /\ got'[c] = got[c] /\ i'[c] = i[c] - 1
        /\ client'[c] = IF i[c] = 1 THEN "receiving" ELSE "handling"
    BY <1>typ, <2>2, <2>3, <2>4, <2>6 DEF TypeOK
  <2>9. SocketKept' /\ OwnsPort'
    BY <1>typ, <1>skt, <1>own, <2>1, <2>2, <2>3
       DEF TypeOK, SocketKept, OwnsPort, Open, kvars
  <2>10. NoStrayReply'
    BY <1>nos, <2>4, <2>7, <2>8, QueuesStay
  <2>11. TypeOK'
    <3>1. port' \in {None} \cup {d \in Open' : client'[d] # "open"}
      BY <2>1, <2>2, <2>8 DEF Open
    <3>2. i' \in [Client -> 0 .. 2]
      BY <1>typ, <1>num, <2>1, <2>2 DEF TypeOK, Replies
    <3>3. lost' \in [Client -> 0 .. 2]
      BY <1>typ, <2>6 DEF TypeOK, Replies
    <3>4. queue' \in [Client -> Seq(Client)]
      BY <1>typ, <2>4 DEF TypeOK, QueueOf
    <3> QED
      BY <1>typ, <2>2, <2>3, <3>1, <3>2, <3>3, <3>4
         DEF TypeOK, Replies, kvars
  <2>12. Accounted'
    <3>1. i[c] - 1 > 0 <=> client'[c] = "handling"
      BY <1>num, <2>1, <2>8
    <3> QED
      BY <1>acc, <2>1, <2>6, <2>7, <2>8, <3>1 DEF Accounted, Replies
  <2> QED
    BY <2>9, <2>10, <2>11, <2>12 DEF Inv
<1>5. CASE RecvMsg(c)
  <2>1. client[c] = "receiving" /\ i[c] = 0 /\ UNCHANGED <<kvars, i, lost>>
    BY <1>5, <1>acc, <1>num DEF RecvMsg, At, Accounted
  <2>2. got[c] + lost[c] + Len(queue[c]) = 2
    BY <1>acc, <1>num, <2>1 DEF Accounted, Replies
  <2>3. port = c
    BY <1>own, <2>1 DEF OwnsPort
  <2>4. CASE queue[c] # <<>> /\ UNCHANGED <<client, port>>
    <3>1. queue' = [queue EXCEPT ![c] = Tail(queue[c])] /\ got' = [got EXCEPT ![c] = got[c] + 1]
      BY <1>5, <2>4 DEF RecvMsg
    <3>2. /\ QueueOf(c, Tail(queue[c])) /\ Len(queue[c]) > 0
          /\ Len(Tail(queue[c])) = Len(queue[c]) - 1
      BY <1>que, <2>4, QueueShrinks
    <3>3. Others
      BY <1>typ, <2>1, <2>4, <3>1 DEF TypeOK
    <3>4. queue'[c] = Tail(queue[c]) /\ got'[c] = got[c] + 1
      BY <1>typ, <3>1 DEF TypeOK
    <3>5. got[c] + 1 \in 0 .. 2 /\ got[c] + 1 + lost[c] + Len(Tail(queue[c])) = 2
      BY <1>num, <2>2, <3>2
    <3>6. SocketKept' /\ OwnsPort'
      BY <1>skt, <1>own, <2>1, <2>4 DEF SocketKept, OwnsPort, Open, kvars
    <3>7. NoStrayReply'
      BY <1>nos, <3>2, <3>3, <3>4, QueuesStay
    <3>8. TypeOK'
      <4>1. got' \in [Client -> 0 .. 2]
        BY <1>typ, <3>1, <3>5 DEF TypeOK, Replies
      <4>2. queue' \in [Client -> Seq(Client)]
        BY <1>typ, <3>1, <3>2 DEF TypeOK, QueueOf
      <4> QED
        BY <1>typ, <2>1, <2>4, <4>1, <4>2 DEF TypeOK, Replies, Open, kvars
    <3>9. Accounted'
      <4>1. /\ client'[c] = "receiving" /\ i'[c] = 0
            /\ got'[c] + lost'[c] + i'[c] + Len(queue'[c]) = 2
        <5>1. lost'[c] = lost[c] /\ i'[c] = 0 /\ client'[c] = "receiving"
          BY <2>1, <2>4
        <5> QED
          BY <1>num, <3>2, <3>4, <3>5, <5>1
      <4>2. ~ (i'[c] > 0)
        BY <4>1
      <4> QED
        BY <1>acc, <3>3, <4>1, <4>2 DEF Accounted, Replies
    <3> QED
      BY <3>6, <3>7, <3>8, <3>9 DEF Inv
  <2>5. CASE queue[c] = <<>> /\ UNCHANGED <<queue, got>>
    <3>1. client' = [client EXCEPT ![c] = "done"] /\ port' = None
      BY <1>5, <2>5 DEF RecvMsg, At
    <3>2. SocketKept' /\ OwnsPort'
      BY <1>typ, <1>skt, <1>own, <2>1, <2>3, <3>1
         DEF TypeOK, SocketKept, OwnsPort, Open, kvars
    <3>3. NoStrayReply'
      BY <1>nos, <2>5 DEF NoStrayReply
    <3>4. TypeOK'
      BY <1>typ, <2>1, <2>5, <3>1 DEF TypeOK, kvars
    <3>5. Accounted'
      <4>1. got[c] + lost[c] = 2
        BY <1>num, <2>2, <2>5
      <4> QED
        BY <1>typ, <1>acc, <2>1, <2>5, <3>1, <4>1 DEF TypeOK, Accounted, Replies
    <3> QED
      BY <3>2, <3>3, <3>4, <3>5 DEF Inv
  <2> QED
    BY <1>5, <2>4, <2>5 DEF RecvMsg, At
<1>6. CASE Kill(c)
  <2>1. SocketKept' /\ OwnsPort'
    BY <1>6, <1>typ, <1>skt, <1>own, NoneAssumption
       DEF Kill, TypeOK, SocketKept, OwnsPort, Open, kvars
  <2>2. NoStrayReply'
    BY <1>6, <1>typ, <1>nos DEF Kill, TypeOK, NoStrayReply
  <2>3. port' \in {None} \cup {d \in Open' : client'[d] # "open"}
    BY <1>6, <1>typ DEF Kill, TypeOK, Open
  <2>4. TypeOK'
    <3>1. queue' \in [Client -> Seq(Client)]
      <4>1. <<>> \in Seq(Client)
        OBVIOUS
      <4> QED
        BY <1>6, <1>typ, <4>1 DEF Kill, TypeOK
    <3> QED
      BY <1>6, <1>typ, <2>3, <3>1 DEF Kill, TypeOK, kvars
  <2>5. Accounted'
    BY <1>6, <1>typ, <1>acc DEF Kill, TypeOK, Accounted
  <2> QED
    BY <2>1, <2>2, <2>4, <2>5 DEF Inv
<1>7. CASE SendMsgFails(c)
  <2>1. port' \in {None} \cup {d \in Open' : client'[d] # "open"}
    BY <1>7, <1>typ DEF SendMsgFails, At, TypeOK, Open
  <2>2. TypeOK'
    <3>1. lost' \in [Client -> 0 .. 2]
      BY <1>7, <1>typ DEF SendMsgFails, TypeOK, Replies
    <3> QED
      BY <1>7, <1>typ, <2>1, <3>1 DEF SendMsgFails, At, TypeOK, Replies, kvars
  <2>3. SocketKept'
    BY <1>7, <1>typ, <1>skt DEF SendMsgFails, At, TypeOK, SocketKept, Open, kvars
  <2>4. OwnsPort'
    BY <1>7, <1>typ, <1>own, NoneAssumption DEF SendMsgFails, At, TypeOK, OwnsPort, Open
  <2>5. Accounted'
    BY <1>7, <1>typ, <1>acc DEF SendMsgFails, At, TypeOK, Accounted, Replies
  <2>6. NoStrayReply'
    BY <1>7, <1>nos DEF SendMsgFails, NoStrayReply
  <2> QED
    BY <2>2, <2>3, <2>4, <2>5, <2>6 DEF Inv
<1> QED
  BY <1>1, <1>2, <1>3, <1>4, <1>5, <1>6, <1>7 DEF ClientStep

LEMMA Invariance == Spec => []Inv
<1>1. Inv /\ [Next]_vars => Inv'
  <2> SUFFICES ASSUME Inv, [Next]_vars PROVE Inv'
    OBVIOUS
  <2>1. CASE ModuleStep \/ Insmod \/ Rmmod
    BY <2>1, ModuleStepInv
  <2>2. ASSUME NEW c \in Client, ClientStep(c) \/ Kill(c) PROVE Inv'
    BY <2>2, ClientStepInv
  <2>3. CASE UNCHANGED vars
    BY <2>3 DEF vars, kvars, cvars, Inv, TypeOK, SocketKept, OwnsPort, Accounted,
       NoStrayReply, Open
  <2> QED
    BY <2>1, <2>2, <2>3 DEF Next
<1> QED
  BY <1>1, InitInv, PTL DEF Spec

\* The state is well typed; the port belongs to a process past its bind.
THEOREM TypeCorrect == Spec => []TypeOK
<1>1. Inv => TypeOK
  BY DEF Inv
<1> QED
  BY <1>1, Invariance, PTL

\* netlink_exit (nl.c:96-102) leaves nothing that leads to nl_data_ready.
THEOREM UnloadsClean == Spec => []CleanUnload
<1>1. Inv => CleanUnload
  BY DEF Inv, SocketKept, CleanUnload
<1> QED
  BY <1>1, Invariance, PTL

\* The loop of unl (unl.c:78-87) ends only when both replies are in.
THEOREM RepliesComplete == Spec => []AllRepliesRead
<1>1. Inv => AllRepliesRead
  BY DEF Inv, Accounted, AllRepliesRead
<1> QED
  BY <1>1, Invariance, PTL

\* A process that got past its bind (unl.c:35-40) reads its own replies only.
THEOREM RepliesToSender == Spec => []NoStrayReply
<1>1. Inv => NoStrayReply
  BY DEF Inv
<1> QED
  BY <1>1, Invariance, PTL

\* The callback keeps the life cycle of a module: the socket of the process
\* that it answers holds a reference to the module.
THEOREM KeepsModuleLife == Spec => LifeSpec
<1>1. Init => Life!Init
  BY DEF Init, Life!Init
<1>2. Inv /\ [Next]_vars => [Life!Next]_(Life!vars)
  <2> SUFFICES ASSUME Inv, [Next]_vars
               PROVE  Life!Next \/ UNCHANGED Life!vars
    OBVIOUS
  <2>1. CASE ModuleStep \/ Insmod \/ Rmmod
    <3>1. UNCHANGED cvars
      BY <2>1 DEF ModuleStep, Insmod, Rmmod, KernelCreate, KernelCreateFails,
         SetNlSk, NetlinkExit
    <3>2. module \in {"absent", "unloading"} => {c \in Client : i[c] > 0} = {}
      BY DEF Inv, SocketKept, Accounted, Open
    <3>3. \/ module' = module \/ (module = "absent" /\ module' = "loading")
          \/ (module = "loading" /\ module' = "live")
          \/ (module = "live" /\ module' = "unloading")
          \/ (module = "unloading" /\ module' = "absent")
      BY <2>1 DEF ModuleStep, Insmod, Rmmod, KernelCreate, KernelCreateFails,
         SetNlSk, NetlinkExit
    <3> QED
      BY <3>1, <3>2, <3>3 DEF cvars, Life!Next, Life!Load, Life!Loaded, Life!Unload,
         Life!Free, Life!Stage, Life!vars
  <2>2. ASSUME NEW c \in Client, SendMsg(c) PROVE Life!Start(c)
    <3>1. module \in {"loading", "live"}
      BY <2>2 DEF Inv, TypeOK, SocketKept, Open, SendMsg, At
    <3> QED
      BY <2>2, <3>1 DEF Inv, TypeOK, SendMsg, Life!Start, Replies, kvars
  <2>3. ASSUME NEW c \in Client, SendReply(c)
        PROVE  Life!Finish(c) \/ UNCHANGED Life!vars
    BY <2>3 DEF Inv, TypeOK, SendReply, Life!Finish, Life!vars, kvars
  <2>4. ASSUME NEW c \in Client, Socket(c) \/ Bind(c) \/ SendMsgFails(c) \/ RecvMsg(c) \/ Kill(c)
        PROVE  UNCHANGED Life!vars
    BY <2>4 DEF Socket, Bind, SendMsgFails, RecvMsg, Kill, Life!vars, kvars
  <2>5. CASE UNCHANGED vars
    BY <2>5 DEF vars, kvars, cvars, Life!vars
  <2> QED
    BY <2>1, <2>2, <2>3, <2>4, <2>5 DEF Next, ClientStep, Life!Next
<1> QED
  BY <1>1, <1>2, Invariance, PTL DEF Spec, LifeSpec, Life!Spec
==============================================================================
