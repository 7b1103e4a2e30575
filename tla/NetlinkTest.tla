----------------------------- MODULE NetlinkTest -----------------------------
(***************************************************************************)
(* kmods/netlink: the kernel module nl.c and its user program unl.c.  The  *)
(* module answers each message with two replies from its input callback,   *)
(* which runs inside the sender's sendmsg; unl then reads its socket       *)
(* without blocking until it is empty.  Every unl uses port 100.           *)
(***************************************************************************)
EXTENDS Naturals, Sequences

CONSTANTS
  Client,   \* the unl processes
  None      \* no process

ASSUME NoneAssumption == None \notin Client

VARIABLES
  module,      \* life of nl.ko
  nl_sk,       \* nl_sk is set
  registered,  \* netlink unit 25 leads to nl_data_ready
  client,      \* where each unl stands
  port,        \* the process whose socket is bound to port 100
  i,           \* replies nl_data_ready has still to send to a client
  queue,       \* a client's receive queue: the senders that are answered
  got, lost    \* replies received by unl, and replies never sent

kvars == <<module, nl_sk, registered>>
cvars == <<client, port, i, queue, got, lost>>
vars  == <<kvars, cvars>>

Replies == 2    \* int i=2
Open == {c \in Client : client[c] \in {"open", "bound", "handling", "receiving"}}

Init ==
  /\ module = "absent" /\ nl_sk = FALSE /\ registered = FALSE
  /\ client = [c \in Client |-> "new"] /\ port = None
  /\ i = [c \in Client |-> 0]
  /\ queue = [c \in Client |-> <<>>]
  /\ got = [c \in Client |-> 0] /\ lost = [c \in Client |-> 0]

-----------------------------------------------------------------------------
(* nl.c: netlink_init and netlink_exit *)

Insmod ==
  /\ module = "absent" /\ module' = "loading"
  /\ UNCHANGED <<nl_sk, registered, cvars>>

\* netlink_kernel_create registers the unit before nl_sk is assigned.
KernelCreate ==
  /\ module = "loading" /\ ~ registered
  /\ registered' = TRUE
  /\ UNCHANGED <<module, nl_sk, cvars>>

\* The kernel refuses a module only on a negative result: 1 loads it.
KernelCreateFails ==
  /\ module = "loading" /\ ~ registered
  /\ module' = "live"
  /\ UNCHANGED <<nl_sk, registered, cvars>>

SetNlSk ==
  /\ module = "loading" /\ registered
  /\ nl_sk' = TRUE /\ module' = "live"
  /\ UNCHANGED <<registered, cvars>>

\* An open netlink socket holds a reference to the module.
Rmmod ==
  /\ module = "live" /\ Open = {} /\ module' = "unloading"
  /\ UNCHANGED <<nl_sk, registered, cvars>>

\* Mutant: the kernel socket is not released.
ExitKeepsSocket ==
  /\ module = "unloading" /\ module' = "absent"
  /\ nl_sk' = FALSE
  /\ UNCHANGED <<registered, cvars>>

NetlinkExit ==
  /\ module = "unloading" /\ module' = "absent"
  /\ registered' = IF nl_sk THEN FALSE ELSE registered
  /\ nl_sk' = FALSE
  /\ UNCHANGED cvars

-----------------------------------------------------------------------------
(* unl.c: main, and nl_data_ready in its sendmsg *)

At(c, from, to) == client[c] = from /\ client' = [client EXCEPT ![c] = to]

\* socket() finds the unit and takes a reference, or unl returns -1.
Socket(c) ==
  /\ \/ registered /\ module \in {"loading", "live"} /\ At(c, "new", "open")
     \/ ~ (registered /\ module \in {"loading", "live"}) /\ At(c, "new", "failed")
  /\ UNCHANGED <<kvars, port, i, queue, got, lost>>

\* Mutant: unl goes on when bind fails.
BindUnchecked(c) ==
  /\ At(c, "open", "bound")
  /\ port' = IF port = None THEN c ELSE port
  /\ UNCHANGED <<kvars, i, queue, got, lost>>

\* bind fails when the port is in use; malloc may fail after it.
Bind(c) ==
  /\ \/ port = None /\ port' = c /\ At(c, "open", "bound")
     \/ UNCHANGED port /\ At(c, "open", "failed")
  /\ UNCHANGED <<kvars, i, queue, got, lost>>

SendMsg(c) ==
  /\ At(c, "bound", "handling")
  /\ i' = [i EXCEPT ![c] = Replies]
  /\ UNCHANGED <<kvars, port, queue, got, lost>>

\* sendmsg may fail before the callback runs; unl goes on to receive all the same.
SendMsgFails(c) ==
  /\ At(c, "bound", "receiving")
  /\ lost' = [lost EXCEPT ![c] = Replies]
  /\ UNCHANGED <<kvars, port, i, queue, got>>

\* Mutant: sendmsg only queues the message and returns.
SendReplyLater(c) ==
  /\ client[c] \in {"handling", "receiving"} /\ i[c] > 0
  /\ i' = [i EXCEPT ![c] = @ - 1]
  /\ client' = [client EXCEPT ![c] = "receiving"]
  /\ queue' = [queue EXCEPT ![port] = Append(@, c)]
  /\ UNCHANGED <<kvars, port, got, lost>>

\* One iteration of nl_data_ready: msleep, then sendnlmsg to nlmsg_pid, which
\* is port 100.  No reply without nl_sk or when alloc_skb fails.
SendReply(c) ==
  /\ client[c] = "handling" /\ i[c] > 0
  /\ i' = [i EXCEPT ![c] = @ - 1]
  /\ client' = [client EXCEPT ![c] = IF i[c] = 1 THEN "receiving" ELSE @]
  /\ \/ /\ nl_sk /\ port # None
        /\ queue' = [queue EXCEPT ![port] = Append(@, c)]
        /\ UNCHANGED lost
     \/ lost' = [lost EXCEPT ![c] = @ + 1] /\ UNCHANGED queue
  /\ UNCHANGED <<kvars, port, got>>

\* Mutant: recvmsg without MSG_DONTWAIT.
RecvBlocks(c) ==
  /\ client[c] = "receiving" /\ queue[c] # <<>>
  /\ queue' = [queue EXCEPT ![c] = Tail(@)]
  /\ got' = [got EXCEPT ![c] = @ + 1]
  /\ UNCHANGED <<kvars, client, port, i, lost>>

\* recvmsg with MSG_DONTWAIT, until it fails and unl returns 1.
RecvMsg(c) ==
  /\ \/ /\ client[c] = "receiving" /\ queue[c] # <<>>
        /\ queue' = [queue EXCEPT ![c] = Tail(@)]
        /\ got' = [got EXCEPT ![c] = @ + 1]
        /\ UNCHANGED <<client, port>>
     \/ /\ queue[c] = <<>> /\ At(c, "receiving", "done")
        /\ port' = None
        /\ UNCHANGED <<queue, got>>
  /\ UNCHANGED <<kvars, i, lost>>

\* unl is killed; msleep in the callback is not interrupted.
Kill(c) ==
  /\ client[c] \in {"open", "bound", "receiving"}
  /\ client' = [client EXCEPT ![c] = "failed"]
  /\ port' = IF port = c THEN None ELSE port
  /\ queue' = [queue EXCEPT ![c] = <<>>]
  /\ UNCHANGED <<kvars, i, got, lost>>

-----------------------------------------------------------------------------
ModuleStep == KernelCreate \/ KernelCreateFails \/ SetNlSk \/ NetlinkExit
ClientStep(c) ==
  \/ Socket(c) \/ Bind(c) \/ SendMsg(c) \/ SendMsgFails(c)
  \/ SendReply(c) \/ RecvMsg(c)

Next ==
  \/ ModuleStep \/ Insmod \/ Rmmod
  \/ \E c \in Client : ClientStep(c) \/ Kill(c)

\* A started insmod, rmmod or unl is run; nobody has to start them.
Spec ==
  /\ Init /\ [][Next]_vars
  /\ WF_vars(ModuleStep) /\ \A c \in Client : WF_vars(ClientStep(c))
-----------------------------------------------------------------------------
\* Types; the port belongs to a process past its bind.
TypeOK ==
  /\ module \in {"absent", "loading", "live", "unloading"}
  /\ nl_sk \in BOOLEAN /\ registered \in BOOLEAN
  /\ client \in [Client -> {"new", "open", "bound", "handling", "receiving",
                            "done", "failed"}]
  /\ port \in {None} \cup {c \in Open : client[c] # "open"}
  /\ i \in [Client -> 0 .. Replies]
  /\ queue \in [Client -> Seq(Client)]
  /\ got \in [Client -> 0 .. Replies] /\ lost \in [Client -> 0 .. Replies]

\* Once the module is gone nothing leads to its callback, and it never goes
\* under a process that has a socket of its unit.
CleanUnload ==
  /\ module = "absent" => ~ registered
  /\ module \in {"absent", "unloading"} => Open = {}

\* unl ends with both replies, less those that were never sent: its
\* non-blocking receive does not overtake the callback.
AllRepliesRead ==
  \A c \in Client : client[c] = "done" => got[c] + lost[c] = Replies

\* Although all use port 100, a process only gets replies to its own message.
NoStrayReply ==
  \A c \in Client : \A n \in DOMAIN queue[c] : queue[c][n] = c

\* A process that starts ends by itself.
ClientEnds == \A c \in Client : (client[c] = "open") ~> (client[c] \in {"done", "failed"})
-----------------------------------------------------------------------------
\* A process runs nl_data_ready only in sendmsg: the module's life.
Life == INSTANCE ModuleLife WITH
  Agent <- Client, stage <- module,
  running <- {c \in Client : i[c] > 0}
LifeSpec == Life!Spec
==============================================================================
