------------------------------ MODULE Passive ------------------------------
(***************************************************************************)
(* passive::Passive on every rank: the thread that receives passive        *)
(* messages, the matching of tagged sends and receives, and the messages   *)
(* that it hands to a user thread.                                         *)
(*                                                                         *)
(* Each rank has a user thread and a passive thread.  cont[t] is the code  *)
(* that thread t has still to run, a sequence of the operations below, and *)
(* each action runs the operation at its head.  A critical section and a   *)
(* call of GASPI is one operation each; what one thread does on its own    *)
(* memory is part of the operation next to it.                             *)
(***************************************************************************)
EXTENDS Naturals, Sequences, Functions

CONSTANTS
  N,               \* number of ranks
  SpuriousWakeups  \* whether pthread_cond_wait may return without a signal

VARIABLES
  cont,     \* cont[t]: rest of the code of thread t
  eager,    \* whether gaspi_passive_send returns before its message is received
  inbox,    \* inbox[r][s]: passive messages from s that r has not received
  srcTargetBuffers, rcvTargetBuffers,  \* per rank: the two maps, as sets of entries
  transit,  \* writes and notifications under way
  notified, \* buffers whose notification is set
  memory,   \* memory[b]: content of buffer b
  live,     \* buffers that are allocated
  bool,     \* bool[r]: passive_fwd_recv_bool_
  waiting,  \* waiting[r]: threads in pthread_cond_wait on passive_fwd_recv_cond_
  msg,      \* msg[r]: passive_msg_rank_ and passive_msg_ptr_, NoMessage if null
  thrown,   \* threads that left an operation with an exception
  got       \* got[r]: what r's user thread has received, in order

maps == <<srcTargetBuffers, rcvTargetBuffers>>
network == <<inbox, transit, notified, memory, live>>
forward == <<bool, waiting, msg>>
passiveVars == <<cont, eager, maps, network, forward, thrown, got>>

Ranks == 0 .. N - 1
user(r) == <<"user", r>>
passive(r) == <<"passive", r>>
Threads == {"user", "passive"} \X Ranks

(* Buffers and data are named by their rank, a kind and a number.  The     *)
(* buffers of a kind that a rank may have at the same time are numbered    *)
(* from 0; a number is used again like the memory that it stands for.      *)
Buffer(r, kind, k) == [rank |-> r, name |-> <<kind, k>>]
Buffers == {Buffer(r, kind, k) : r \in Ranks, k \in Ranks,
                                 kind \in {"send", "recv", "source", "target"}}
             \cup {Buffer(r, kind, 0) : r \in Ranks, kind \in {"temp", "request"}}

(* A notification without data. *)
NoData == [rank |-> 0, name |-> <<"none", 0>>]
NoMessage == [rank |-> 0, buffer |-> NoData]
Request(r) == Buffer(r, "request", 0)

(* The operations; new are buffers that are allocated on the way to one.   *)
ISend(to, tag, b, data, new) ==
  [op |-> "isend", rank |-> to, tag |-> tag, buffer |-> b, data |-> data, new |-> new]
IRecv(from, tag, b) == [op |-> "irecv", rank |-> from, tag |-> tag, buffer |-> b]
RcvDesc(from, tag, b) == [op |-> "rcvdesc", rank |-> from, tag |-> tag, buffer |-> b]
Send(to, m, new) == [op |-> "send", rank |-> to, message |-> m, new |-> new]
Sent(to) == [op |-> "sent", rank |-> to]
Write(data, to, new) == [op |-> "write", data |-> data, buffer |-> to, new |-> new]
WriteTo(data, described, kind) ==
  [op |-> "writeto", data |-> data, buffer |-> described, kind |-> kind, new |-> {}]
Wait(b, read, freed) == [op |-> "wait", buffer |-> b, read |-> read, freed |-> freed]
Read(bs) == [op |-> "read", buffers |-> bs]
Publish(from) == [op |-> "publish", rank |-> from]
Meet == [op |-> "meet"]
Woken == [op |-> "woken"]
Copy == [op |-> "copy"]
Join == [op |-> "join"]
Exit == [op |-> "exit"]

(* An exception ends the user's code; in the passive thread nothing        *)
(* catches it and the process is terminated.                               *)
Stopped(t) == t \in thrown \/ passive(t[2]) \in thrown
Runs(t, op) == ~Stopped(t) /\ cont[t] # <<>> /\ Head(cont[t]).op = op
Continue(t, ops) == cont' = [cont EXCEPT ![t] = ops \o Tail(@)]
Return(t) == Continue(t, <<>>)
Throw(t) == thrown' = thrown \cup {t} /\ UNCHANGED cont

(* iSendRecvComm: the data, then a notification to the sender itself. *)
iSendRecvComm(src, data, rcv) == <<Write(data, rcv, {}), Write(NoData, src, {})>>

(* Faulty variant: one barrier only. *)
recvMessg_OneBarrier == <<Meet, Copy>>

(* The user's API as code: sendMessg, recvMessg and finish. *)
sendMessg(r, to, data) ==
  LET temp == Buffer(r, "temp", 0)
  IN << Send(to, [tag |-> "DATE", buffer |-> temp], {temp}),
        Wait(temp, FALSE, {temp}),
        WriteTo(data, temp, "request") >>

recvMessg == <<Meet, Copy, Meet>>

finish(r) == <<Send(r, [tag |-> "FNSH", buffer |-> NoData], {}), Join>>

(* Faulty variant: the passive thread goes on after the first barrier. *)
Handler_OneBarrier(r, s, m) ==
  CASE m.tag = "FNSH" -> <<Exit>>
    [] m.tag = "RTBD" -> <<RcvDesc(s, m.key, m.buffer)>>
    [] m.tag = "DATE" ->
         <<Write(Request(r), m.buffer, {Request(r)}), Publish(s), Meet>>

(* What passive_thread_func_ does with a message from s. *)
Handler(r, s, m) ==
  CASE m.tag = "FNSH" -> <<Exit>>
    [] m.tag = "RTBD" -> <<RcvDesc(s, m.key, m.buffer)>>
    [] m.tag = "DATE" ->
         <<Write(Request(r), m.buffer, {Request(r)}), Publish(s), Meet, Meet>>

PassiveInit ==
  /\ eager \in BOOLEAN
  /\ inbox = [r \in Ranks |-> [s \in Ranks |-> <<>>]]
  /\ srcTargetBuffers = [r \in Ranks |-> {}]
  /\ rcvTargetBuffers = [r \in Ranks |-> {}]
  /\ transit = {} /\ notified = {} /\ live = {} /\ thrown = {}
  /\ memory = [b \in Buffers |-> NoData]
  /\ bool = [r \in Ranks |-> FALSE]
  /\ waiting = [r \in Ranks |-> {}]
  /\ msg = [r \in Ranks |-> NoMessage]
  /\ got = [r \in Ranks |-> <<>>]
-----------------------------------------------------------------------------
(* handleTaggedSrcBufferDesc and handleTaggedRcvBufferDesc: under the      *)
(* mutex, take a waiting entry with the same key or leave one's own.  The  *)
(* transfer is made after the unlock.  std::map does not insert a key      *)
(* twice: the second one throws.                                           *)
Matching(entries, c) == {e \in entries : e.tag = c.tag /\ e.rank = c.rank}
Entry(c) == [tag |-> c.tag, rank |-> c.rank, buffer |-> c.buffer]

handleTaggedSrcBufferDesc(t, c) ==
  LET r == t[2]
      found == Matching(rcvTargetBuffers[r], c)
  IN \/ \E e \in found :
          /\ rcvTargetBuffers' = [rcvTargetBuffers EXCEPT ![r] = @ \ {e}]
          /\ Continue(t, iSendRecvComm(c.buffer, c.data, e.buffer))
          /\ UNCHANGED <<srcTargetBuffers, thrown>>
     \/ /\ found = {} /\ Matching(srcTargetBuffers[r], c) = {}
        /\ srcTargetBuffers' = [srcTargetBuffers EXCEPT ![r] = @ \cup {Entry(c)}]
        /\ Return(t)
        /\ UNCHANGED <<rcvTargetBuffers, thrown>>
     \/ /\ found = {} /\ Matching(srcTargetBuffers[r], c) # {}
        /\ Throw(t) /\ UNCHANGED maps

handleTaggedRcvBufferDesc(t, c) ==
  LET r == t[2]
      found == Matching(srcTargetBuffers[r], c)
  IN \/ \E e \in found :
          /\ srcTargetBuffers' = [srcTargetBuffers EXCEPT ![r] = @ \ {e}]
          /\ Continue(t, iSendRecvComm(e.buffer, memory[e.buffer], c.buffer))
          /\ UNCHANGED <<rcvTargetBuffers, thrown>>
     \/ /\ found = {} /\ Matching(rcvTargetBuffers[r], c) = {}
        /\ rcvTargetBuffers' = [rcvTargetBuffers EXCEPT ![r] = @ \cup {Entry(c)}]
        /\ Return(t)
        /\ UNCHANGED <<srcTargetBuffers, thrown>>
     \/ /\ found = {} /\ Matching(rcvTargetBuffers[r], c) # {}
        /\ Throw(t) /\ UNCHANGED maps

(* iSendTagMessg of a buffer that has just been allocated and filled. *)
iSendTagMessg(t) ==
  LET c == Head(cont[t])
  IN /\ Runs(t, "isend")
     /\ live' = live \cup {c.buffer} \cup c.new
     /\ memory' = [memory EXCEPT ![c.buffer] = c.data]
     /\ handleTaggedSrcBufferDesc(t, c)
     /\ UNCHANGED <<eager, inbox, transit, notified, forward, got>>

(* sendPassive: a blocking send.  The standard lets it return before the   *)
(* message is received, or not.                                            *)
sendPassive(t, to, m) ==
  /\ inbox' = [inbox EXCEPT ![to][t[2]] = Append(@, m)]
  /\ Continue(t, IF eager THEN <<>> ELSE <<Sent(to)>>)

(* iRecvTagMessg into a buffer that has just been allocated: the other     *)
(* rank is told about it, or it is matched here if the rank is one's own.  *)
iRecvTagMessg(t) ==
  LET c == Head(cont[t])
  IN /\ Runs(t, "irecv")
     /\ live' = live \cup {c.buffer}
     /\ \/ /\ c.rank # t[2]
           /\ sendPassive(t, c.rank, [tag |-> "RTBD", key |-> c.tag, buffer |-> c.buffer])
           /\ UNCHANGED <<maps, thrown>>
        \/ /\ c.rank = t[2]
           /\ handleTaggedRcvBufferDesc(t, c)
           /\ UNCHANGED inbox
     /\ UNCHANGED <<eager, transit, notified, memory, forward, got>>

SendMessage(t) ==
  /\ Runs(t, "send")
  /\ sendPassive(t, Head(cont[t]).rank, Head(cont[t]).message)
  /\ live' = live \cup Head(cont[t]).new
  /\ UNCHANGED <<eager, maps, transit, notified, memory, forward, thrown, got>>

SendReturns(t) ==
  /\ Runs(t, "sent")
  /\ inbox[Head(cont[t]).rank][t[2]] = <<>>
  /\ Return(t)
  /\ UNCHANGED <<eager, maps, network, forward, thrown, got>>

(* passive_thread_func_: the next message of any sender.  The messages of  *)
(* one sender come in their order.                                         *)
recvPassive(r) ==
  /\ cont[passive(r)] = <<>> /\ ~Stopped(passive(r))
  /\ \E s \in Ranks :
       /\ inbox[r][s] # <<>>
       /\ inbox' = [inbox EXCEPT ![r][s] = Tail(@)]
       /\ cont' = [cont EXCEPT ![passive(r)] = Handler(r, s, Head(inbox[r][s]))]
  /\ UNCHANGED <<eager, maps, transit, notified, memory, live, forward, thrown, got>>

HandleRcvBufferDesc(t) ==
  /\ Runs(t, "rcvdesc")
  /\ handleTaggedRcvBufferDesc(t, Head(cont[t]))
  /\ UNCHANGED <<eager, network, forward, got>>

(* CommunicationContext::write or notify: to a buffer that is known, or to *)
(* the one of the given kind in the description that a buffer holds.       *)
Target(c) ==
  IF c.op = "write" THEN c.buffer
  ELSE Buffer(memory[c.buffer].rank, c.kind, memory[c.buffer].name[2])

WriteNotify(t) ==
  LET c == Head(cont[t])
  IN /\ Runs(t, "write") \/ Runs(t, "writeto")
     /\ transit' = transit \cup {[to |-> Target(c), data |-> c.data]}
     /\ live' = live \cup c.new
     /\ Return(t)
     /\ UNCHANGED <<eager, maps, inbox, notified, memory, forward, thrown, got>>

(* GASPI: a write lands, its notification with it. *)
Land(w) ==
  /\ w \in transit
  /\ transit' = transit \ {w}
  /\ notified' = notified \cup {w.to}
  /\ memory' = IF w.data = NoData THEN memory ELSE [memory EXCEPT ![w.to] = w.data]
  /\ UNCHANGED <<cont, eager, maps, inbox, live, forward, thrown, got>>

Received(b) == [from |-> b, value |-> memory[b]]

(* waitForNotification: wait and reset; then buffers may be released. *)
WaitForNotification(t) ==
  LET c == Head(cont[t])
  IN /\ Runs(t, "wait")
     /\ c.buffer \in notified
     /\ notified' = notified \ {c.buffer}
     /\ live' = live \ c.freed
     /\ got' = IF c.read THEN [got EXCEPT ![t[2]] = Append(@, Received(c.buffer))]
               ELSE got
     /\ Return(t)
     /\ UNCHANGED <<eager, maps, inbox, transit, memory, forward, thrown>>

(* The user looks at its memory. *)
Look(t) ==
  LET bs == Head(cont[t]).buffers
  IN /\ Runs(t, "read")
     /\ got' = [got EXCEPT ![t[2]] = @ \o [i \in 1 .. Len(bs) |-> Received(bs[i])]]
     /\ Return(t)
     /\ UNCHANGED <<eager, maps, network, forward, thrown>>
-----------------------------------------------------------------------------
(* The passive thread sets passive_msg_rank_, passive_msg_ptr_. *)
PublishMessage(t) ==
  /\ Runs(t, "publish")
  /\ msg' = [msg EXCEPT ![t[2]] = [rank |-> Head(cont[t]).rank, buffer |-> Request(t[2])]]
  /\ Return(t)
  /\ UNCHANGED <<eager, maps, network, bool, waiting, thrown, got>>

(* pthread_cond_signal wakes one waiting thread, if there is one. *)
Signalled(r) == IF waiting[r] = {} THEN {{}} ELSE {{u} : u \in waiting[r]}

(* The two thread barrier: the first waits, the second signals. *)
Arrive(t) ==
  LET r == t[2]
  IN /\ Runs(t, "meet")
     /\ bool' = [bool EXCEPT ![r] = ~@]
     /\ \/ /\ ~bool[r]
           /\ waiting' = [waiting EXCEPT ![r] = @ \cup {t}]
           /\ Continue(t, <<Woken>>)
        \/ /\ bool[r]
           /\ \E woken \in Signalled(r) : waiting' = [waiting EXCEPT ![r] = @ \ woken]
           /\ Return(t)
     /\ UNCHANGED <<eager, maps, network, msg, thrown, got>>

(* pthread_cond_wait returns; the code does not test bool again. *)
Wake(t) ==
  /\ Runs(t, "woken")
  /\ SpuriousWakeups \/ t \notin waiting[t[2]]
  /\ waiting' = [waiting EXCEPT ![t[2]] = @ \ {t}]
  /\ Return(t)
  /\ UNCHANGED <<eager, maps, network, bool, msg, thrown, got>>

(* recvMessg between its barriers: wait for the data, copy, release. *)
CopyMessage(t) ==
  LET r == t[2]
      m == msg[r]
  IN /\ Runs(t, "copy")
     /\ m # NoMessage /\ m.buffer \in notified
     /\ notified' = notified \ {m.buffer}
     /\ live' = live \ {m.buffer}
     /\ msg' = [msg EXCEPT ![r] = NoMessage]
     /\ got' = [got EXCEPT ![r] = Append(@, [from |-> Buffer(m.rank, "request", 0),
                                             value |-> memory[m.buffer]])]
     /\ Return(t)
     /\ UNCHANGED <<eager, maps, inbox, transit, memory, bool, waiting, thrown>>

(* pthread_join of the passive thread, which has left its loop. *)
JoinPassiveThread(t) ==
  /\ Runs(t, "join")
  /\ cont[passive(t[2])] = <<Exit>>
  /\ Return(t)
  /\ UNCHANGED <<eager, maps, network, forward, thrown, got>>

Step(t) ==
  \/ iSendTagMessg(t) \/ iRecvTagMessg(t) \/ SendMessage(t) \/ SendReturns(t)
  \/ HandleRcvBufferDesc(t) \/ WriteNotify(t)
  \/ WaitForNotification(t) \/ Look(t) \/ PublishMessage(t)
  \/ Arrive(t) \/ Wake(t) \/ CopyMessage(t)
  \/ JoinPassiveThread(t)

PassiveNext ==
  \/ \E t \in Threads : Step(t)
  \/ \E r \in Ranks : recvPassive(r)
  \/ \E w \in transit : Land(w)
-----------------------------------------------------------------------------
(* All state has its type; the entries of each map have different keys, as *)
(* in std::map, and no more than a condition variable's two users wait.    *)
PassiveTypeOK ==
  /\ eager \in BOOLEAN
  /\ \A r \in Ranks :
       /\ \A m \in {srcTargetBuffers[r], rcvTargetBuffers[r]} :
            /\ {e.buffer : e \in m} \subseteq Buffers
            /\ \A e, f \in m : <<e.tag, e.rank>> = <<f.tag, f.rank>> => e = f
       /\ bool[r] \in BOOLEAN
       /\ waiting[r] \subseteq {user(r), passive(r)}
       /\ msg[r].rank \in Ranks
       /\ msg[r].buffer \in {NoData, Request(r)}
  /\ notified \subseteq Buffers /\ live \subseteq Buffers
  /\ {w.to : w \in transit} \subseteq Buffers
  /\ DOMAIN memory = Buffers
  /\ thrown \subseteq Threads

(* Buffers that passive messages, the maps or the passive threads refer to. *)
InMessages == {m.buffer : m \in UNION {Range(inbox[r][s]) : r \in Ranks, s \in Ranks}}
InMaps == {e.buffer : e \in UNION {srcTargetBuffers[r] \cup rcvTargetBuffers[r] : r \in Ranks}}
InHandlers == {c.buffer : c \in {d \in UNION {Range(cont[passive(r)]) : r \in Ranks} :
                                    d.op \in {"write", "rcvdesc"}}}
Referenced == (InMessages \cup InMaps \cup InHandlers) \ {NoData}

(* A buffer is released only when nobody will write to it or signal it any *)
(* more, and no notification stays behind for its next owner; a signal     *)
(* never lands on one that has not been consumed.                          *)
NoStraySignal ==
  /\ Referenced \cup {w.to : w \in transit} \cup notified \subseteq live
  /\ \A w \in transit : w.to \notin notified
  /\ \A v, w \in transit : v.to = w.to => v = w

(* The two thread barrier: recvMessg reads what the passive thread has     *)
(* published, and the passive thread does not go on before it has.         *)
BarrierHolds ==
  \A r \in Ranks : Runs(user(r), "copy") =>
    /\ msg[r] # NoMessage
    /\ cont[passive(r)] \in {<<Woken, Meet>>, <<Meet>>, <<Woken>>}

(* finish: once the passive thread has left its loop, no message and no    *)
(* description is left that somebody counts on.                            *)
NoMessageLost ==
  \A r \in Ranks : cont[passive(r)] = <<Exit>> =>
    /\ \A s \in Ranks : inbox[r][s] = <<>>
    /\ srcTargetBuffers[r] = {} /\ rcvTargetBuffers[r] = {}
=============================================================================
