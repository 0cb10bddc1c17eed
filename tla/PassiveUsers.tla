---------------------------- MODULE PassiveUsers ----------------------------
(***************************************************************************)
(* What the library does with Passive, as code of the user threads: the    *)
(* connection of endpoints, the blocking Allgather and Alltoall, and       *)
(* messages from rank to rank.  The application picks a scenario; every    *)
(* rank runs its code and then destroys its Passive.  (Runtime calls a     *)
(* barrier before it does so; nothing below needs it.)                     *)
(***************************************************************************)
EXTENDS Passive, FiniteSets, SequencesExt

VARIABLE scenario

vars == <<scenario, passiveVars>>

(* Faulty variant: the same tag in both directions. *)
recvTag_AsSend(e) == 3 * e.tag + (CASE e.type = "SOURCE" -> 1 [] e.type = "TARGET" -> 2
                                    [] e.type = "GENERIC" -> 0)

(* Faulty variant: sources and targets use the same tag. *)
sendTag_Shared(e) == 3 * e.tag

(* connectToRemotePartner sends the description of endpoint e under one    *)
(* tag and asks for that of its partner under another.                     *)
sendTag(e) == 3 * e.tag + (CASE e.type = "SOURCE" -> 1 [] e.type = "TARGET" -> 2
                             [] e.type = "GENERIC" -> 0)
recvTag(e) == 3 * e.tag + (CASE e.type = "SOURCE" -> 2 [] e.type = "TARGET" -> 1
                             [] e.type = "GENERIC" -> 0)

(* Endpoint number k of rank r.  The buffers of a handle that has been     *)
(* destroyed may be allocated again: slot is their place.                  *)
Endpoint(r, k, type, partner, tag, slot) ==
  [rank |-> r, k |-> k, type |-> type, partner |-> partner, tag |-> tag, slot |-> slot]

connectToRemotePartner(e) ==
  << ISend(e.partner, sendTag(e), Buffer(e.rank, "send", e.slot),
           Buffer(e.rank, "endpoint", e.k), {}),
     IRecv(e.partner, recvTag(e), Buffer(e.rank, "recv", e.slot)) >>

(* Faulty variant: does not wait until its own description has been sent. *)
waitForCompletion_RecvOnly(e) ==
  LET send == Buffer(e.rank, "send", e.slot)
      recv == Buffer(e.rank, "recv", e.slot)
  IN <<Wait(recv, TRUE, {send, recv})>>

(* ConnectHandle::waitForCompletion, and the destruction of the handle. *)
waitForCompletion(e) ==
  LET send == Buffer(e.rank, "send", e.slot)
      recv == Buffer(e.rank, "recv", e.slot)
  IN <<Wait(recv, TRUE, {}), Wait(send, FALSE, {send, recv})>>

(* for( i = 0; i < n; ++i ) *)
ForEach(n, Code(_)) == FlattenSeq([i \in 1 .. n |-> Code(i - 1)])

(* The blocking collectives of the group of ranks 0 .. n - 1: exchange     *)
(* descriptions with every rank i, write block[i] to i, acknowledge what   *)
(* comes from i.                                                           *)
Exchange(n, r, block) ==
  LET source(i) == Buffer(r, "source", i)
      target(i) == Buffer(r, "target", i)
      send(i) == Buffer(r, "send", i)
      recv(i) == Buffer(r, "recv", i)
      Offer(i) == << ISend(i, r, send(i), Buffer(r, "description", i),
                           {source(i), target(i)}),
                     IRecv(i, i, recv(i)) >>
      Put(i) == << Wait(recv(i), FALSE, {recv(i)}),
                   WriteTo(block[i], recv(i), "target") >>
      Take(i) == << Wait(target(i), FALSE, {target(i)}),
                    WriteTo(NoData, recv(i), "source") >>
      Clean(i) == << Wait(source(i), FALSE, {source(i)}),
                     Wait(send(i), FALSE, {send(i)}) >>
  IN ForEach(n, Offer) \o ForEach(n, Put) \o ForEach(n, Take) \o ForEach(n, Clean)
     \o <<Read([i \in 1 .. n |-> target(i - 1)])>>

(* Block that r gives to rank i in its call number c. *)
Block(r, c, i) == Buffer(r, "block", 10 * c + i)

allgather(n, r, c) == Exchange(n, r, [i \in 0 .. n - 1 |-> Block(r, c, 9)])
allgatherv(n, r, c) == Exchange(n, r, [i \in 0 .. n - 1 |-> Block(r, c, 9)])
alltoall(n, r, c) == Exchange(n, r, [i \in 0 .. n - 1 |-> Block(r, c, i)])
alltoallv(n, r, c) == Exchange(n, r, [i \in 0 .. n - 1 |-> Block(r, c, i)])

(* Runtime::synchCurrentWorkingDirectory: rank 0 tells the others. *)
synchCurrentWorkingDirectory(r) ==
  IF r = 0 THEN ForEach(N - 1, LAMBDA i : sendMessg(0, i + 1, Buffer(0, "block", 0)))
  ELSE recvMessg
-----------------------------------------------------------------------------
(* The scenarios: the code of the user thread of rank r.                   *)

(* A source to the right and a target to the left on the ring of the first *)
(* n ranks, as the ring algorithms set up, all with the same tag.          *)
RingSource(n, r) == Endpoint(r, 0, "SOURCE", (r + 1) % n, 1, 0)
RingTarget(n, r) == Endpoint(r, 1, "TARGET", (r + n - 1) % n, 1, 1)

Ring(n, r) ==
  connectToRemotePartner(RingSource(n, r)) \o connectToRemotePartner(RingTarget(n, r))
  \o waitForCompletion(RingSource(n, r)) \o waitForCompletion(RingTarget(n, r))

(* Ranks 0 and 1 connect two pairs of endpoints under the same tag: one    *)
(* after the other, or both at once, which the keys do not allow.          *)
Pair(r, k, slot) == Endpoint(r, k, IF r = 0 THEN "SOURCE" ELSE "TARGET", 1 - r, 2, slot)

OneByOne(r) ==
  connectToRemotePartner(Pair(r, 0, 0)) \o waitForCompletion(Pair(r, 0, 0))
  \o connectToRemotePartner(Pair(r, 1, 0)) \o waitForCompletion(Pair(r, 1, 0))

AtOnce(r) ==
  connectToRemotePartner(Pair(r, 0, 0)) \o connectToRemotePartner(Pair(r, 1, 1))
  \o waitForCompletion(Pair(r, 0, 0)) \o waitForCompletion(Pair(r, 1, 1))

Generic(r) == Endpoint(r, 0, "GENERIC", 1 - r, 2, 0)

(* Every other rank sends a message to rank 0, as in the test SendMessg. *)
Gather(r) ==
  IF r = 0 THEN ForEach(N - 1, LAMBDA i : recvMessg)
  ELSE sendMessg(r, 0, Buffer(r, "block", 0))

Scenarios == {"ring", "self", "one by one", "at once", "generic", "allgather",
              "alltoall", "messages"}

(* The ranks that take part. *)
Members == 0 .. CASE scenario = "self" -> 0 [] scenario = "messages" -> N - 1 [] OTHER -> 1

Code(r) ==
  CASE scenario = "ring" -> Ring(2, r)
    [] scenario = "self" -> Ring(1, r) \o sendMessg(r, r, Buffer(r, "block", 0)) \o recvMessg
    [] scenario = "one by one" -> OneByOne(r)
    [] scenario = "at once" -> AtOnce(r)
    [] scenario = "generic" -> connectToRemotePartner(Generic(r)) \o waitForCompletion(Generic(r))
    [] scenario = "allgather" -> allgather(2, r, 1) \o alltoallv(2, r, 2)
    [] scenario = "alltoall" -> alltoall(2, r, 1) \o allgatherv(2, r, 2)
    [] scenario = "messages" -> Gather(r) \o synchCurrentWorkingDirectory(r)

Init ==
  /\ scenario \in Scenarios
  /\ PassiveInit
  /\ cont = [t \in Threads |-> IF t[1] = "user" /\ t[2] \in Members
                               THEN Code(t[2]) \o finish(t[2]) ELSE <<>>]

Next == PassiveNext /\ UNCHANGED scenario

Spec == Init /\ [][Next]_vars
-----------------------------------------------------------------------------
TypeOK == scenario \in Scenarios /\ PassiveTypeOK

(* What the user of rank r is to receive, in order. *)
Expected(r) ==
  CASE scenario = "ring" -> <<Buffer(1 - r, "endpoint", 1), Buffer(1 - r, "endpoint", 0)>>
    [] scenario = "self" -> <<Buffer(r, "endpoint", 1), Buffer(r, "endpoint", 0),
                              Buffer(r, "block", 0)>>
    [] scenario \in {"one by one", "at once"} ->
         <<Buffer(1 - r, "endpoint", 0), Buffer(1 - r, "endpoint", 1)>>
    [] scenario = "generic" -> <<Buffer(1 - r, "endpoint", 0)>>
    [] scenario = "allgather" -> <<Block(0, 1, 9), Block(1, 1, 9), Block(0, 2, r), Block(1, 2, r)>>
    [] scenario = "alltoall" -> <<Block(0, 1, r), Block(1, 1, r), Block(0, 2, 9), Block(1, 2, 9)>>

Values(r) == [i \in DOMAIN got[r] |-> got[r][i].value]

(* Every endpoint is connected to its partner, every target gets the block *)
(* that is meant for it, even where tags are used twice; every message is  *)
(* received once and comes with the rank of its sender.                    *)
RightPartner ==
  \A r \in Members :
    IF scenario # "messages" THEN IsPrefix(Values(r), Expected(r))
    ELSE /\ \A i \in DOMAIN got[r] : got[r][i].from.rank = got[r][i].value.rank
         /\ Cardinality(Range(Values(r))) = Len(got[r])

(* The keys that connections and collectives use are free when they use    *)
(* them: "key exists already" is thrown only if a tag is used for two      *)
(* connections to a rank at the same time.                                 *)
NeverThrows == scenario # "at once" => thrown = {}

(* Nobody waits for ever: the threads can go on until all have finished.   *)
(* No step is ever repeated, so that they do finish.                       *)
NobodyStuck ==
  \/ ENABLED Next
  \/ \A r \in Members : cont[user(r)] = <<>>
  \/ scenario = "at once" /\ thrown # {}
=============================================================================
