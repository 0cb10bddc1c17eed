------------------------- MODULE BroadcastSendToAll -------------------------
(***************************************************************************)
(* BroadcastLowLevel<T, SEND_TO_ALL>.  The root writes its data to every   *)
(* other rank and waits for the acknowledgements.                          *)
(***************************************************************************)
EXTENDS Collective, FiniteSets

CONSTANT root   \* a rank of the group

VARIABLE transfers_in_progress   \* of the root

vars == <<transfers_in_progress, collectiveVars, endpointVars>>

(* Channel r: the source buffer of the root for r to target_buffer of r.   *)
(* The root has one memory for all source buffers.                         *)
Channels == Ranks \ {root}

NoData == 0

Init == Setup(Channels, Ranks, NoData) /\ transfers_in_progress = 0

(* The root's data is the number of the execution. *)
CopyIn(r) ==
  /\ copyIn(r)
  /\ IF r = root THEN mem' = [mem EXCEPT ![r] = round'[r]] ELSE UNCHANGED mem
  /\ UNCHANGED <<transfers_in_progress, endpointVars>>

Start(r) ==
  /\ start(r)
  /\ IF r = root
       THEN /\ writing' = [c \in Channels |-> writing[c] + 1]
            /\ transfers_in_progress' = Cardinality(Channels)
       ELSE UNCHANGED <<writing, transfers_in_progress>>
  /\ UNCHANGED <<mem, arrived, acking, acked>>

(* Faulty variant: several acknowledgements are counted as one. *)
CollectAcks_CountedOnce ==
  /\ \E c \in Channels : acked[c] # 0
  /\ acked' = [c \in Channels |-> 0]
  /\ transfers_in_progress' = transfers_in_progress - 1
  /\ UNCHANGED <<mem, writing, arrived, acking>>

(* One call of triggerProgress takes all the acknowledgements there are. *)
CollectAcks ==
  /\ \E c \in Channels : acked[c] # 0
  /\ acked' = [c \in Channels |-> 0]
  /\ transfers_in_progress' =
       transfers_in_progress - Cardinality({c \in Channels : acked[c] # 0})
  /\ UNCHANGED <<mem, writing, arrived, acking>>

RootProgress  == progress(root) /\ CollectAcks /\ transfers_in_progress' # 0
RootCompletes == complete(root) /\ CollectAcks /\ transfers_in_progress' = 0

Receive(r) ==
  /\ r # root
  /\ complete(r)
  /\ targetCompletes(r)
  /\ ackTransfer(r)
  /\ UNCHANGED <<transfers_in_progress, mem, writing, acked>>

CopyOut(r) ==
  copyOut(r, mem[r]) /\ UNCHANGED <<transfers_in_progress, endpointVars>>

User(r) == CopyIn(r) \/ Start(r) \/ CopyOut(r)

WriteArrives(c) == Transfer(c, root, c) /\ UNCHANGED transfers_in_progress
AckArrives(c) == Acknowledge(c) /\ UNCHANGED transfers_in_progress

Next ==
  \/ \E r \in Ranks : User(r) \/ Receive(r)
  \/ RootProgress \/ RootCompletes
  \/ \E c \in Channels : WriteArrives(c) \/ AckArrives(c)

Spec == Init /\ [][Next]_vars /\ WF_vars(Next)
-----------------------------------------------------------------------------
TypeOK ==
  /\ EndpointTypeOK(Channels)
  /\ state \in [Ranks -> States]
  /\ round \in [Ranks -> 0..Rounds]
  /\ mem \in [Ranks -> 0..Rounds]
  /\ output \in [Ranks -> 0..Rounds]
  /\ transfers_in_progress \in 0 .. N - 1

(* Every rank's copyOut writes the root's data of the same execution. *)
ResultsCorrect ==
  separated => \A r \in Ranks : HasResult(r) => output[r] = round[r]

(* No notification is posted before its predecessor has been consumed. *)
NoNotificationLost == OneOutstanding(Channels)

(* When the root is FINISHED, all its transfers have landed: copyIn may    *)
(* overwrite its source buffer and the destructor may release it.          *)
SourcesReleased == state[root] = "FINISHED" => Released(Channels)

(* An execution that all ranks have completed leaves no notification       *)
(* behind that the next one could take for its own.                        *)
NothingLeftOver == AllHaveResults => Quiet(Channels)

(* The root counts each acknowledgement once: while it runs, the count is  *)
(* the number of targets whose acknowledgement it has not seen.            *)
CountExact ==
  state[root] = "RUNNING" =>
    transfers_in_progress =
      Cardinality({c \in Channels :
                     writing[c] + arrived[c] + acking[c] + acked[c] > 0})
=============================================================================
