------------------------------ MODULE Endpoint ------------------------------
(***************************************************************************)
(* A connected pair of a write::SourceBuffer on one rank and a             *)
(* write::TargetBuffer on another, called a channel here.  Each of the two *)
(* buffers owns one GASPI notification: the target's is set by the write   *)
(* (initTransfer), the source's by the acknowledgement (ackTransfer).      *)
(* GaspiCxx always posts the notification value 1, so a notification that  *)
(* lands on a slot that still holds 1 leaves no trace.                     *)
(*                                                                         *)
(* The module has no constants: a collective chooses its own set of        *)
(* channels and hands it to Connected.  Posted operations land one by one, *)
(* in any order, because the contexts spread them over several queues.     *)
(***************************************************************************)
EXTENDS Naturals

VARIABLES
  writing,   \* writing[c]: writes with notification posted, not yet landed
  arrived,   \* arrived[c]: notification value at the target buffer of c
  acking,    \* acking[c]:  acknowledgements posted, not yet landed
  acked      \* acked[c]:   notification value at the source buffer of c

endpointVars == <<writing, arrived, acking, acked>>

(* All the channels of C after connectToRemotePartner has completed. *)
Connected(C) ==
  /\ writing = [c \in C |-> 0]
  /\ arrived = [c \in C |-> 0]
  /\ acking  = [c \in C |-> 0]
  /\ acked   = [c \in C |-> 0]

EndpointTypeOK(C) ==
  /\ writing \in [C -> Nat]
  /\ arrived \in [C -> 0..1]
  /\ acking  \in [C -> Nat]
  /\ acked   \in [C -> 0..1]
-----------------------------------------------------------------------------
(* The operations of the two buffers.  Each one says what it does to its   *)
(* own variables; the others are left to the action that uses it.          *)

initTransfer(c) == writing' = [writing EXCEPT ![c] = @ + 1]

ackTransfer(c)  == acking' = [acking EXCEPT ![c] = @ + 1]

(* checkForCompletion and waitForCompletion when they return true: the     *)
(* notification is there and gaspi_notify_reset takes it.                  *)
targetCompletes(c) == arrived[c] # 0 /\ arrived' = [arrived EXCEPT ![c] = 0]

(* checkForTransferAck and waitForTransferAck when they return true. *)
sourceAcked(c) == acked[c] # 0 /\ acked' = [acked EXCEPT ![c] = 0]
-----------------------------------------------------------------------------
(* GASPI lets one posted operation land and sets the notification to 1. *)

WriteLands(c) ==
  /\ writing[c] > 0
  /\ writing' = [writing EXCEPT ![c] = @ - 1]
  /\ arrived' = [arrived EXCEPT ![c] = 1]
  /\ UNCHANGED <<acking, acked>>

AckLands(c) ==
  /\ acking[c] > 0
  /\ acking' = [acking EXCEPT ![c] = @ - 1]
  /\ acked'  = [acked EXCEPT ![c] = 1]
  /\ UNCHANGED <<writing, arrived>>

(* At most one notification is under way to, or waiting at, either buffer  *)
(* of a channel of C: none is ever posted on top of another and lost.      *)
OneOutstanding(C) ==
  \A c \in C : writing[c] + arrived[c] <= 1 /\ acking[c] + acked[c] <= 1
=============================================================================
