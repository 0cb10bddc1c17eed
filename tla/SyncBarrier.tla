----------------------------- MODULE SyncBarrier -----------------------------
(***************************************************************************)
(* What a barrier promises: a call of execute() returns only when every    *)
(* rank of the group has made the corresponding call.                      *)
(***************************************************************************)
EXTENDS Naturals

CONSTANTS Ranks, MaxRounds

VARIABLES inside, round

vars == <<inside, round>>

Init == inside = [r \in Ranks |-> FALSE] /\ round = [r \in Ranks |-> 0]

Enter(r) ==
  /\ ~inside[r] /\ round[r] < MaxRounds
  /\ inside' = [inside EXCEPT ![r] = TRUE]
  /\ round' = [round EXCEPT ![r] = @ + 1]

Leave(r) ==
  /\ inside[r]
  /\ \A q \in Ranks : round[q] >= round[r]
  /\ inside' = [inside EXCEPT ![r] = FALSE]
  /\ UNCHANGED round

Next == \E r \in Ranks : Enter(r) \/ Leave(r)

Spec == Init /\ [][Next]_vars
=============================================================================
