------------------------------ MODULE AgentSlot ------------------------------
(***************************************************************************)
(* What the registry of agents promises of one objective: its one slot is  *)
(* empty, taken by an adapter that is starting, or held by one that is     *)
(* live. A start claims an empty slot for an adapter that never had it,    *)
(* and only the adapter that claimed the slot comes to hold it.            *)
(***************************************************************************)
EXTENDS Naturals

CONSTANT MaxStarts   \* bound: how many adapters are started

VARIABLES holder,    \* the adapter in the slot, 0 for none
          phase,     \* what the slot is to it
          used       \* how many adapters have claimed the slot

slot == <<holder, phase, used>>

Init == holder = 0 /\ phase = "empty" /\ used = 0

Claim == /\ phase = "empty"
         /\ used < MaxStarts
         /\ used' = used + 1
         /\ holder' = used'
         /\ phase' = "starting"

Grant == /\ phase = "starting"
         /\ phase' = "live"
         /\ UNCHANGED <<holder, used>>

Release == /\ phase # "empty"
           /\ phase' = "empty"
           /\ holder' = 0
           /\ UNCHANGED used

Next == Claim \/ Grant \/ Release

Spec == Init /\ [][Next]_slot
==============================================================================
