----------------------------- MODULE MCSlotPool ------------------------------
(* Instances of SlotPool for TLC: the threads of one process, competing for  *)
(* two slots.                                                               *)
EXTENDS SlotPool

CONSTANTS t1, t2, t3, p1

OneProc == [t \in Thread |-> p1]
=============================================================================
