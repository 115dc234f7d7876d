---------------------------- MODULE MC_RunApproval ----------------------------
(* RunApproval for TLC.                                                     *)
EXTENDS RunApproval, TLC

(* Bound: a fault or a cancel request, not both in one behaviour.           *)
FaultOrCancel == faults = 0 \/ \A k \in Canceller : cancels[k].pc = "idle"

(* Bound: with a tool gate, no fault where liveness is checked.             *)
GateOrFault == ~inline \/ faults = 0

Symmetry == Permutations(Call) \cup Permutations(Decider)
=============================================================================
