----------------------------- MODULE MC_RunQueue -----------------------------
(* RunQueue for TLC: tasks, processes and receipts are interchangeable.     *)
EXTENDS RunQueue, TLC

Symmetry == Permutations(Task) \cup Permutations(Proc) \cup Permutations(Receipt)
=============================================================================
