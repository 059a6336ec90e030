--------------------------- MODULE MCLockFreeStack ---------------------------
(* LockFreeStack for TLC: threads and addresses are interchangeable. *)
EXTENDS LockFreeStack, TLC

Symmetry == Permutations(Threads) \cup Permutations(Nodes)
=============================================================================
