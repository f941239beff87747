------------------------- MODULE MCLockFreeQueue -------------------------
(* The queue for TLC: threads are interchangeable where no liveness is asked. *)
EXTENDS LockFreeQueue

Symmetry == Permutations(Threads)
=============================================================================
