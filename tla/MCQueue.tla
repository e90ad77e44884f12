------------------------------ MODULE MCQueue ------------------------------
(* Queue with three handles: one slot holder, waiters to promote and to    *)
(* refuse.  Handles are interchangeable.                                   *)
EXTENDS Queue
HandleSymmetry == Permutations(Handles)
=============================================================================
