----------------------------- MODULE MCEventLoop -----------------------------
(* Instances of EventLoop for TLC; the values are in the .cfg files. *)
EXTENDS EventLoop

Symmetry == Permutations(Threads)
=============================================================================
