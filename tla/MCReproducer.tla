---------------------------- MODULE MCReproducer ----------------------------
(* Small instances of Reproducer for TLC; threads are interchangeable. *)
EXTENDS Reproducer, TLC

ThreadSymmetry == Permutations(Threads)
=============================================================================
