---------------------------- MODULE MCHostTutor ----------------------------
(***************************************************************************)
(* Model checking of HostTutor: threads are interchangeable.               *)
(***************************************************************************)
EXTENDS HostTutor, TLC

Symmetry == Permutations(Threads)
============================================================================
