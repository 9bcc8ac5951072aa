-------------------------- MODULE MCTutorExecutor --------------------------
(***************************************************************************)
(* Model checking of TutorExecutor: threads and runs are interchangeable.  *)
(***************************************************************************)
EXTENDS TutorExecutor, TLC

Symmetry == Permutations(Threads) \cup Permutations(Runs)
============================================================================
