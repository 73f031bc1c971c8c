----------------------------- MODULE MCTailTracker -----------------------------
(***************************************************************************)
(* TailTracker on small instances.                                         *)
(***************************************************************************)
EXTENDS TailTracker, TLC

\* Containers, files, TailNode objects and workers are interchangeable.
Symmetry == Permutations(Inst) \cup Permutations(Child)
              \cup Permutations(Node) \cup Permutations(Worker)
=============================================================================
