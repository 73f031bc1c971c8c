------------------------------- MODULE MCApptail -------------------------------
(***************************************************************************)
(* Apptail on small instances.                                             *)
(***************************************************************************)
EXTENDS Apptail, TLC

\* Containers and sessions are interchangeable.
Symmetry == Permutations(Inst) \cup Permutations(Sess)
=============================================================================
