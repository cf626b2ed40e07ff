--------------------------- MODULE MCIncremental ---------------------------
(***************************************************************************)
(* Instances of Incremental for TLC.  Shells are interchangeable, and so   *)
(* are the threads that ask for builds.                                    *)
(***************************************************************************)
EXTENDS Incremental

Symmetry == Permutations(Shells) \cup Permutations(Callers)
=============================================================================
