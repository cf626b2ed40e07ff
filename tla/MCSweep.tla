------------------------------ MODULE MCSweep ------------------------------
(***************************************************************************)
(* Instances of Sweep for TLC.  Worker daemons are interchangeable in the  *)
(* safety runs; seeds are not, since the plan orders them.                 *)
(***************************************************************************)
EXTENDS Sweep

Symmetry == Permutations(Daemons)
=============================================================================
