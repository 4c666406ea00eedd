---------------------------- MODULE MCScheduler -----------------------------
(* Instances of Scheduler for TLC.                                         *)
EXTENDS Scheduler, TLC

CONSTANTS w1, w2

Symmetry == Permutations({w1, w2})
=============================================================================
