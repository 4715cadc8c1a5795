---------------------------- MODULE MCScheduler ----------------------------
(* Instances of Scheduler.tla for TLC.                                     *)
EXTENDS Scheduler, TLC

CONSTANTS t1, t2, t3, t4, n1, n2, n3, n4

NodeSymmetry == Permutations(Node)
=============================================================================
