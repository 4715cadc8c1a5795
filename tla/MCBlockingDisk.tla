-------------------------- MODULE MCBlockingDisk --------------------------
(* Instances of BlockingDisk.tla for TLC.                                  *)
EXTENDS BlockingDisk

CONSTANTS t1, t2, t3, t4
=============================================================================
