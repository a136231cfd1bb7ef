-------------------------- MODULE MCLinuxLifecycle --------------------------
(***************************************************************************)
(* Instances of LinuxLifecycle: threads are interchangeable in its safety  *)
(* properties.                                                             *)
(***************************************************************************)
EXTENDS LinuxLifecycle, TLC

ThreadSymmetry == Permutations(Thread)
=============================================================================
