------------------------- MODULE MCWindowsLifecycle -------------------------
(* Instances of WindowsLifecycle: its threads are interchangeable.         *)
EXTENDS WindowsLifecycle, TLC

ThreadSymmetry == Permutations(Thread)
=============================================================================
