----------------------------- MODULE MCSoScheduler -----------------------------
(* The instances TLC checks; every constant is given in the .cfg files.     *)
EXTENDS SoScheduler, TLC

Interchangeable == Permutations(Tasks)
=============================================================================
