------------------------------ MODULE MCMyHost ------------------------------
(* The instances TLC checks; every constant is given in the .cfg files.     *)
EXTENDS MyHost, TLC

Interchangeable == Permutations(Tasks)
=============================================================================
