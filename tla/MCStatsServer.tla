--------------------------- MODULE MCStatsServer ---------------------------
(* The instances TLC checks; every constant is given in the .cfg files.     *)
EXTENDS StatsServer, TLC

Interchangeable == Permutations(Requests) \cup Permutations(Workers)
=============================================================================
