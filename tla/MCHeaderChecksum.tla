-------------------------- MODULE MCHeaderChecksum --------------------------
(* The instances TLC checks; every constant is given in the .cfg files.     *)
EXTENDS HeaderChecksum
=============================================================================
