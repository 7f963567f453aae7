----------------------------- MODULE MCAttempts -----------------------------
(* Values of the constants of Attempts for TLC are in the .cfg files.      *)
EXTENDS Attempts
=============================================================================
