------------------------------ MODULE MCSmSweep ------------------------------
(* The threads of SmSweep with small bounds, for TLC.                      *)
EXTENDS SmSweep
=============================================================================
