---------------------------- MODULE MCSmDispatch ----------------------------
(* SmDispatch with two switches, for TLC. *)
EXTENDS SmDispatch
=============================================================================
