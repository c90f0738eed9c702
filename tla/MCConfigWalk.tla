---------------------------- MODULE MCConfigWalk ----------------------------
(* TLC instance of ConfigWalk.                                              *)
EXTENDS ConfigWalk
=============================================================================
