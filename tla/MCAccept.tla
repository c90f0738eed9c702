------------------------------ MODULE MCAccept ------------------------------
(* TLC instance of Accept.                                                  *)
EXTENDS Accept
=============================================================================
