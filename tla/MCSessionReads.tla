--------------------------- MODULE MCSessionReads ---------------------------
(* TLC instances of SessionReads.                                           *)
EXTENDS SessionReads
=============================================================================
