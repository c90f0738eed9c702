--------------------------- MODULE MCConfigSession ---------------------------
(* TLC instances of ConfigSession.                                          *)
EXTENDS ConfigSession
=============================================================================
