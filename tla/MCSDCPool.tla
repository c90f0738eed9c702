------------------------------ MODULE MCSDCPool ------------------------------
(* TLC instance of SDCPoolFair: three camera objects, two of one number.   *)
EXTENDS SDCPoolFair, TLC

CONSTANTS c1, c2, c3, n1, n2

MCCamNum == c1 :> n1 @@ c2 :> n1 @@ c3 :> n2
=============================================================================
