--------------------------- MODULE MCDeviceMission ---------------------------
(* TLC instance of DeviceMission.  Camera c1 has one preset, c2 has none,  *)
(* like two of the cameras in the repository's ms.db.                      *)
EXTENDS DeviceMission, TLC

CONSTANTS c1, c2, g1

MCPresetTotal == c1 :> 1 @@ c2 :> 0

MCCamsOf == g1 :> {c1, c2}
=============================================================================
