--------------------------- MODULE MCDeviceEntries ---------------------------
(* TLC instance of DeviceEntries.                                           *)
EXTENDS DeviceEntries, TLC
CONSTANTS d1, d2, s1, s2
Symmetry == Permutations({d1, d2}) \cup Permutations({s1, s2})
=============================================================================
