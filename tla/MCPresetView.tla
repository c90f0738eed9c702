---------------------------- MODULE MCPresetView ----------------------------
(* TLC instance of PresetView: one camera with two presets, contended.     *)
EXTENDS PresetView, TLC

CONSTANTS c1, g1

MCPresetTotal == c1 :> 2

MCCamsOf == g1 :> {c1}

Symmetry == Permutations(Sessions)

\* Once the camera is stray the properties are silent.
NotAllStray == stray # Cameras
=============================================================================
