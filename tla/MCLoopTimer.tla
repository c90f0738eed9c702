----------------------------- MODULE MCLoopTimer -----------------------------
(* TLC instances of LoopTimer: camera c1 has one preset, c2 has two.        *)
EXTENDS LoopTimer

CONSTANTS c1, c2

MCPresetTotal == [c \in Cameras |-> IF c = c1 THEN 1 ELSE 2]
=============================================================================
