---------------------------- MODULE MCPresetRows ----------------------------
(* TLC instance of PresetRows.                                              *)
EXTENDS PresetRows, TLC

CONSTANTS MaxSame,  \* objects of one number explored per list
          MaxRows   \* preset rows explored per camera

\* And no device is stray: a failed, unexpected or second request at an item
\* is explored for the camera, whose statements and lists are the same.
Small ==
    /\ \A l \in Lists, n \in Cams : Len(objs[l][n]) <= MaxSame
    /\ \A n \in Cams : Len(rows[n]) <= MaxRows
    /\ stray \cap CapDevs = {}

Symmetry == Permutations(Clients)
=============================================================================
