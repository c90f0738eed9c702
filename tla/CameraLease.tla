----------------------------- MODULE CameraLease -----------------------------
(***************************************************************************)
(* What the camera pool of a mission promises: cameras are listed and      *)
(* taken off the list, a session with no camera may be leased one listed   *)
(* camera that nobody else has, in one step, and keeps it until it gives   *)
(* it back, even when the camera leaves the list meanwhile.                *)
(***************************************************************************)
CONSTANTS Cameras, Sessions

VARIABLES listed,  \* cameras the mission offers
          lease    \* the cameras each session has, at most one

vars == <<listed, lease>>

Leased(c) == \E s \in Sessions : c \in lease[s]

Init ==
    /\ listed = {}
    /\ lease = [s \in Sessions |-> {}]

Offer(c) ==
    /\ c \notin listed
    /\ ~Leased(c)
    /\ listed' = listed \cup {c}
    /\ UNCHANGED lease

Withdraw(c) ==
    /\ c \in listed
    /\ listed' = listed \ {c}
    /\ UNCHANGED lease

Grant(s, c) ==
    /\ c \in listed
    /\ ~Leased(c)
    /\ lease[s] = {}
    /\ lease' = [lease EXCEPT ![s] = {c}]
    /\ UNCHANGED listed

GiveBack(s) ==
    /\ lease[s] # {}
    /\ lease' = [lease EXCEPT ![s] = {}]
    /\ UNCHANGED listed

Next ==
    \/ \E c \in Cameras : Offer(c) \/ Withdraw(c)
    \/ \E s \in Sessions : GiveBack(s) \/ \E c \in Cameras : Grant(s, c)

Spec == Init /\ [][Next]_vars
=============================================================================
