---------------------------- MODULE CameraObjects ----------------------------
(***************************************************************************)
(* One camera that is regrouped while missions drive it.  A list does not  *)
(* hand an object over to another: addSDC makes a new CHIKCam, FREE and at *)
(* position 0, and removeSDC drops the list's pointer to the old one,      *)
(* which lives on as long as a session points to it.                       *)
(*                                                                         *)
(* getFreeSDC and the end of a mission are one step each here, a refused   *)
(* heartbeat that drives the camera all the same is not in this module     *)
(* (DeviceMission), and neither is a camera added twice (MissionGroups).   *)
(***************************************************************************)
EXTENDS Naturals, FiniteSets

CONSTANTS Sessions,   \* sessions with a mission loop
          Groups,     \* mission numbers
          MaxObjects  \* bound: objects made for the camera

Unstart == "unstart"  \* the list of the ungrouped, G_missionUnstart
Nowhere == "nowhere"  \* on no list: not made yet, or removed

ASSUME ObjectsAssumption ==
    /\ MaxObjects \in Nat \ {0}
    /\ Unstart \notin Groups /\ Nowhere \notin Groups

Objects == 1..MaxObjects
NoObject == 0

VARIABLES place,    \* the list each object is on
          made,     \* objects made so far
          isUsing,  \* FREE or BUSY, per object
          drives,   \* the object the mission of each session drives
          leaving,  \* list a request has still to take the camera off
          moved     \* ghost: objects taken off their list while driven

vars == <<place, made, isUsing, drives, leaving, moved>>

Lists == Groups \cup {Unstart}

TypeOK ==
    /\ place \in [Objects -> Lists \cup {Nowhere}]
    /\ made \in Objects
    /\ \A o \in Objects : o > made => place[o] = Nowhere
    /\ isUsing \in [Objects -> {"FREE", "BUSY"}]
    /\ drives \in [Sessions -> 0..made]
    /\ leaving \in Lists \cup {Nowhere}
    /\ moved \in SUBSET Objects

Init ==
    /\ made = 1
    /\ \E l \in Lists : place = [o \in Objects |-> IF o = 1 THEN l ELSE Nowhere]
    /\ isUsing = [o \in Objects |-> "FREE"]
    /\ drives = [s \in Sessions |-> NoObject]
    /\ leaving = Nowhere
    /\ moved = {}

-----------------------------------------------------------------------------

On(l) == {o \in Objects : place[o] = l}

Driven(o) == \E s \in Sessions : drives[s] = o

\* getFreeSDC of a mission the camera is in; nobody asks the ungrouped.
Grant(s, g) ==
    /\ drives[s] = NoObject
    /\ \E o \in On(g) :
          /\ isUsing[o] = "FREE"
          /\ isUsing' = [isUsing EXCEPT ![o] = "BUSY"]
          /\ drives' = [drives EXCEPT ![s] = o]
    /\ UNCHANGED <<place, made, leaving, moved>>

\* The mission is over, or its session: the object it has is FREE.
Release(s) ==
    /\ drives[s] # NoObject
    /\ isUsing' = [isUsing EXCEPT ![drives[s]] = "FREE"]
    /\ drives' = [drives EXCEPT ![s] = NoObject]
    /\ UNCHANGED <<place, made, leaving, moved>>

\* From the ungrouped to a mission, or from a mission to the ungrouped, whatever
\* the destination asked for.
Destination(from) == IF from = Unstart THEN Groups ELSE {Unstart}

\* getSDC finds the camera on list `from`; addSDC makes an object for the other.
RegroupAdd(from) ==
    /\ leaving = Nowhere
    /\ On(from) # {}
    /\ made < MaxObjects
    /\ made' = made + 1
    /\ \E to \in Destination(from) : place' = [place EXCEPT ![made + 1] = to]
    /\ leaving' = from
    /\ UNCHANGED <<isUsing, drives, moved>>

\* Mutant: a camera in use is left on its list.
MutRegroupRemove ==
    /\ leaving # Nowhere
    /\ leaving' = Nowhere
    /\ place' = [o \in Objects |->
                    IF place[o] = leaving /\ isUsing[o] = "FREE" THEN Nowhere ELSE place[o]]
    /\ UNCHANGED <<made, isUsing, drives, moved>>

\* Mutant: removeSDC is called on the list the camera was added to.
MutRemoveNew ==
    /\ leaving # Nowhere
    /\ leaving' = Nowhere
    /\ place' = [place EXCEPT ![made] = Nowhere]
    /\ moved' = moved \cup {o \in On(leaving) : Driven(o)}
    /\ UNCHANGED <<made, isUsing, drives>>

\* removeSDC.
RegroupRemove ==
    /\ leaving # Nowhere
    /\ leaving' = Nowhere
    /\ place' = [o \in Objects |-> IF place[o] = leaving THEN Nowhere ELSE place[o]]
    /\ moved' = moved \cup {o \in On(leaving) : Driven(o)}
    /\ UNCHANGED <<made, isUsing, drives>>

Next ==
    \/ \E s \in Sessions : Release(s) \/ \E g \in Groups : Grant(s, g)
    \/ \E l \in Lists : RegroupAdd(l)
    \/ RegroupRemove

Spec == Init /\ [][Next]_vars

-----------------------------------------------------------------------------
(* Properties.                                                             *)

\* The camera is offered to devices at most once, also in the middle of a
\* request: adding before removing (MissionUpdateSDCMissionGroup) never puts two
\* objects of it within reach of getFreeSDC.
OfferedOnce == Cardinality({o \in Objects : place[o] \in Groups}) <= 1

\* Two missions drive the camera only when all of them but one drive an object
\* that was regrouped under them.
OneDriverUnlessMoved ==
    \A s, t \in Sessions :
        /\ s # t
        /\ drives[s] # NoObject /\ drives[t] # NoObject
        => drives[s] # drives[t] /\ (drives[s] \in moved \/ drives[t] \in moved)

\* Nobody is granted an object that has left its list, although its mark goes
\* back to FREE: the overlap ends with the mission it began in.
MovedNeverGranted ==
    [][\A s \in Sessions : drives[s] # drives'[s] => drives'[s] \notin moved]_vars
=============================================================================
