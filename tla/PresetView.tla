----------------------------- MODULE PresetView -----------------------------
(***************************************************************************)
(* Where a camera looks.  The loop of module DeviceMission turns it and    *)
(* sends the device the snapshot schedule of that preset; meanwhile the    *)
(* device may ask for a close-up (type 7, threeD_Request), and its result  *)
(* (type 9) has reload_Preset turn the camera back.  Both run on the       *)
(* session's thread, between any two steps of any loop, and through the    *)
(* pointer the session has, whoever drives the camera by now.              *)
(*                                                                         *)
(* reload_Preset does not test SpdDomeCam: a result from a device that has *)
(* no camera yet ends the process.  No such result comes here.             *)
(***************************************************************************)
EXTENDS DeviceMission

VARIABLES faces,      \* the preset each camera looks at, 0 when at none
          sched,      \* the preset of the last schedule of the mission, 0 before
          reloading,  \* the preset reload_Preset has chosen and not turned to
          late,       \* ghost: sessions whose choice the loop has overtaken
          moved       \* ghost: cameras that do not look at what was scheduled last

view == <<faces, sched, reloading, late, moved>>

NoPreset == 0

ViewTypeOK ==
    /\ faces \in [Cameras -> Nat]
    /\ \A c \in Cameras : faces[c] <= PTZCap(c) + 1
    /\ sched \in [Sessions -> Nat]
    /\ reloading \in [Sessions -> Nat]
    /\ \A s \in Sessions :
          reloading[s] # NoPreset =>
              /\ cam[s] # NULL
              /\ \/ cam[s] \in stray
                 \/ PresetTotal[cam[s]] = 0  \* granted to a loop about to send
                 \/ reloading[s] <= PresetTotal[cam[s]]
    /\ late \in SUBSET Sessions /\ moved \in SUBSET Cameras

ViewInit ==
    /\ Init
    /\ faces = [c \in Cameras |-> NoPreset]
    /\ sched = [s \in Sessions |-> NoPreset]
    /\ reloading = [s \in Sessions |-> NoPreset]
    /\ late = {} /\ moved = {}

-----------------------------------------------------------------------------
(* The session's thread.                                                   *)

\* A step of a handler of module DeviceMission.  When it replaces the camera, be
\* it by the same one, nothing is scheduled yet.  A loop that has seen a mission
\* fail and not yet sent its last schedule sends one of the new camera, which
\* nobody has turned.
Handler(s) ==
    /\ reloading[s] = NoPreset
    /\ \/ Connect(s) \/ Login(s) \/ NextMission(s) \/ MissionReady(s) \/ FirstMission(s)
       \/ PictureReceived(s) \/ Disconnect(s)
    /\ sched' = IF cam'[s] = cam[s] /\ (changing'[s] => changing[s]) THEN sched
                ELSE [sched EXCEPT ![s] = NoPreset]
    /\ moved' = IF pc[s] = "send" /\ cam'[s] # cam[s] THEN moved \cup {cam'[s]} ELSE moved
    /\ UNCHANGED <<faces, reloading, late>>

\* Type 7: PTZSelZoomIn.
threeD_Request(s) ==
    /\ Serving(s)
    /\ reloading[s] = NoPreset
    /\ cam[s] # NULL
    /\ faces' = [faces EXCEPT ![cam[s]] = NoPreset]
    /\ moved' = moved \cup {cam[s]}
    /\ UNCHANGED <<vars, sched, reloading, late>>

\* Type 9: the preset before the one the loop goes on with.
reload_Preset(s) ==
    /\ Serving(s)
    /\ reloading[s] = NoPreset
    /\ cam[s] # NULL
    /\ curPTZ[cam[s]] > 0
    /\ reloading' = [reloading EXCEPT ![s] = curPTZ[cam[s]]]
    /\ UNCHANGED <<vars, faces, sched, late, moved>>

\* The camera has been turned to a preset whose schedule is still to be sent.
Turned(c) == \E t \in Sessions : cam[t] = c /\ pc[t] \in {"failFree", "send"}

\* TurnPTZPreset for reload_Preset.  It puts things right unless a loop has gone
\* on since it chose, or has turned the camera and not scheduled it.
ReloadTurn(s) ==
    LET c == cam[s]
    IN /\ reloading[s] # NoPreset
       /\ reloading' = [reloading EXCEPT ![s] = NoPreset]
       /\ late' = late \ {s}
       /\ \/ /\ faces' = [faces EXCEPT ![c] = reloading[s]]
             /\ moved' = IF s \in late \/ Turned(c) THEN moved \cup {c} ELSE moved \ {c}
          \/ UNCHANGED <<faces, moved>>
       /\ UNCHANGED <<vars, sched>>

-----------------------------------------------------------------------------
(* The loop.                                                               *)

\* The choices that a step of the loop on camera c overtakes.
Overtaken(c) == {t \in Sessions : cam[t] = c /\ reloading[t] # NoPreset}

\* Mutant: the camera is turned to the preset before.
MutViewTurnOk(s) ==
    /\ TurnOk(s)
    /\ faces' = [faces EXCEPT ![cam[s]] = curPTZ[cam[s]]]
    /\ moved' = moved \ {cam[s]}
    /\ UNCHANGED <<sched, reloading, late>>

ViewTurnOk(s) ==
    /\ TurnOk(s)
    /\ faces' = [faces EXCEPT ![cam[s]] = curPTZ[cam[s]] + 1]
    /\ moved' = moved \ {cam[s]}
    /\ UNCHANGED <<sched, reloading, late>>

ViewTurnFail(s) ==
    /\ TurnFail(s)
    /\ moved' = moved \cup {cam[s]}
    /\ UNCHANGED <<faces, sched, reloading, late>>

ViewSend(s) ==
    /\ Send(s)
    /\ sched' = [sched EXCEPT ![s] = curPTZ[cam[s]] + 1]
    /\ late' = late \cup Overtaken(cam[s])
    /\ UNCHANGED <<faces, reloading, moved>>

ViewHoldEnd(s) ==
    /\ HoldEnd(s)
    /\ late' = late \cup Overtaken(cam[s])
    /\ UNCHANGED <<faces, sched, reloading, moved>>

LoopElse(s) ==
    /\ LoopExit(s) \/ Fire(s) \/ FailFree(s) \/ Release(s)
    /\ UNCHANGED view

ViewNext ==
    \E s \in Sessions :
        \/ Handler(s) \/ threeD_Request(s) \/ reload_Preset(s) \/ ReloadTurn(s)
        \/ ViewTurnOk(s) \/ ViewTurnFail(s) \/ ViewSend(s)
        \/ ViewHoldEnd(s) \/ LoopElse(s)
        \/ \E g \in Groups \cup {NoGroup} : Regroup(s, g) /\ UNCHANGED view

ViewSpec == ViewInit /\ [][ViewNext]_<<vars, view>>

-----------------------------------------------------------------------------
(* Properties.                                                             *)

\* While a device watches by its last schedule, between two presets of a mission
\* or in the hold of the last, its camera looks at the preset of that schedule:
\* the loop's turn, and a reload_Preset by any session that has a pointer to the
\* camera, agree on it by curPTZposion alone.  It is otherwise only for a stray
\* camera, and from a close-up, a failed turn, a reload between a turn and its
\* schedule or overtaken by them, or a grant to a loop about to send, until the
\* next successful turn or timely reload.
FacesScheduleUnlessMoved ==
    /\ ViewTypeOK
    /\ \A s \in Sessions :
          /\ sched[s] # NoPreset
          /\ Drives(s, cam[s])
          /\ pc[s] \in {"wait", "hold"}
          /\ cam[s] \notin stray \cup moved
          => faces[cam[s]] = sched[s]
=============================================================================
