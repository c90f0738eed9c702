---------------------------- MODULE DeviceMission ----------------------------
(***************************************************************************)
(* Capture-device sessions and the missions they run.  A session (class    *)
(* CCaptureDevSession, on the threads of the io_service pool) is granted a *)
(* camera at login or at a heartbeat; the mission loop it then starts      *)
(* (CCaptureDevice::MissoinLoop, a thread of its own) walks the camera     *)
(* through its presets.  Both sides share the fields SpdDomeCam,           *)
(* missionStatus and run of the CCaptureDevice and the isUsing and         *)
(* curPTZposion of the camera, all without a lock.                         *)
(*                                                                         *)
(* One iteration of the loop is cut at every point where what it shares    *)
(* with the session is read again or written; the session's handlers run   *)
(* between any two of these steps.  So is the heartbeat that replaces the  *)
(* camera under a running loop: the loop goes on between the new pointer   *)
(* and the new status.  getFreeSDC is one step here: module SDCPool shows  *)
(* that it behaves as one.                                                 *)
(*                                                                         *)
(* A pointer replaced in the middle of Send or HoldEnd, of which this one  *)
(* session has the fields, leaves what one replaced before or after does,  *)
(* but for the position of the old camera, which is stray by then.         *)
(*                                                                         *)
(* A deleted session's loop thread still uses the freed object; of the     *)
(* outcomes of that undefined behaviour the model takes the mildest: the   *)
(* memory still reads as it was left.                                      *)
(***************************************************************************)
EXTENDS Integers

CONSTANTS Sessions,       \* session objects; one is reused once its loop has ended
          Cameras,        \* camera objects of the missions
          Groups,         \* mission numbers
          CamsOf,         \* the cameras listed in each mission
          PresetTotal,    \* number of presets configured in each camera
          TurnFailLimit,  \* failed turns tolerated: 3 in the code
          NULL            \* an empty shared_ptr

NoGroup == -1  \* what MissionMatch answers for a device in no mission

ASSUME DeviceAssumption ==
    /\ CamsOf \in [Groups -> SUBSET Cameras]
    /\ PresetTotal \in [Cameras -> Nat]
    /\ TurnFailLimit \in Nat
    /\ NULL \notin Cameras
    /\ NoGroup \notin Groups

VARIABLES up,          \* the connection is open and the session object exists
          loggedIn,    \* the device number is known (capDev.init was called)
          group,       \* the mission the configuration lists the device in
          missionNum,  \* capDev.missionNum
          cam,         \* capDev.SpdDomeCam
          status,      \* capDev.missionStatus
          changing,    \* its heartbeat is between getFreeSDC and MISSION_READY
          run,         \* capDev.run, FALSE once MISSION_EXIT
          pc,          \* control point of the session's mission loop
          isUsing,     \* FREE or BUSY, per camera
          curPTZ,      \* curPTZposion, per camera
          failCnt,     \* turnPresetFailedCnt, one static counter for all loops
          stray        \* ghost: cameras mishandled by one of the known events

session == <<up, loggedIn, group, missionNum>>
vars    == <<session, cam, status, changing, run, pc, isUsing, curPTZ, failCnt, stray>>

Over      == {"COMPLETED", "FAILD"}
Iterating == {"turn", "failFree", "send", "hold", "release"}

\* curPTZposion saturates one past the last preset: every value from the number
\* of presets on acts alike.
PTZCap(c) == PresetTotal[c] + 1

TypeOK ==
    /\ up \in [Sessions -> BOOLEAN]
    /\ loggedIn \in [Sessions -> BOOLEAN]
    /\ group \in [Sessions -> Groups \cup {NoGroup}]
    /\ missionNum \in [Sessions -> Groups \cup {NoGroup}]
    /\ cam \in [Sessions -> Cameras \cup {NULL}]
    /\ status \in [Sessions -> Over \cup {"READY"}]
    /\ changing \in [Sessions -> BOOLEAN]
    /\ run \in [Sessions -> BOOLEAN]
    /\ pc \in [Sessions -> {"none", "wait"} \cup Iterating]
    /\ isUsing \in [Cameras -> {"FREE", "BUSY"}]
    /\ curPTZ \in [Cameras -> Nat]
    /\ \A c \in Cameras : curPTZ[c] <= PTZCap(c)
    /\ failCnt \in Nat
    /\ stray \in SUBSET Cameras

Init ==
    /\ up = [s \in Sessions |-> FALSE]
    /\ loggedIn = [s \in Sessions |-> FALSE]
    /\ group \in [Sessions -> Groups \cup {NoGroup}]
    /\ missionNum = [s \in Sessions |-> NoGroup]
    /\ cam = [s \in Sessions |-> NULL]
    /\ status = [s \in Sessions |-> "READY"]
    /\ changing = [s \in Sessions |-> FALSE]
    /\ run = [s \in Sessions |-> TRUE]
    /\ pc = [s \in Sessions |-> "none"]
    /\ isUsing = [c \in Cameras |-> "FREE"]
    /\ curPTZ = [c \in Cameras |-> 0]
    /\ failCnt = 0
    /\ stray = {}

-----------------------------------------------------------------------------
(* The session: connection, login, heartbeat, upload, disconnection.       *)

Connect(s) ==
    /\ ~up[s]
    /\ pc[s] = "none"
    /\ up' = [up EXCEPT ![s] = TRUE]
    /\ loggedIn' = [loggedIn EXCEPT ![s] = FALSE]
    /\ missionNum' = [missionNum EXCEPT ![s] = NoGroup]
    /\ cam' = [cam EXCEPT ![s] = NULL]
    /\ status' = [status EXCEPT ![s] = "READY"]
    /\ run' = [run EXCEPT ![s] = TRUE]
    /\ UNCHANGED <<group, changing, pc, isUsing, curPTZ, failCnt, stray>>

\* The thread of the session is free to take up a handler.
Serving(s) == up[s] /\ ~changing[s]

\* MissionMatch looks the device number up; it is empty before the login.
MissionMatch(s) == IF loggedIn[s] THEN group[s] ELSE NoGroup

\* getFreeSDC of mission g can return any of these, and -1 when there is none.
FreeSDC(g) ==
    IF g = NoGroup THEN {} ELSE {c \in CamsOf[g] : isUsing[c] = "FREE"}

Grant(s, c) ==
    /\ isUsing' = [isUsing EXCEPT ![c] = "BUSY"]
    /\ cam' = [cam EXCEPT ![s] = c]

\* Bound: start() runs once in the life of a session.  A second login, or an
\* upload that catches the device between two missions, would start a second
\* loop on the same timer.
NotStarted(s) == pc[s] = "none"

\* Mutant: start() is forgotten.
MutGrantAndStart(s, g) ==
    /\ \/ /\ NotStarted(s)
          /\ \E c \in FreeSDC(g) : Grant(s, c)
          /\ status' = [status EXCEPT ![s] = "READY"]
       \/ /\ FreeSDC(g) = {}
          /\ UNCHANGED <<isUsing, cam, status>>
    /\ UNCHANGED pc

\* The first camera of a session in mission g, and the thread of its loop.
GrantAndStart(s, g) ==
    \/ /\ NotStarted(s)
       /\ \E c \in FreeSDC(g) : Grant(s, c)
       /\ status' = [status EXCEPT ![s] = "READY"]
       /\ pc' = [pc EXCEPT ![s] = "wait"]
    \/ /\ FreeSDC(g) = {}
       /\ UNCHANGED <<isUsing, cam, status, pc>>

Login(s) ==
    /\ Serving(s)
    /\ loggedIn' = [loggedIn EXCEPT ![s] = TRUE]
    /\ missionNum' = [missionNum EXCEPT ![s] = group[s]]
    /\ GrantAndStart(s, group[s])
    /\ UNCHANGED <<up, group, changing, run, curPTZ, failCnt, stray>>

\* The loop is about to write isUsing = FREE, through the pointer it finds then.
Freeing(s) == pc[s] \in {"failFree", "release"}

\* Heartbeat of a device whose mission is over: the next camera, for the loop
\* that is already running.  When none is free the mission is to start all the
\* same, on the camera of the last one, which becomes stray.  So does a camera
\* whose pointer is replaced when the loop is about to free it: it stays BUSY.
NextMission(s) ==
    /\ Serving(s)
    /\ status[s] \in Over
    /\ LET g == MissionMatch(s) IN
       /\ missionNum' = [missionNum EXCEPT ![s] = g]
       /\ \/ /\ g = NoGroup
             /\ UNCHANGED <<isUsing, cam, changing, stray>>
          \/ /\ \E c \in FreeSDC(g) : Grant(s, c)
             /\ changing' = [changing EXCEPT ![s] = TRUE]
             /\ stray' = IF Freeing(s) THEN stray \cup {cam[s]} ELSE stray
          \/ /\ g # NoGroup
             /\ FreeSDC(g) = {}
             /\ changing' = [changing EXCEPT ![s] = TRUE]
             /\ stray' = stray \cup {cam[s]}
             /\ UNCHANGED <<isUsing, cam>>
    /\ UNCHANGED <<up, loggedIn, group, status, run, pc, curPTZ, failCnt>>

\* The same handler goes on: missionStatus = MISSION_READY, whatever has become
\* of the camera.  When the loop is about to free it, it becomes stray.
MissionReady(s) ==
    /\ changing[s]
    /\ changing' = [changing EXCEPT ![s] = FALSE]
    /\ status' = [status EXCEPT ![s] = "READY"]
    /\ stray' = IF Freeing(s) THEN stray \cup {cam[s]} ELSE stray
    /\ UNCHANGED <<session, cam, run, pc, isUsing, curPTZ, failCnt>>

\* Heartbeat of a device that has no camera yet.
FirstMission(s) ==
    /\ Serving(s)
    /\ status[s] \notin Over
    /\ cam[s] = NULL \/ missionNum[s] = NoGroup
    /\ missionNum' = [missionNum EXCEPT ![s] = MissionMatch(s)]
    /\ GrantAndStart(s, MissionMatch(s))
    /\ UNCHANGED <<up, loggedIn, group, changing, run, curPTZ, failCnt, stray>>

\* The last packet of a picture looks the device's mission up again.
PictureReceived(s) ==
    /\ Serving(s)
    /\ loggedIn[s]
    /\ missionNum' = [missionNum EXCEPT ![s] = group[s]]
    /\ UNCHANGED <<up, loggedIn, group, cam, status, changing, run, pc, isUsing, curPTZ, failCnt, stray>>

\* The configuration client moves the device to mission g or to none.
Regroup(s, g) ==
    /\ g # group[s]
    /\ group' = [group EXCEPT ![s] = g]
    /\ UNCHANGED <<up, loggedIn, missionNum, cam, status, changing, run, pc, isUsing, curPTZ, failCnt, stray>>

\* A read or write error: stop() and delete.  stop() frees the camera whether
\* or not this session still has it, and however far the loop has got with it;
\* in either case, if the camera is in use, it becomes stray.
Disconnect(s) ==
    /\ Serving(s)
    /\ up' = [up EXCEPT ![s] = FALSE]
    /\ IF cam[s] = NULL
          THEN UNCHANGED <<run, isUsing, stray>>
          ELSE /\ run' = [run EXCEPT ![s] = FALSE]
               /\ isUsing' = [isUsing EXCEPT ![cam[s]] = "FREE"]
               /\ stray' = IF \/ pc[s] \in Iterating
                              \/ status[s] \in Over /\ isUsing[cam[s]] = "BUSY"
                              THEN stray \cup {cam[s]} ELSE stray
    /\ UNCHANGED <<loggedIn, group, missionNum, cam, status, changing, pc, curPTZ, failCnt>>

-----------------------------------------------------------------------------
(* The mission loop.                                                       *)

\* The timer fires after stop(): nothing is armed again and the thread ends.
LoopExit(s) ==
    /\ pc[s] = "wait"
    /\ ~run[s]
    /\ pc' = [pc EXCEPT ![s] = "none"]
    /\ UNCHANGED <<session, cam, changing, status, run, isUsing, curPTZ, failCnt, stray>>

\* Mutant: a mission that is over is not left alone.
MutFire(s) ==
    /\ pc[s] = "wait"
    /\ run[s]
    /\ PresetTotal[cam[s]] # 0
    /\ pc' = [pc EXCEPT ![s] = "turn"]
    /\ UNCHANGED <<session, cam, changing, status, run, isUsing, curPTZ, failCnt, stray>>

\* The timer fires and there is something to do; otherwise it is armed for
\* another second and the state modelled here does not change.  Init() logs in.
Fire(s) ==
    /\ pc[s] = "wait"
    /\ run[s]
    /\ status[s] \notin Over
    /\ PresetTotal[cam[s]] # 0
    /\ pc' = [pc EXCEPT ![s] = "turn"]
    /\ UNCHANGED <<session, cam, changing, status, run, isUsing, curPTZ, failCnt, stray>>

TurnOk(s) ==
    /\ pc[s] = "turn"
    /\ pc' = [pc EXCEPT ![s] = "send"]
    /\ UNCHANGED <<session, cam, changing, status, run, isUsing, curPTZ, failCnt, stray>>

\* Mutant: a failed turn is tried again, for ever.
MutTurnFail(s) ==
    /\ pc[s] = "turn"
    /\ pc' = [pc EXCEPT ![s] = "wait"]
    /\ UNCHANGED <<session, cam, changing, status, run, isUsing, curPTZ, failCnt, stray>>

\* TurnPTZPreset answers -1.  Above the limit the mission has failed, but the
\* iteration goes on: its camera is stray as soon as it is freed.
TurnFail(s) ==
    /\ pc[s] = "turn"
    /\ failCnt' = failCnt + 1
    /\ IF failCnt' > TurnFailLimit
          THEN /\ status' = [status EXCEPT ![s] = "FAILD"]
               /\ pc' = [pc EXCEPT ![s] = "failFree"]
          ELSE /\ pc' = [pc EXCEPT ![s] = "send"]
               /\ UNCHANGED status
    /\ UNCHANGED <<session, cam, changing, run, isUsing, curPTZ, stray>>

FailFree(s) ==
    /\ pc[s] = "failFree"
    /\ isUsing' = [isUsing EXCEPT ![cam[s]] = "FREE"]
    /\ failCnt' = 0
    /\ stray' = stray \cup {cam[s]}
    /\ pc' = [pc EXCEPT ![s] = "send"]
    /\ UNCHANGED <<session, cam, changing, status, run, curPTZ>>

\* The snapshot schedule is sent and the camera's position moves on.
Send(s) ==
    /\ pc[s] = "send"
    /\ LET c == cam[s]
           next == curPTZ[c] + 1
       IN /\ curPTZ' = [curPTZ EXCEPT ![c] = IF next > PTZCap(c) THEN PTZCap(c) ELSE next]
          /\ pc' = [pc EXCEPT ![s] = IF next >= PresetTotal[c] THEN "hold" ELSE "wait"]
    /\ UNCHANGED <<session, cam, changing, status, run, isUsing, failCnt, stray>>

\* Mutant: the position is not rewound.
MutHoldEnd(s) ==
    /\ pc[s] = "hold"
    /\ status' = [status EXCEPT ![s] = "COMPLETED"]
    /\ pc' = [pc EXCEPT ![s] = "release"]
    /\ UNCHANGED <<session, cam, changing, run, isUsing, curPTZ, failCnt, stray>>

\* The last preset has been held: log out, rewind, mission completed.
HoldEnd(s) ==
    /\ pc[s] = "hold"
    /\ curPTZ' = [curPTZ EXCEPT ![cam[s]] = 0]
    /\ status' = [status EXCEPT ![s] = "COMPLETED"]
    /\ pc' = [pc EXCEPT ![s] = "release"]
    /\ UNCHANGED <<session, cam, changing, run, isUsing, failCnt, stray>>

\* Mutant: the camera is not given back.
MutRelease(s) ==
    /\ pc[s] = "release"
    /\ pc' = [pc EXCEPT ![s] = "wait"]
    /\ UNCHANGED <<session, cam, changing, status, run, isUsing, curPTZ, failCnt, stray>>

\* Between getFreeSDC and MISSION_READY of a heartbeat this is the new camera: it
\* is FREE and about to be driven.
Release(s) ==
    /\ pc[s] = "release"
    /\ isUsing' = [isUsing EXCEPT ![cam[s]] = "FREE"]
    /\ stray' = IF changing[s] THEN stray \cup {cam[s]} ELSE stray
    /\ pc' = [pc EXCEPT ![s] = "wait"]
    /\ UNCHANGED <<session, cam, changing, status, run, curPTZ, failCnt>>

MissoinLoop(s) ==
    \/ LoopExit(s) \/ Fire(s) \/ TurnOk(s) \/ TurnFail(s) \/ FailFree(s)
    \/ Send(s) \/ HoldEnd(s) \/ Release(s)

Next ==
    \E s \in Sessions :
        \/ Connect(s) \/ Login(s) \/ NextMission(s) \/ MissionReady(s) \/ FirstMission(s)
        \/ PictureReceived(s) \/ Disconnect(s) \/ MissoinLoop(s)
        \/ \E g \in Groups \cup {NoGroup} : Regroup(s, g)

\* Each loop has a thread of its own, its timer fires, its sleep and the SDK's
\* calls return; and a handler that has begun goes on.  Nothing is assumed of
\* the devices or of the configuration.
Fairness == \A s \in Sessions : WF_vars(MissoinLoop(s)) /\ WF_vars(MissionReady(s))

Spec == Init /\ [][Next]_vars /\ Fairness

-----------------------------------------------------------------------------
(* Properties.                                                             *)

\* The loop of session s uses camera c, or will at its next iteration, which may
\* wait for the heartbeat under way to make it so.
Drives(s, c) ==
    /\ cam[s] = c
    /\ \/ pc[s] \in Iterating
       \/ pc[s] = "wait" /\ run[s] /\ (status[s] \notin Over \/ changing[s])

\* Two loops never drive one camera, as FREE / BUSY is there to ensure, unless
\* one of these events happened to it: a mission begun without a grant, a
\* heartbeat between a mission's end and its isUsing = FREE, or such an end
\* within a heartbeat that has replaced the camera, the fourth failed turn, a
\* disconnection during an iteration or after the mission's end.
ExclusiveUnlessStray ==
    \A c \in Cameras \ stray, s, t \in Sessions :
        Drives(s, c) /\ Drives(t, c) => s = t

\* And a camera is BUSY exactly while a loop drives it, with the same exception:
\* none is lost to the pool, none is offered while its head is being turned.
BusyIffDrivenUnlessStray ==
    \A c \in Cameras \ stray :
        isUsing[c] = "BUSY" <=> \E s \in Sessions : Drives(s, c)

\* The preset a loop turns to is one the camera has (missionPreset[curPTZposion]
\* is read unchecked), whoever drove the camera before and wherever it stopped.
PositionInRangeUnlessStray ==
    \A s \in Sessions :
        pc[s] = "turn" /\ cam[s] \notin stray => curPTZ[cam[s]] < PresetTotal[cam[s]]

\* An open session that has a camera has a loop to use it: the loop is started
\* once and outlives every mission (NextMission relies on it and starts none).
CameraHasLoop ==
    \A s \in Sessions : up[s] /\ cam[s] # NULL => pc[s] # "none" /\ run[s]

\* A granted camera with presets comes back to the pool, however many of its
\* turns fail and whether or not its device stays, unless it is stray.
CameraComesBack ==
    \A c \in Cameras :
        isUsing[c] = "BUSY" /\ PresetTotal[c] > 0 ~> isUsing[c] = "FREE" \/ c \in stray
=============================================================================
