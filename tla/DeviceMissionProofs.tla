------------------------- MODULE DeviceMissionProofs -------------------------
(***************************************************************************)
(* Proofs about DeviceMission, for any number of sessions, cameras and     *)
(* presets: apart from the cameras recorded in stray, one loop at a time   *)
(* drives a camera, the camera is BUSY exactly then, and the preset turned *)
(* to exists.  The strengthening says which loops have a camera            *)
(* (LoopHasCamera), how run follows the connection (RunFollows), how far   *)
(* the mission status can be from the point its loop has reached           *)
(* (StatusInLoop), and where an unstray camera can stand (PositionInv).    *)
(* UnderWay and ComesNearer count the steps a loop has left.               *)
(*                                                                         *)
(* Then about PresetView, whose steps are DeviceMission's and those of the *)
(* session that turn the camera: between two turns the schedule and the    *)
(* camera are at the position of the loop (Watching), and a camera just    *)
(* turned is one ahead of it until its schedule is sent (Aimed).           *)
(*                                                                         *)
(* And about LoopTimer, through an instance (its variables have the names  *)
(* of DeviceMission's): the thread the timer lives on is there to run what *)
(* waits (Served), each start() has one wait, handler or turn (Counted),   *)
(* and the one loop of a device is on time (OneLoop).                      *)
(***************************************************************************)
EXTENDS PresetView, FiniteSetTheorems, Integers, TLAPS

LoopHasCamera == \A s \in Sessions : pc[s] # "none" => cam[s] \in Cameras

RunFollows ==
    \A s \in Sessions : /\ up[s] => run[s]
                        /\ ~up[s] /\ pc[s] # "none" => ~run[s]

\* The mission is on while the head is turned and over when the loop is about
\* to free the camera; where the session has changed that, the camera is stray.
StatusInLoop ==
    \A s \in Sessions :
        /\ pc[s] = "none" /\ up[s] => status[s] \notin Over
        /\ pc[s] = "turn" => status[s] \notin Over /\ PresetTotal[cam[s]] # 0
        /\ changing[s] => up[s] /\ pc[s] \notin {"none", "turn"} /\ status[s] \in Over
        /\ pc[s] \in {"send", "hold"} /\ status[s] \in Over /\ ~changing[s] => cam[s] \in stray
        /\ pc[s] \in {"failFree", "release"} /\ status[s] \notin Over => cam[s] \in stray
        /\ pc[s] \in Iterating /\ ~run[s] => cam[s] \in stray

\* Only a loop that holds the last preset leaves the position past the end.
PositionInv ==
    \A c \in Cameras \ stray :
        \/ curPTZ[c] = 0
        \/ curPTZ[c] < PresetTotal[c]
        \/ \E s \in Sessions : cam[s] = c /\ pc[s] = "hold"

DInv == /\ TypeOK
        /\ LoopHasCamera
        /\ CameraHasLoop
        /\ RunFollows
        /\ StatusInLoop
        /\ ExclusiveUnlessStray
        /\ BusyIffDrivenUnlessStray
        /\ PositionInv

USE DeviceAssumption

\* The parts that every step of a session or a loop changes for that session
\* only, together, and the parts about cameras.
Local   == LoopHasCamera /\ CameraHasLoop /\ RunFollows /\ StatusInLoop
Sharing == ExclusiveUnlessStray /\ BusyIffDrivenUnlessStray

-----------------------------------------------------------------------------

LEMMA InitDInv == Init => DInv
<1> SUFFICES ASSUME Init PROVE DInv
  OBVIOUS
<1> USE DEF Init
<1>1. TypeOK
  <2>1. \A c \in Cameras : 0 <= PTZCap(c)
    BY DEF PTZCap
  <2> QED BY <2>1 DEF TypeOK, Over
<1>2. Local
  BY DEF Local, LoopHasCamera, CameraHasLoop, RunFollows, StatusInLoop
<1>3. \A s \in Sessions, c \in Cameras : ~Drives(s, c)
  BY DEF Drives
<1>4. Sharing
  BY <1>3 DEF Sharing, ExclusiveUnlessStray, BusyIffDrivenUnlessStray
<1>5. PositionInv
  BY DEF PositionInv
<1> QED BY <1>1, <1>2, <1>4, <1>5 DEF DInv, Local, Sharing

\* What the loops' control and the cameras consist of.
control == <<cam, status, changing, run, pc, isUsing, curPTZ, stray>>

\* Sharing and PositionInv depend on nothing else.
LEMMA ControlKept ==
    ASSUME Sharing, PositionInv, UNCHANGED control
    PROVE  Sharing' /\ PositionInv'
<1>1. \A s \in Sessions, c \in Cameras : Drives(s, c)' <=> Drives(s, c)
  BY DEF control, Drives
<1> QED BY <1>1 DEF control, Sharing, ExclusiveUnlessStray,
                    BusyIffDrivenUnlessStray, PositionInv

\* A step of session s that changes who drives what only by s itself.
OthersKeep(s) ==
    \A t \in Sessions \ {s}, c \in Cameras : Drives(t, c)' <=> Drives(t, c)

LEMMA StepOfOne ==
    ASSUME NEW s \in Sessions,
           \A t \in Sessions \ {s} :
               /\ cam'[t] = cam[t] /\ pc'[t] = pc[t]
               /\ run'[t] = run[t] /\ status'[t] = status[t]
               /\ changing'[t] = changing[t]
    PROVE  OthersKeep(s)
BY DEF OthersKeep, Drives

\* s drives the same cameras as before and marks none.
LEMMA SharingKept ==
    ASSUME Sharing, NEW s \in Sessions, OthersKeep(s), stray' = stray,
           isUsing' = isUsing,
           \A c \in Cameras \ stray : Drives(s, c)' <=> Drives(s, c)
    PROVE  Sharing'
<1>1. \A t \in Sessions, c \in Cameras \ stray : Drives(t, c)' <=> Drives(t, c)
  BY DEF OthersKeep
<1> QED BY <1>1 DEF Sharing, ExclusiveUnlessStray, BusyIffDrivenUnlessStray

\* s takes camera g, FREE until now, and leaves none behind.
LEMMA SharingTaken ==
    ASSUME TypeOK, Sharing, NEW s \in Sessions, OthersKeep(s), stray \subseteq stray',
           NEW g \in Cameras, isUsing[g] = "FREE",
           isUsing' = [isUsing EXCEPT ![g] = "BUSY"],
           \A c \in Cameras \ stray' : ~Drives(s, c),
           \A c \in Cameras \ stray' : Drives(s, c)' <=> c = g
    PROVE  Sharing'
<1>1. \A c \in Cameras : isUsing'[c] = IF c = g THEN "BUSY" ELSE isUsing[c]
  BY DEF TypeOK
<1>2. g \notin stray => \A t \in Sessions : ~Drives(t, g)
  BY DEF Sharing, BusyIffDrivenUnlessStray
<1>3. \A c \in Cameras : c \notin stray' => c \notin stray
  OBVIOUS
<1>4. ExclusiveUnlessStray'
  BY <1>2, <1>3 DEF Sharing, ExclusiveUnlessStray, OthersKeep
<1>5. BusyIffDrivenUnlessStray'
  BY <1>1, <1>2, <1>3 DEF Sharing, BusyIffDrivenUnlessStray, OthersKeep
<1> QED BY <1>4, <1>5 DEF Sharing

\* s frees camera g: its own, or a stray one, or one that was FREE already.
LEMMA SharingFreed ==
    ASSUME TypeOK, Sharing, NEW s \in Sessions, OthersKeep(s),
           stray \subseteq stray',
           NEW g \in Cameras,
           isUsing' = [isUsing EXCEPT ![g] = "FREE"],
           g \notin stray' => Drives(s, g) \/ isUsing[g] = "FREE",
           \A c \in Cameras \ stray' : Drives(s, c)' <=> Drives(s, c) /\ c # g
    PROVE  Sharing'
<1>1. \A c \in Cameras : isUsing'[c] = IF c = g THEN "FREE" ELSE isUsing[c]
  BY DEF TypeOK
<1>2. \A c \in Cameras : c \notin stray' => c \notin stray
  OBVIOUS
<1>3. g \notin stray' => \A t \in Sessions \ {s} : ~Drives(t, g)
  BY <1>2 DEF Sharing, ExclusiveUnlessStray, BusyIffDrivenUnlessStray
<1>4. ExclusiveUnlessStray'
  BY <1>2 DEF Sharing, ExclusiveUnlessStray, OthersKeep
<1>5. ASSUME NEW c \in Cameras, c \notin stray'
      PROVE  isUsing'[c] = "BUSY" <=> \E t \in Sessions : Drives(t, c)'
  <2>1. CASE c = g
    BY <1>1, <1>3, <1>5, <2>1 DEF OthersKeep
  <2>2. CASE c # g
    BY <1>1, <1>2, <1>5, <2>2 DEF Sharing, BusyIffDrivenUnlessStray, OthersKeep
  <2> QED BY <2>1, <2>2
<1>6. BusyIffDrivenUnlessStray'
  BY <1>5 DEF BusyIffDrivenUnlessStray
<1> QED BY <1>4, <1>6 DEF Sharing

-----------------------------------------------------------------------------
(* The session's actions.                                                  *)

LEMMA ConnectDInv ==
    ASSUME DInv, NEW s \in Sessions, Connect(s)
    PROVE  DInv'
<1> USE DEF DInv, Connect
<1>0. ~changing[s]
  BY DEF StatusInLoop
<1>1. TypeOK'
  BY DEF TypeOK, PTZCap
<1>2. Local'
  BY <1>0 DEF TypeOK, Local, LoopHasCamera, CameraHasLoop, RunFollows, StatusInLoop, Over
<1>3. \A c \in Cameras : ~Drives(s, c) /\ ~Drives(s, c)'
  BY DEF Drives, TypeOK, Iterating
<1>4. Sharing'
  BY <1>3, StepOfOne, SharingKept DEF TypeOK, Sharing
<1>5. PositionInv'
  BY DEF PositionInv, TypeOK
<1> QED BY <1>1, <1>2, <1>4, <1>5 DEF Local, Sharing

\* A first camera granted, or nothing.
LEMMA GrantAndStartDInv ==
    ASSUME DInv, NEW s \in Sessions, NEW g, GrantAndStart(s, g), up[s],
           g \in Groups \cup {NoGroup},
           up' = up, group' = group, changing' = changing, run' = run, curPTZ' = curPTZ,
           failCnt' = failCnt, stray' = stray,
           loggedIn' \in [Sessions -> BOOLEAN],
           missionNum' \in [Sessions -> Groups \cup {NoGroup}]
    PROVE  DInv'
<1> USE DEF DInv
<1>1. CASE UNCHANGED <<isUsing, cam, status, pc>>
  <2>1. TypeOK'
    BY <1>1 DEF TypeOK, PTZCap
  <2>2. Local'
    BY <1>1 DEF Local, LoopHasCamera, CameraHasLoop, RunFollows, StatusInLoop
  <2>3. Sharing' /\ PositionInv'
    BY <1>1, ControlKept DEF Sharing, control
  <2> QED BY <2>1, <2>2, <2>3 DEF Local, Sharing
<1>2. ASSUME NotStarted(s), NEW c \in FreeSDC(g), Grant(s, c),
             status' = [status EXCEPT ![s] = "READY"], pc' = [pc EXCEPT ![s] = "wait"]
      PROVE  DInv'
  <2> USE <1>2 DEF Grant, NotStarted
  <2>1. c \in Cameras /\ isUsing[c] = "FREE"
    BY DEF FreeSDC
  <2>2. TypeOK'
    BY <2>1 DEF TypeOK, PTZCap
  <2>3. Local'
    BY <2>1 DEF TypeOK, Local, LoopHasCamera, CameraHasLoop, RunFollows,
                StatusInLoop, Over
  <2>4. \A d \in Cameras : ~Drives(s, d) /\ (Drives(s, d)' <=> d = c)
    BY <2>1 DEF Drives, TypeOK, Iterating, Over, RunFollows
  <2>5. Sharing'
    <3>1. OthersKeep(s)
      BY StepOfOne DEF TypeOK
    <3> QED BY <2>1, <2>4, <3>1, SharingTaken DEF Sharing
  <2>6. PositionInv'
    BY DEF PositionInv, TypeOK
  <2> QED BY <2>2, <2>3, <2>5, <2>6 DEF Local, Sharing
<1> QED BY <1>1, <1>2 DEF GrantAndStart

LEMMA LoginDInv ==
    ASSUME DInv, NEW s \in Sessions, Login(s)
    PROVE  DInv'
BY GrantAndStartDInv DEF Login, Serving, DInv, TypeOK

LEMMA FirstMissionDInv ==
    ASSUME DInv, NEW s \in Sessions, FirstMission(s)
    PROVE  DInv'
BY GrantAndStartDInv DEF FirstMission, Serving, DInv, TypeOK, MissionMatch

\* A heartbeat that replaces the camera: the one left is not driven, or stray; the
\* new one is, by the iteration under way or as soon as the mission is READY.
LEMMA NextMissionDInv ==
    ASSUME DInv, NEW s \in Sessions, NextMission(s)
    PROVE  DInv'
<1> DEFINE g == MissionMatch(s)
<1> USE DEF DInv, NextMission, Serving
<1>1. /\ missionNum' \in [Sessions -> Groups \cup {NoGroup}]
      /\ pc[s] # "none" /\ pc[s] # "turn" /\ cam[s] \in Cameras /\ run[s]
  BY DEF TypeOK, MissionMatch, StatusInLoop, LoopHasCamera, RunFollows
<1>2. CASE UNCHANGED <<isUsing, cam, changing, stray>>
  <2>1. TypeOK'
    BY <1>1, <1>2 DEF TypeOK, PTZCap
  <2>2. Local'
    BY <1>2 DEF Local, LoopHasCamera, CameraHasLoop, RunFollows, StatusInLoop
  <2>3. Sharing' /\ PositionInv'
    BY <1>2, ControlKept DEF Sharing, control
  <2> QED BY <2>1, <2>2, <2>3 DEF Local, Sharing
<1>3. ASSUME NEW c \in FreeSDC(g), Grant(s, c),
             changing' = [changing EXCEPT ![s] = TRUE],
             stray' = IF Freeing(s) THEN stray \cup {cam[s]} ELSE stray
      PROVE  DInv'
  <2> USE <1>1, <1>3 DEF Grant
  <2>1. c \in Cameras /\ isUsing[c] = "FREE"
    BY DEF FreeSDC
  <2>2. TypeOK'
    BY <2>1 DEF TypeOK, PTZCap
  <2>3. stray \subseteq stray' /\ UNCHANGED <<up, status, run, pc, curPTZ>>
    OBVIOUS
  <2>4. /\ cam' = [cam EXCEPT ![s] = c] /\ changing' = [changing EXCEPT ![s] = TRUE]
        /\ cam \in [Sessions -> Cameras \cup {NULL}] /\ changing \in [Sessions -> BOOLEAN]
    BY DEF TypeOK
  <2>5. Local'
    BY <2>1, <2>3, <2>4 DEF Local, LoopHasCamera, CameraHasLoop, RunFollows, StatusInLoop, Over
  <2>6. OthersKeep(s)
    BY StepOfOne DEF TypeOK
  <2>7. \A d \in Cameras : Drives(s, d)' <=> d = c
    BY <2>1, <2>3, <2>4 DEF Drives, TypeOK, Iterating, Over
  <2>8. cam[s] \in stray' \/ pc[s] = "wait"
    BY DEF StatusInLoop, TypeOK, Iterating, Freeing
  <2>9. \A d \in Cameras \ stray' : ~Drives(s, d)
    BY <2>8 DEF Drives, Iterating
  <2>10. Sharing'
    BY <2>1, <2>3, <2>6, <2>7, <2>9, SharingTaken DEF Sharing
  <2>11. PositionInv'
    <3>1. \A d \in Cameras \ stray' : cam[s] = d => pc[s] # "hold"
      BY <2>8
    <3> QED BY <2>3, <2>4, <3>1 DEF PositionInv
  <2> QED BY <2>2, <2>5, <2>10, <2>11 DEF Local, Sharing
<1>4. CASE /\ changing' = [changing EXCEPT ![s] = TRUE]
           /\ stray' = stray \cup {cam[s]}
           /\ UNCHANGED <<isUsing, cam>>
  <2> USE <1>1, <1>4
  <2>1. TypeOK'
    BY DEF TypeOK, PTZCap
  <2>2. Local'
    BY DEF TypeOK, Local, LoopHasCamera, CameraHasLoop, RunFollows,
           StatusInLoop, Over
  <2>3. \A t \in Sessions, c \in Cameras \ stray' : Drives(t, c)' <=> Drives(t, c)
    BY DEF Drives, TypeOK
  <2>4. Sharing'
    BY <2>3 DEF Sharing, ExclusiveUnlessStray, BusyIffDrivenUnlessStray
  <2>5. PositionInv'
    BY DEF PositionInv
  <2> QED BY <2>1, <2>2, <2>4, <2>5 DEF Local, Sharing
<1> QED BY <1>2, <1>3, <1>4

\* The mission is READY: its camera is driven as before, unless it is stray.
LEMMA MissionReadyDInv ==
    ASSUME DInv, NEW s \in Sessions, MissionReady(s)
    PROVE  DInv'
<1> USE DEF DInv, MissionReady, session
<1>1. /\ up[s] /\ run[s] /\ pc[s] \notin {"none", "turn"} /\ cam[s] \in Cameras
      /\ stray \subseteq stray' /\ (Freeing(s) => cam[s] \in stray')
  BY DEF StatusInLoop, RunFollows, LoopHasCamera
<1>2. TypeOK'
  BY <1>1 DEF TypeOK, PTZCap
<1>3. /\ status'[s] = "READY" /\ ~changing'[s]
      /\ \A t \in Sessions \ {s} : status'[t] = status[t] /\ changing'[t] = changing[t]
  BY DEF TypeOK
<1>4. Local'
  BY <1>1, <1>3 DEF Local, LoopHasCamera, CameraHasLoop, RunFollows, StatusInLoop, Over, Freeing
<1>5. \A t \in Sessions, c \in Cameras : Drives(t, c)' <=> Drives(t, c)
  BY <1>1, <1>3 DEF Drives, Over
<1>6. Sharing'
  BY <1>1, <1>5 DEF Sharing, ExclusiveUnlessStray, BusyIffDrivenUnlessStray
<1>7. PositionInv'
  BY <1>1 DEF PositionInv
<1> QED BY <1>2, <1>4, <1>6, <1>7 DEF Local, Sharing

LEMMA ConfigDInv ==
    ASSUME DInv, NEW s \in Sessions,
           PictureReceived(s) \/ \E g \in Groups \cup {NoGroup} : Regroup(s, g)
    PROVE  DInv'
<1> USE DEF DInv, PictureReceived, Regroup
<1>1. TypeOK'
  BY DEF TypeOK, PTZCap
<1>2. Local'
  BY DEF Local, LoopHasCamera, CameraHasLoop, RunFollows, StatusInLoop
<1>3. Sharing' /\ PositionInv'
  BY ControlKept DEF Sharing, control
<1> QED BY <1>1, <1>2, <1>3 DEF Local, Sharing

LEMMA DisconnectDInv ==
    ASSUME DInv, NEW s \in Sessions, Disconnect(s)
    PROVE  DInv'
<1> USE DEF DInv, Disconnect, Serving
<1>1. OthersKeep(s)
  BY StepOfOne DEF TypeOK
<1>2. CASE cam[s] = NULL
  <2>0. pc[s] = "none"
    BY <1>2 DEF LoopHasCamera
  <2>1. TypeOK'
    BY <1>2 DEF TypeOK, PTZCap
  <2>2. Local'
    BY <1>2, <2>0 DEF TypeOK, Local, LoopHasCamera, CameraHasLoop, RunFollows,
                StatusInLoop
  <2>3. Sharing' /\ PositionInv'
    BY <1>2, ControlKept DEF Sharing, control
  <2> QED BY <2>1, <2>2, <2>3 DEF Local, Sharing
<1>3. CASE cam[s] # NULL
  <2> DEFINE c == cam[s]
  <2>1. /\ c \in Cameras /\ pc[s] # "none" /\ run[s]
        /\ run' = [run EXCEPT ![s] = FALSE]
        /\ isUsing' = [isUsing EXCEPT ![c] = "FREE"]
        /\ stray' = IF \/ pc[s] \in Iterating
                       \/ status[s] \in Over /\ isUsing[c] = "BUSY"
                       THEN stray \cup {c} ELSE stray
    BY <1>3 DEF TypeOK, CameraHasLoop
  <2> HIDE DEF Disconnect
  <2> USE <2>1
  <2>2. TypeOK'
    BY DEF TypeOK, PTZCap, Disconnect
  <2>3. Local'
    BY DEF TypeOK, Local, LoopHasCamera, CameraHasLoop, RunFollows,
           StatusInLoop, Over, Iterating, Disconnect
  <2>4. c \notin stray' => Drives(s, c) \/ isUsing[c] = "FREE"
    BY DEF Drives, TypeOK, Disconnect, Iterating
  <2>5. \A d \in Cameras \ stray' : Drives(s, d)' <=> Drives(s, d) /\ d # c
    BY DEF Drives, TypeOK, Disconnect
  <2>6. Sharing'
    BY <1>1, <2>4, <2>5, SharingFreed DEF Sharing
  <2>7. PositionInv'
    BY DEF PositionInv, Disconnect
  <2> QED BY <2>2, <2>3, <2>6, <2>7 DEF Local, Sharing
<1> QED BY <1>2, <1>3

-----------------------------------------------------------------------------
(* The loop's actions.                                                     *)

LEMMA LoopExitDInv ==
    ASSUME DInv, NEW s \in Sessions, LoopExit(s)
    PROVE  DInv'
<1> USE DEF DInv, LoopExit, session
<1>1. TypeOK'
  BY DEF TypeOK, PTZCap
<1>2. Local'
  BY DEF TypeOK, Local, LoopHasCamera, CameraHasLoop, RunFollows, StatusInLoop,
         Iterating
<1>3. \A c \in Cameras : Drives(s, c)' <=> Drives(s, c)
  BY DEF Drives, TypeOK, Iterating
<1>4. Sharing'
  BY <1>3, StepOfOne, SharingKept DEF TypeOK, Sharing
<1>5. PositionInv'
  BY DEF PositionInv, TypeOK
<1> QED BY <1>1, <1>2, <1>4, <1>5 DEF Local, Sharing

LEMMA FireDInv ==
    ASSUME DInv, NEW s \in Sessions, Fire(s)
    PROVE  DInv'
<1> USE DEF DInv, Fire, session
<1>1. TypeOK'
  BY DEF TypeOK, PTZCap, Iterating
<1>2. Local'
  BY DEF TypeOK, Local, LoopHasCamera, CameraHasLoop, RunFollows, StatusInLoop
<1>3. \A c \in Cameras : Drives(s, c)' <=> Drives(s, c)
  BY DEF Drives, TypeOK, Iterating
<1>4. Sharing'
  BY <1>3, StepOfOne, SharingKept DEF TypeOK, Sharing
<1>5. PositionInv'
  BY DEF PositionInv, TypeOK
<1> QED BY <1>1, <1>2, <1>4, <1>5 DEF Local, Sharing

LEMMA TurnDInv ==
    ASSUME DInv, NEW s \in Sessions, TurnOk(s) \/ TurnFail(s)
    PROVE  DInv'
<1> USE DEF DInv, TurnOk, TurnFail, session
<1>1. TypeOK'
  BY DEF TypeOK, PTZCap, Iterating, Over
<1>2. Local'
  BY DEF TypeOK, Local, LoopHasCamera, CameraHasLoop, RunFollows, StatusInLoop, Over
<1>3. \A c \in Cameras : Drives(s, c)' <=> Drives(s, c)
  BY DEF Drives, TypeOK, Iterating
<1>4. Sharing'
  BY <1>3, StepOfOne, SharingKept DEF TypeOK, Sharing
<1>5. PositionInv'
  BY DEF PositionInv, TypeOK
<1> QED BY <1>1, <1>2, <1>4, <1>5 DEF Local, Sharing

LEMMA FailFreeDInv ==
    ASSUME DInv, NEW s \in Sessions, FailFree(s)
    PROVE  DInv'
<1> USE DEF DInv, FailFree, session
<1>0. cam[s] \in Cameras
  BY DEF LoopHasCamera
<1>1. TypeOK'
  BY <1>0 DEF TypeOK, PTZCap, Iterating
<1>2. Local'
  BY DEF TypeOK, Local, LoopHasCamera, CameraHasLoop, RunFollows, StatusInLoop
<1>3. \A c \in Cameras \ stray' : ~Drives(s, c)' /\ ~Drives(s, c)
  BY DEF Drives, TypeOK
<1>4. Sharing'
  BY <1>0, <1>3, StepOfOne, SharingFreed DEF TypeOK, Sharing
<1>5. PositionInv'
  BY DEF PositionInv, TypeOK
<1> QED BY <1>1, <1>2, <1>4, <1>5 DEF Local, Sharing

LEMMA SendDInv ==
    ASSUME DInv, NEW s \in Sessions, Send(s)
    PROVE  DInv'
<1> USE DEF DInv, Send, session
<1> DEFINE c == cam[s]
           next == curPTZ[c] + 1
<1>0. c \in Cameras /\ PresetTotal[c] \in Nat /\ curPTZ[c] \in Nat
  BY DEF LoopHasCamera, TypeOK
<1>a. /\ curPTZ' \in [Cameras -> Nat]
      /\ curPTZ'[c] = IF next > PTZCap(c) THEN PTZCap(c) ELSE next
      /\ \A d \in Cameras \ {c} : curPTZ'[d] = curPTZ[d]
  BY <1>0 DEF TypeOK, PTZCap
<1>b. /\ pc' \in [Sessions -> {"none", "wait"} \cup Iterating]
      /\ pc'[s] = IF next >= PresetTotal[c] THEN "hold" ELSE "wait"
      /\ \A t \in Sessions \ {s} : pc'[t] = pc[t]
  BY DEF TypeOK, Iterating
<1>1. TypeOK'
  BY <1>0, <1>a, <1>b DEF TypeOK, PTZCap
<1>2. Local'
  BY <1>b DEF Local, LoopHasCamera, CameraHasLoop, RunFollows, StatusInLoop,
              Iterating
<1>3. Sharing'
  <2>1. OthersKeep(s)
    BY <1>b, StepOfOne
  <2>2. CASE run[s] \/ pc'[s] = "hold"
    <3>1. \A d \in Cameras \ stray : Drives(s, d)' <=> Drives(s, d)
      BY <1>b, <2>2 DEF Drives, Iterating, StatusInLoop
    <3> QED BY <2>1, <3>1, SharingKept DEF Sharing
  <2>3. CASE ~run[s] /\ pc'[s] = "wait"
    <3>1. c \in stray
      BY <2>3 DEF StatusInLoop, Iterating
    <3>2. \A d \in Cameras \ stray : Drives(s, d)' <=> Drives(s, d)
      BY <3>1 DEF Drives
    <3> QED BY <2>1, <3>2, SharingKept DEF Sharing
  <2> QED BY <1>b, <2>2, <2>3
<1>4. PositionInv'
  <2> SUFFICES ASSUME NEW d \in Cameras \ stray
               PROVE  \/ curPTZ'[d] = 0 \/ curPTZ'[d] < PresetTotal[d]
                      \/ \E t \in Sessions : cam[t] = d /\ pc'[t] = "hold"
    BY DEF PositionInv
  <2>1. CASE d = c
    BY <1>0, <1>a, <1>b, <2>1 DEF PTZCap
  <2>2. CASE d # c
    BY <1>a, <1>b, <2>2 DEF PositionInv
  <2> QED BY <2>1, <2>2
<1> QED BY <1>1, <1>2, <1>3, <1>4 DEF Local, Sharing

LEMMA HoldEndDInv ==
    ASSUME DInv, NEW s \in Sessions, HoldEnd(s)
    PROVE  DInv'
<1> USE DEF DInv, HoldEnd, session
<1>0. cam[s] \in Cameras
  BY DEF LoopHasCamera
<1>1. TypeOK'
  BY <1>0 DEF TypeOK, PTZCap, Iterating, Over
<1>2. Local'
  BY DEF TypeOK, Local, LoopHasCamera, CameraHasLoop, RunFollows, StatusInLoop,
         Over, Iterating
<1>3. \A c \in Cameras : Drives(s, c)' <=> Drives(s, c)
  BY DEF Drives, TypeOK, Iterating
<1>4. Sharing'
  BY <1>3, StepOfOne, SharingKept DEF TypeOK, Sharing
<1>5. PositionInv'
  <2> SUFFICES ASSUME NEW d \in Cameras \ stray
               PROVE  \/ curPTZ'[d] = 0 \/ curPTZ'[d] < PresetTotal[d]
                      \/ \E t \in Sessions : cam[t] = d /\ pc'[t] = "hold"
    BY DEF PositionInv
  <2>1. CASE d = cam[s]
    BY <1>0, <2>1 DEF TypeOK
  <2>2. CASE d # cam[s]
    BY <2>2 DEF PositionInv, TypeOK
  <2> QED BY <2>1, <2>2
<1> QED BY <1>1, <1>2, <1>4, <1>5 DEF Local, Sharing

LEMMA ReleaseDInv ==
    ASSUME DInv, NEW s \in Sessions, Release(s)
    PROVE  DInv'
<1> USE DEF DInv, Release, session
<1>0. cam[s] \in Cameras
  BY DEF LoopHasCamera
<1>1. TypeOK'
  BY <1>0 DEF TypeOK, PTZCap, Iterating
<1>2. Local'
  BY DEF TypeOK, Local, LoopHasCamera, CameraHasLoop, RunFollows, StatusInLoop,
         Iterating
<1>3. Drives(s, cam[s])
  BY DEF Drives, Iterating
<1>4. \A c \in Cameras \ stray' : Drives(s, c)' <=> Drives(s, c) /\ c # cam[s]
  <2>1. cam[s] \in stray' \/ (status[s] \in Over /\ ~changing[s])
    BY DEF StatusInLoop
  <2> QED BY <2>1 DEF Drives, TypeOK, Iterating
<1>5. Sharing'
  <2>1. OthersKeep(s)
    BY StepOfOne DEF TypeOK
  <2>2. PICK g \in Cameras : g = cam[s]
    BY <1>0
  <2>3. /\ TypeOK /\ Sharing /\ stray \subseteq stray' /\ isUsing' = [isUsing EXCEPT ![g] = "FREE"]
        /\ Drives(s, g) /\ \A c \in Cameras \ stray' : Drives(s, c)' <=> Drives(s, c) /\ c # g
    BY <1>3, <1>4, <2>2 DEF Sharing
  <2> HIDE DEF DInv, Release, session
  <2> QED BY <2>1, <2>3, SharingFreed
<1>6. PositionInv'
  BY DEF PositionInv, TypeOK
<1> QED BY <1>1, <1>2, <1>5, <1>6 DEF Local, Sharing

LEMMA StutterDInv == DInv /\ UNCHANGED vars => DInv'
<1> SUFFICES ASSUME DInv, UNCHANGED vars PROVE DInv'
  OBVIOUS
<1> USE DEF DInv, vars, session
<1>1. TypeOK'
  BY DEF TypeOK, PTZCap
<1>2. Local'
  BY DEF Local, LoopHasCamera, CameraHasLoop, RunFollows, StatusInLoop
<1>3. Sharing' /\ PositionInv'
  BY ControlKept DEF Sharing, control
<1> QED BY <1>1, <1>2, <1>3 DEF Local, Sharing

LEMMA StepDInv == DInv /\ [Next]_vars => DInv'
<1> SUFFICES ASSUME DInv, [Next]_vars PROVE DInv'
  OBVIOUS
<1>1. CASE UNCHANGED vars
  BY <1>1, StutterDInv
<1>2. ASSUME NEW s \in Sessions,
             \/ Connect(s) \/ Login(s) \/ NextMission(s) \/ MissionReady(s) \/ FirstMission(s)
             \/ PictureReceived(s) \/ Disconnect(s)
             \/ \E g \in Groups \cup {NoGroup} : Regroup(s, g)
      PROVE  DInv'
  BY <1>2, ConnectDInv, LoginDInv, NextMissionDInv, MissionReadyDInv, FirstMissionDInv, ConfigDInv,
     DisconnectDInv
<1>3. ASSUME NEW s \in Sessions, MissoinLoop(s)
      PROVE  DInv'
  BY <1>3, LoopExitDInv, FireDInv, TurnDInv, FailFreeDInv, SendDInv, HoldEndDInv,
     ReleaseDInv DEF MissoinLoop
<1> QED BY <1>1, <1>2, <1>3 DEF Next

LEMMA SpecDInv == Spec => []DInv
<1> QED BY InitDInv, StepDInv, PTL DEF Spec

-----------------------------------------------------------------------------

\* Type correctness.
THEOREM TypeCorrect == Spec => []TypeOK
<1>1. DInv => TypeOK
  BY DEF DInv
<1> QED BY SpecDInv, <1>1, PTL

\* Two loops drive one camera only after one of the recorded events.
THEOREM DrivingIsExclusive == Spec => []ExclusiveUnlessStray
<1>1. DInv => ExclusiveUnlessStray
  BY DEF DInv
<1> QED BY SpecDInv, <1>1, PTL

\* An unstray camera is BUSY exactly while a loop drives it.
THEOREM BusyMeansDriven == Spec => []BusyIffDrivenUnlessStray
<1>1. DInv => BusyIffDrivenUnlessStray
  BY DEF DInv
<1> QED BY SpecDInv, <1>1, PTL

\* An open session with a camera has a loop that has not been told to stop.
THEOREM CamerasHaveLoops == Spec => []CameraHasLoop
<1>1. DInv => CameraHasLoop
  BY DEF DInv
<1> QED BY SpecDInv, <1>1, PTL

\* The preset an unstray camera is turned to exists.
THEOREM PresetsExist == Spec => []PositionInRangeUnlessStray
<1>1. DInv => PositionInRangeUnlessStray
  <2> SUFFICES ASSUME DInv, NEW s \in Sessions, pc[s] = "turn", cam[s] \notin stray
               PROVE  curPTZ[cam[s]] < PresetTotal[cam[s]]
    BY DEF PositionInRangeUnlessStray
  <2> USE DEF DInv
  <2>1. cam[s] \in Cameras /\ PresetTotal[cam[s]] # 0 /\ Drives(s, cam[s])
    BY DEF LoopHasCamera, StatusInLoop, Drives, Iterating
  <2>2. \A t \in Sessions : cam[t] = cam[s] /\ pc[t] = "hold" => t = s
    BY <2>1 DEF ExclusiveUnlessStray, Drives, Iterating
  <2> QED BY <2>1, <2>2 DEF PositionInv
<1> QED BY SpecDInv, <1>1, PTL

-----------------------------------------------------------------------------
(* What CameraComesBack rests on besides fairness: each step of the loop    *)
(* that drives a camera brings its return nearer, and nothing else puts it  *)
(* off.                                                                     *)

\* Steps the loop of s takes before its camera is FREE, unless a turn fails for
\* good: four for each preset to come, the last of which is held and released.
StepsLeft(s) ==
    IF pc[s] \in {"failFree", "release"} THEN 1
    ELSE IF pc[s] = "hold" THEN 2
    ELSE 4 * (PresetTotal[cam[s]] - curPTZ[cam[s]])
            + (IF pc[s] = "send" THEN 1 ELSE IF pc[s] = "turn" THEN 2 ELSE 3)

\* The guard of the next step for the camera of s: of the iteration under way, of
\* Fire, or of the MissionReady it waits for.
GoesOn(s) ==
    \/ pc[s] \in Iterating
    \/ pc[s] = "wait" /\ run[s] /\ status[s] \notin Over /\ PresetTotal[cam[s]] # 0
    \/ changing[s]

\* A camera with presets that is BUSY and not stray has a loop that can go on
\* with it, if need be after the heartbeat under way, and has a bounded number
\* of steps left.
UnderWay ==
    \A c \in Cameras \ stray : isUsing[c] = "BUSY" /\ PresetTotal[c] > 0 =>
        \E s \in Sessions :
            /\ Drives(s, c) /\ GoesOn(s)
            /\ StepsLeft(s) \in 1 .. 4 * PresetTotal[c] + 3

\* A step of that loop leaves fewer of them, and no other step adds one, takes
\* the loop off the camera or the camera from the loop: it is FREE before, or
\* stray.
ComesNearer ==
    [][\A c \in Cameras \ stray, s \in Sessions :
          Drives(s, c) /\ PresetTotal[c] > 0 =>
              \/ c \in stray'
              \/ isUsing'[c] = "FREE"
              \/ /\ Drives(s, c)'
                 /\ IF MissoinLoop(s) THEN StepsLeft(s)' \in 1 .. StepsLeft(s) - 1
                                      ELSE StepsLeft(s)' = StepsLeft(s)]_vars

\* Where a camera that is driven stands.
LEMMA DrivenAt ==
    ASSUME DInv, NEW c \in Cameras \ stray, NEW s \in Sessions, Drives(s, c), PresetTotal[c] > 0
    PROVE  /\ cam[s] = c /\ PresetTotal[c] \in Nat /\ curPTZ[c] \in Nat
           /\ pc[s] \in {"wait", "turn", "failFree", "send", "hold", "release"}
           /\ pc[s] # "hold" => curPTZ[c] < PresetTotal[c]
           /\ StepsLeft(s) \in 1 .. 4 * PresetTotal[c] + 3
           /\ run[s] /\ (pc[s] \in {"wait", "turn", "send", "hold"} => status[s] \notin Over \/ changing[s])
           /\ \A t \in Sessions \ {s} : ~(cam[t] = c /\ pc[t] \in Iterating)
<1>1. /\ cam[s] = c /\ PresetTotal[c] \in Nat /\ curPTZ[c] \in Nat
      /\ pc[s] \in {"wait", "turn", "failFree", "send", "hold", "release"}
  BY DEF DInv, TypeOK, Drives, Iterating
<1>2. \A t \in Sessions \ {s} : ~(cam[t] = c /\ pc[t] \in Iterating)
  BY DEF DInv, ExclusiveUnlessStray, Drives
<1>3. ASSUME pc[s] # "hold" PROVE curPTZ[c] < PresetTotal[c]
  <2>1. \A t \in Sessions : ~(cam[t] = c /\ pc[t] = "hold")
    BY <1>2, <1>3 DEF Iterating
  <2> QED BY <1>1, <2>1 DEF DInv, PositionInv
<1>4. run[s] /\ (pc[s] \in {"wait", "turn", "send", "hold"} => status[s] \notin Over \/ changing[s])
  BY <1>1 DEF DInv, StatusInLoop, Drives, Iterating
<1>5. StepsLeft(s) \in 1 .. 4 * PresetTotal[c] + 3
  <2>1. CASE pc[s] \in {"failFree", "release", "hold"}
    <3>1. StepsLeft(s) \in {1, 2}
      BY <2>1 DEF StepsLeft
    <3> QED BY <1>1, <3>1
  <2>2. CASE pc[s] \in {"wait", "turn", "send"}
    <3>1. PICK m, p \in Nat : m = PresetTotal[c] /\ p = curPTZ[c] /\ p < m
      BY <1>1, <1>3, <2>2
    <3>2. \E r \in 1 .. 3 : StepsLeft(s) = 4 * (m - p) + r
      BY <1>1, <2>2, <3>1 DEF StepsLeft
    <3>3. \A r \in 1 .. 3 : 4 * (m - p) + r \in 1 .. 4 * m + 3
      BY <3>1
    <3> QED BY <3>1, <3>2, <3>3
  <2> QED BY <1>1, <2>1, <2>2
<1> QED BY <1>1, <1>2, <1>3, <1>4, <1>5

\* The loop itself: every step is one fewer at least.
LEMMA LoopComesNearer ==
    ASSUME DInv, NEW c \in Cameras \ stray, NEW s \in Sessions, Drives(s, c), PresetTotal[c] > 0,
           MissoinLoop(s)
    PROVE  \/ isUsing'[c] = "FREE"
           \/ Drives(s, c)' /\ StepsLeft(s)' \in 1 .. StepsLeft(s) - 1
<1>1. /\ cam[s] = c /\ PresetTotal[c] \in Nat /\ curPTZ[c] \in Nat
      /\ pc[s] \in {"wait", "turn", "failFree", "send", "hold", "release"}
      /\ pc[s] # "hold" => curPTZ[c] < PresetTotal[c]
      /\ run[s] /\ (pc[s] \in {"wait", "turn", "send", "hold"} => status[s] \notin Over \/ changing[s])
  BY DrivenAt
<1>2. /\ pc \in [Sessions -> {"none", "wait"} \cup Iterating]
      /\ isUsing \in [Cameras -> {"FREE", "BUSY"}] /\ curPTZ \in [Cameras -> Nat]
  BY DEF DInv, TypeOK
<1>3. PICK m, p \in Nat : m = PresetTotal[c] /\ p = curPTZ[c]
  BY <1>1
<1>4. CASE LoopExit(s)
  BY <1>1, <1>4 DEF LoopExit
<1>5. CASE FailFree(s) \/ Release(s)
  BY <1>1, <1>2, <1>5 DEF FailFree, Release
<1>6. CASE Fire(s)
  <2>1. pc[s] = "wait" /\ pc'[s] = "turn" /\ UNCHANGED <<cam, curPTZ>>
    BY <1>2, <1>6 DEF Fire
  <2>2. StepsLeft(s) = 4 * (m - p) + 3 /\ StepsLeft(s)' = 4 * (m - p) + 2
    BY <1>1, <1>3, <2>1 DEF StepsLeft
  <2>3. Drives(s, c)'
    BY <1>1, <2>1 DEF Drives, Iterating
  <2> QED BY <1>1, <1>3, <2>1, <2>2, <2>3
<1>7. CASE TurnOk(s) \/ TurnFail(s)
  <2>1. pc[s] = "turn" /\ pc'[s] \in {"send", "failFree"} /\ UNCHANGED <<cam, curPTZ>>
    BY <1>2, <1>7 DEF TurnOk, TurnFail
  <2>2. StepsLeft(s) = 4 * (m - p) + 2 /\ StepsLeft(s)' \in {1, 4 * (m - p) + 1}
    BY <1>1, <1>3, <2>1 DEF StepsLeft
  <2>3. Drives(s, c)'
    BY <1>1, <2>1 DEF Drives, Iterating
  <2> QED BY <1>1, <1>3, <2>1, <2>2, <2>3
<1>8. CASE Send(s)
  <2>1. /\ pc[s] = "send" /\ pc' = [pc EXCEPT ![s] = IF p + 1 >= m THEN "hold" ELSE "wait"]
        /\ curPTZ' = [curPTZ EXCEPT ![c] = IF p + 1 > m + 1 THEN m + 1 ELSE p + 1]
        /\ UNCHANGED <<cam, run, status, changing>>
    BY <1>1, <1>3, <1>8 DEF Send, PTZCap
  <2>2. StepsLeft(s) = 4 * (m - p) + 1 /\ p < m
    BY <1>1, <1>3, <2>1 DEF StepsLeft
  <2>3. CASE p + 1 >= m
    <3>1. pc'[s] = "hold"
      BY <1>2, <2>1, <2>3
    <3>2. StepsLeft(s)' = 2
      BY <3>1 DEF StepsLeft
    <3>3. Drives(s, c)'
      BY <1>1, <2>1, <3>1 DEF Drives, Iterating
    <3> QED BY <2>2, <3>2, <3>3
  <2>4. CASE ~(p + 1 >= m)
    <3>1. pc'[s] = "wait" /\ curPTZ'[c] = p + 1 /\ cam'[s] = c
      BY <1>1, <1>2, <2>1, <2>4
    <3>2. StepsLeft(s)' = 4 * (m - (p + 1)) + 3
      BY <1>3, <3>1 DEF StepsLeft
    <3>3. Drives(s, c)'
      BY <1>1, <2>1, <3>1 DEF Drives
    <3>4. 4 * (m - (p + 1)) + 3 \in 1 .. (4 * (m - p) + 1) - 1
      BY <2>2, <2>4
    <3> QED BY <2>2, <3>2, <3>3, <3>4
  <2> QED BY <2>3, <2>4
<1>9. CASE HoldEnd(s)
  <2>1. pc[s] = "hold" /\ pc'[s] = "release" /\ cam' = cam
    BY <1>2, <1>9 DEF HoldEnd
  <2>2. StepsLeft(s) = 2 /\ StepsLeft(s)' = 1
    BY <2>1 DEF StepsLeft
  <2>3. Drives(s, c)'
    BY <1>1, <2>1 DEF Drives, Iterating
  <2> QED BY <2>2, <2>3
<1> QED BY <1>4, <1>5, <1>6, <1>7, <1>8, <1>9 DEF MissoinLoop

\* StepsLeft and Drives speak of nothing else.
LEMMA StepsKept ==
    ASSUME NEW c \in Cameras, NEW s \in Sessions, Drives(s, c),
           cam'[s] = cam[s], pc'[s] = pc[s], run'[s] = run[s], curPTZ'[c] = curPTZ[c],
           \/ status'[s] = status[s] /\ changing'[s] = changing[s]
           \/ status'[s] \notin Over
    PROVE  Drives(s, c)' /\ StepsLeft(s)' = StepsLeft(s)
<1>1. cam[s] = c
  BY DEF Drives
<1>2. Drives(s, c)'
  BY DEF Drives
<1>3. StepsLeft(s)' = StepsLeft(s)
  BY <1>1 DEF StepsLeft
<1> QED BY <1>2, <1>3

\* The session of that loop: its handlers leave it alone, take its camera away
\* or make it stray.
LEMMA SessionComesNearer ==
    ASSUME DInv, NEW c \in Cameras \ stray, NEW s \in Sessions, Drives(s, c), PresetTotal[c] > 0,
           \/ Connect(s) \/ Login(s) \/ NextMission(s) \/ MissionReady(s) \/ FirstMission(s)
           \/ PictureReceived(s) \/ Disconnect(s)
           \/ \E g \in Groups \cup {NoGroup} : Regroup(s, g)
    PROVE  \/ c \in stray' \/ isUsing'[c] = "FREE"
           \/ Drives(s, c)' /\ StepsLeft(s)' = StepsLeft(s)
<1>1. /\ cam[s] = c /\ c # NULL
      /\ pc[s] \in {"wait", "turn", "failFree", "send", "hold", "release"}
      /\ pc[s] \in {"wait", "turn", "send", "hold"} => status[s] \notin Over \/ changing[s]
      /\ isUsing \in [Cameras -> {"FREE", "BUSY"}]
  BY DrivenAt DEF DInv, TypeOK
<1>2. ~Connect(s)
  BY <1>1 DEF Connect
<1>3. CASE Disconnect(s)
  BY <1>1, <1>3 DEF Disconnect
<1>4. CASE Login(s) \/ FirstMission(s) \/ PictureReceived(s)
             \/ \E g \in Groups \cup {NoGroup} : Regroup(s, g)
  <2>1. UNCHANGED <<cam, status, changing, run, pc, curPTZ>>
    BY <1>1, <1>4 DEF Login, FirstMission, PictureReceived, Regroup, GrantAndStart, NotStarted
  <2> QED BY <2>1, StepsKept
<1>5. CASE NextMission(s)
  <2>1. Freeing(s)
    BY <1>1, <1>5 DEF NextMission, Serving, Freeing
  <2>2. c \in stray' \/ UNCHANGED <<cam, status, changing>>
    BY <1>1, <1>5, <2>1 DEF NextMission
  <2>3. UNCHANGED <<run, pc, curPTZ>>
    BY <1>5 DEF NextMission
  <2> QED BY <2>2, <2>3, StepsKept
<1>6. CASE MissionReady(s)
  <2>1. UNCHANGED <<cam, run, pc, curPTZ>> /\ status'[s] \notin Over
    BY <1>6 DEF MissionReady, session, Over, DInv, TypeOK
  <2> QED BY <2>1, StepsKept
<1> QED BY <1>2, <1>3, <1>4, <1>5, <1>6

\* Another session and its loop: they do not touch the camera's position.
LEMMA OthersComeNoNearer ==
    ASSUME DInv, NEW c \in Cameras \ stray, NEW s \in Sessions, Drives(s, c), PresetTotal[c] > 0,
           NEW t \in Sessions \ {s},
           \/ Connect(t) \/ Login(t) \/ NextMission(t) \/ MissionReady(t) \/ FirstMission(t)
           \/ PictureReceived(t) \/ Disconnect(t) \/ MissoinLoop(t)
           \/ \E g \in Groups \cup {NoGroup} : Regroup(t, g)
    PROVE  Drives(s, c)' /\ StepsLeft(s)' = StepsLeft(s)
<1>1. ~(cam[t] = c /\ pc[t] \in Iterating)
  BY DrivenAt
<1>2. TypeOK
  BY DEF DInv
<1>3. CASE \/ Connect(t) \/ Login(t) \/ NextMission(t) \/ MissionReady(t) \/ FirstMission(t)
           \/ PictureReceived(t) \/ Disconnect(t)
           \/ \E g \in Groups \cup {NoGroup} : Regroup(t, g)
  <2>1. /\ cam'[s] = cam[s] /\ pc'[s] = pc[s] /\ run'[s] = run[s] /\ status'[s] = status[s]
        /\ changing'[s] = changing[s] /\ curPTZ' = curPTZ
    BY <1>2, <1>3 DEF Connect, Login, NextMission, MissionReady, session, FirstMission,
       PictureReceived, Disconnect, Regroup, GrantAndStart, Grant, TypeOK
  <2> QED BY <2>1, StepsKept
<1>4. CASE MissoinLoop(t)
  <2>1. /\ cam' = cam /\ pc'[s] = pc[s] /\ run' = run /\ status'[s] = status[s]
        /\ changing' = changing
    BY <1>2, <1>4 DEF MissoinLoop, LoopExit, Fire, TurnOk, TurnFail, FailFree, Send, HoldEnd,
       Release, TypeOK
  <2>2. curPTZ'[c] = curPTZ[c]
    <3>1. CASE Send(t) \/ HoldEnd(t)
      <4>1. pc[t] \in Iterating
        BY <3>1 DEF Send, HoldEnd, Iterating
      <4>2. cam[t] # c /\ cam[t] \in Cameras
        BY <1>1, <4>1 DEF DInv, LoopHasCamera, Iterating
      <4> QED BY <1>2, <3>1, <4>2 DEF Send, HoldEnd, TypeOK
    <3>2. CASE ~(Send(t) \/ HoldEnd(t))
      BY <1>4, <3>2 DEF MissoinLoop, LoopExit, Fire, TurnOk, TurnFail, FailFree, Release
    <3> QED BY <3>1, <3>2
  <2> QED BY <2>1, <2>2, StepsKept
<1> QED BY <1>3, <1>4

\* A BUSY camera that is not stray is on its way back: its loop can go on, it
\* has a bounded number of steps left, and nothing but that loop's own steps
\* changes it, until the camera is FREE or stray.
THEOREM CamerasAreOnTheirWay == Spec => []UnderWay /\ ComesNearer
<1>1. DInv => UnderWay
  <2> SUFFICES ASSUME DInv, NEW c \in Cameras \ stray, isUsing[c] = "BUSY", PresetTotal[c] > 0
               PROVE  \E s \in Sessions :
                         /\ Drives(s, c) /\ GoesOn(s)
                         /\ StepsLeft(s) \in 1 .. 4 * PresetTotal[c] + 3
    BY DEF UnderWay
  <2>1. PICK s \in Sessions : Drives(s, c)
    BY DEF DInv, BusyIffDrivenUnlessStray
  <2>2. StepsLeft(s) \in 1 .. 4 * PresetTotal[c] + 3
    BY <2>1, DrivenAt
  <2>3. GoesOn(s)
    BY <2>1 DEF Drives, GoesOn
  <2> QED BY <2>1, <2>2, <2>3
<1>2. DInv /\ [Next]_vars
        => [\A c \in Cameras \ stray, s \in Sessions :
               Drives(s, c) /\ PresetTotal[c] > 0 =>
                   \/ c \in stray'
                   \/ isUsing'[c] = "FREE"
                   \/ /\ Drives(s, c)'
                      /\ IF MissoinLoop(s) THEN StepsLeft(s)' \in 1 .. StepsLeft(s) - 1
                                           ELSE StepsLeft(s)' = StepsLeft(s)]_vars
  <2> SUFFICES ASSUME DInv, Next, NEW c \in Cameras \ stray, NEW s \in Sessions,
                      Drives(s, c), PresetTotal[c] > 0
               PROVE  \/ c \in stray'
                      \/ isUsing'[c] = "FREE"
                      \/ /\ Drives(s, c)'
                         /\ IF MissoinLoop(s) THEN StepsLeft(s)' \in 1 .. StepsLeft(s) - 1
                                              ELSE StepsLeft(s)' = StepsLeft(s)
    OBVIOUS
  <2>1. CASE MissoinLoop(s)
    BY <2>1, LoopComesNearer
  <2>2. CASE ~MissoinLoop(s)
    <3>1. PICK t \in Sessions :
            \/ Connect(t) \/ Login(t) \/ NextMission(t) \/ MissionReady(t) \/ FirstMission(t)
            \/ PictureReceived(t) \/ Disconnect(t) \/ MissoinLoop(t)
            \/ \E g \in Groups \cup {NoGroup} : Regroup(t, g)
      BY DEF Next
    <3>2. CASE t = s
      BY <2>2, <3>1, <3>2, SessionComesNearer
    <3>3. CASE t # s
      BY <2>2, <3>1, <3>3, OthersComeNoNearer
    <3> QED BY <3>2, <3>3
  <2> QED BY <2>1, <2>2
<1> QED BY SpecDInv, <1>1, <1>2, PTL DEF Spec, ComesNearer

-----------------------------------------------------------------------------
(* Where the cameras look (module PresetView).                             *)

\* reload_Preset turns to a preset the loop has stood at.
ReloadBound == \A s \in Sessions : reloading[s] # NoPreset => reloading[s] <= PTZCap(cam[s])

\* What it has chosen is where the loop stands, until the loop goes on.
Timely ==
    \A s \in Sessions :
        reloading[s] # NoPreset /\ s \notin late => curPTZ[cam[s]] = reloading[s]

\* Between two turns the last schedule and the camera are at the loop's position.
Watching ==
    \A s \in Sessions :
        /\ sched[s] # NoPreset
        /\ Drives(s, cam[s])
        /\ pc[s] \in {"wait", "hold"}
        /\ cam[s] \notin stray
        => /\ sched[s] = curPTZ[cam[s]]
           /\ cam[s] \notin moved => faces[cam[s]] = curPTZ[cam[s]]

\* A camera that was turned is one ahead of it until the schedule is sent.
Aimed ==
    \A s \in Sessions :
        pc[s] = "send" /\ cam[s] \notin stray \cup moved => faces[cam[s]] = curPTZ[cam[s]] + 1

\* An unstray camera with presets never stands past the last.
Within ==
    \A c \in Cameras \ stray : PresetTotal[c] # 0 => curPTZ[c] <= PresetTotal[c]

VInv == DInv /\ ViewTypeOK /\ ReloadBound /\ Timely /\ Within /\ Watching /\ Aimed

\* Every step here is one of DeviceMission or leaves its variables alone.
LEMMA ViewStep == [ViewNext]_<<vars, view>> => [Next]_vars
<1>1. ASSUME NEW s \in Sessions, Handler(s) \/ LoopElse(s) PROVE Next
  BY <1>1 DEF Handler, LoopElse, Next, MissoinLoop
<1>2. ASSUME NEW s \in Sessions, ViewTurnOk(s) \/ ViewTurnFail(s) \/ ViewSend(s) \/ ViewHoldEnd(s)
      PROVE  Next
  BY <1>2 DEF ViewTurnOk, ViewTurnFail, ViewSend, ViewHoldEnd, Next, MissoinLoop
<1>3. ASSUME NEW s \in Sessions, threeD_Request(s) \/ reload_Preset(s) \/ ReloadTurn(s)
      PROVE  UNCHANGED vars
  BY <1>3 DEF threeD_Request, reload_Preset, ReloadTurn
<1>4. ASSUME NEW s \in Sessions, \E g \in Groups \cup {NoGroup} : Regroup(s, g) /\ UNCHANGED view
      PROVE  Next
  BY <1>4 DEF Next
<1> QED
  BY <1>1, <1>2, <1>3, <1>4 DEF ViewNext

\* The parts about t depend on this much.
Same(t) ==
    /\ cam'[t] = cam[t] /\ pc'[t] = pc[t] /\ run'[t] = run[t]
    /\ status'[t] = status[t] /\ changing'[t] = changing[t]
    /\ sched'[t] = sched[t] /\ reloading'[t] = reloading[t]

LEMMA ViewInitInv == ViewInit => VInv
<1> SUFFICES ASSUME ViewInit PROVE VInv
  OBVIOUS
<1>1. DInv
  BY InitDInv DEF ViewInit
<1>2. ViewTypeOK
  BY DEF ViewInit, ViewTypeOK, NoPreset, PTZCap
<1>3. ReloadBound /\ Timely /\ Within /\ Watching
  BY DEF ViewInit, Init, ReloadBound, Timely, Within, Watching
<1>4. Aimed
  BY DEF ViewInit, Init, Aimed
<1> QED
  BY <1>1, <1>2, <1>3, <1>4 DEF VInv

\* What a handler changes: at most what its own session is at.
LEMMA HandlerChanges ==
    ASSUME DInv, NEW s \in Sessions, Handler(s)
    PROVE  /\ \A t \in Sessions \ {s} : Same(t)
           /\ stray \subseteq stray' /\ curPTZ' = curPTZ
           /\ \/ pc'[s] = pc[s]
              \/ pc[s] = "none" /\ pc'[s] = "wait" /\ cam'[s] # cam[s]
           /\ run'[s] => run[s] \/ pc[s] = "none"
<1> USE DEF DInv
<1>1. \A t \in Sessions \ {s} : sched'[t] = sched[t] /\ reloading'[t] = reloading[t]
  BY DEF Handler
<1>2. CASE Connect(s)
  BY <1>1, <1>2 DEF Connect, Same, TypeOK
<1>3. ASSUME NEW g \in Groups \cup {NoGroup}, GrantAndStart(s, g), up[s],
             changing' = changing, run' = run, stray' = stray, curPTZ' = curPTZ
      PROVE  /\ \A t \in Sessions \ {s} : Same(t)
             /\ stray \subseteq stray' /\ curPTZ' = curPTZ
             /\ \/ pc'[s] = pc[s]
                \/ pc[s] = "none" /\ pc'[s] = "wait" /\ cam'[s] # cam[s]
             /\ run'[s] => run[s] \/ pc[s] = "none"
  <2>1. CASE UNCHANGED <<isUsing, cam, status, pc>>
    BY <1>1, <1>3, <2>1 DEF Same
  <2>2. ASSUME NotStarted(s), NEW c \in FreeSDC(g), Grant(s, c),
               status' = [status EXCEPT ![s] = "READY"], pc' = [pc EXCEPT ![s] = "wait"]
        PROVE  /\ \A t \in Sessions \ {s} : Same(t)
               /\ pc[s] = "none" /\ pc'[s] = "wait" /\ cam'[s] # cam[s]
    <3>1. pc[s] = "none" /\ cam[s] = NULL
      BY <1>3, <2>2 DEF NotStarted, CameraHasLoop
    <3>2. c \in Cameras
      BY DEF FreeSDC
    <3> QED
      BY <1>1, <1>3, <2>2, <3>1, <3>2 DEF Grant, Same, TypeOK
  <2> QED
    BY <1>3, <2>1, <2>2 DEF GrantAndStart
<1>4. CASE Login(s) \/ FirstMission(s)
  BY <1>3, <1>4 DEF Login, FirstMission, Serving, MissionMatch, TypeOK
<1>5. CASE NextMission(s) \/ MissionReady(s)
  BY <1>1, <1>5 DEF NextMission, MissionReady, session, Grant, Same, TypeOK
<1>6. CASE PictureReceived(s)
  BY <1>1, <1>6 DEF PictureReceived, Same
<1>7. CASE Disconnect(s)
  BY <1>1, <1>7 DEF Disconnect, Same, TypeOK
<1> QED
  BY <1>2, <1>4, <1>5, <1>6, <1>7 DEF Handler

LEMMA HandlerVInv ==
    ASSUME VInv, DInv', NEW s \in Sessions, Handler(s)
    PROVE  VInv'
<1>1. /\ \A t \in Sessions \ {s} : Same(t)
      /\ stray \subseteq stray' /\ curPTZ' = curPTZ
      /\ \/ pc'[s] = pc[s]
         \/ pc[s] = "none" /\ pc'[s] = "wait" /\ cam'[s] # cam[s]
      /\ run'[s] => run[s] \/ pc[s] = "none"
  BY HandlerChanges DEF VInv
<1>2. /\ reloading[s] = NoPreset /\ UNCHANGED <<faces, reloading, late>>
      /\ moved \subseteq moved'
      /\ pc[s] = "send" /\ cam'[s] # cam[s] => cam'[s] \in moved'
      /\ sched'[s] # NoPreset => cam'[s] = cam[s] /\ sched'[s] = sched[s]
  BY DEF Handler, VInv, ViewTypeOK, NoPreset
\* Whom a handler leaves with a schedule it does not set to work.
<1>7. sched'[s] # NoPreset /\ Drives(s, cam[s])' => Drives(s, cam[s])
  <2> SUFFICES ASSUME sched'[s] # NoPreset, Drives(s, cam[s])'
               PROVE  Drives(s, cam[s])
    OBVIOUS
  <2>1. cam'[s] = cam[s] /\ (changing'[s] => changing[s])
    BY DEF Handler, VInv, ViewTypeOK, NoPreset
  <2>2. pc'[s] = pc[s] /\ (run'[s] => run[s] \/ pc[s] = "none")
    BY <1>1, <2>1
  <2>3. status'[s] \notin Over => status[s] \notin Over \/ changing[s] \/ pc[s] = "none"
    <3>1. CASE Login(s) \/ FirstMission(s)
      BY <3>1 DEF Login, FirstMission, GrantAndStart, NotStarted
    <3>2. CASE Connect(s)
      BY <3>2 DEF Connect
    <3>3. CASE NextMission(s) \/ MissionReady(s) \/ PictureReceived(s) \/ Disconnect(s)
      BY <3>3 DEF NextMission, MissionReady, PictureReceived, Disconnect
    <3> QED BY <3>1, <3>2, <3>3 DEF Handler
  <2> QED BY <2>1, <2>2, <2>3 DEF Drives, Iterating
<1>3. ViewTypeOK'
  <2>1. sched' \in [Sessions -> Nat]
    BY DEF Handler, VInv, ViewTypeOK, NoPreset
  <2>2. moved' \in SUBSET Cameras
    <3>1. pc[s] = "send" => cam'[s] \in Cameras
      BY <1>1 DEF VInv, DInv, LoopHasCamera
    <3> QED
      BY <3>1 DEF Handler, VInv, ViewTypeOK
  <2> QED
    BY <1>1, <1>2, <2>1, <2>2 DEF VInv, ViewTypeOK, PTZCap, Same
<1>4. ReloadBound' /\ Timely' /\ Within'
  BY <1>1, <1>2 DEF VInv, ReloadBound, Timely, Within, PTZCap, Same
<1>5. Watching'
  <2> SUFFICES ASSUME NEW t \in Sessions, sched'[t] # NoPreset, Drives(t, cam[t])',
                      pc'[t] \in {"wait", "hold"}, cam'[t] \notin stray'
               PROVE  /\ sched'[t] = curPTZ'[cam'[t]]
                      /\ cam'[t] \notin moved' => faces'[cam'[t]] = curPTZ'[cam'[t]]
    BY DEF Watching
  <2>1. /\ cam'[t] = cam[t] /\ sched'[t] = sched[t] /\ pc'[t] = pc[t]
    BY <1>1, <1>2 DEF Same
  <2>2. Drives(t, cam[t])
    <3>1. CASE t = s
      BY <1>7, <2>1, <3>1
    <3>2. CASE t # s
      BY <1>1, <3>2 DEF Same, Drives
    <3> QED BY <3>1, <3>2
  <2> QED
    BY <1>1, <1>2, <2>1, <2>2 DEF VInv, Watching
<1>6. Aimed'
  BY <1>1, <1>2 DEF VInv, Aimed, Same
<1> QED
  BY <1>3, <1>4, <1>5, <1>6 DEF VInv

\* A close-up: the camera has moved.
LEMMA threeDVInv ==
    ASSUME VInv, DInv', NEW s \in Sessions, threeD_Request(s)
    PROVE  VInv'
<1>1. /\ UNCHANGED <<cam, pc, run, status, changing, curPTZ, stray, sched, reloading, late>>
      /\ cam[s] \in Cameras
      /\ faces' = [faces EXCEPT ![cam[s]] = NoPreset]
      /\ moved' = moved \cup {cam[s]}
  BY DEF threeD_Request, vars, session, VInv, DInv, TypeOK
<1>2. ViewTypeOK'
  BY <1>1 DEF VInv, ViewTypeOK, PTZCap, NoPreset, DInv, TypeOK
<1>3. ReloadBound' /\ Timely' /\ Within'
  BY <1>1 DEF VInv, ReloadBound, Timely, Within, PTZCap
<1>4. \A c \in Cameras : c \notin moved' => faces'[c] = faces[c]
  BY <1>1 DEF VInv, ViewTypeOK
<1>5. Watching'
  BY <1>1, <1>4 DEF VInv, Watching, Drives, DInv, LoopHasCamera
<1>6. Aimed'
  BY <1>1, <1>4 DEF VInv, Aimed, DInv, LoopHasCamera
<1> QED
  BY <1>2, <1>3, <1>5, <1>6 DEF VInv

LEMMA ReloadPresetVInv ==
    ASSUME VInv, DInv', NEW s \in Sessions, reload_Preset(s)
    PROVE  VInv'
<1> DEFINE c == cam[s]
<1>1. /\ UNCHANGED <<cam, pc, run, status, changing, curPTZ, stray, faces, sched, late, moved>>
      /\ c \in Cameras /\ c # NULL /\ curPTZ[c] > 0
      /\ reloading' = [reloading EXCEPT ![s] = curPTZ[c]]
      /\ reloading \in [Sessions -> Nat] /\ curPTZ[c] \in Nat /\ curPTZ[c] <= PTZCap(c)
  BY DEF reload_Preset, vars, session, VInv, DInv, TypeOK, ViewTypeOK
<1>2. /\ reloading' \in [Sessions -> Nat] /\ reloading'[s] = curPTZ[c]
      /\ \A t \in Sessions : t # s => reloading'[t] = reloading[t]
  BY <1>1
\* An unstray camera with presets stands at one or before the first.
<1>3. c \in stray \/ PresetTotal[c] = 0 \/ curPTZ[c] <= PresetTotal[c]
  BY <1>1 DEF VInv, Within
<1>4. ViewTypeOK'
  BY <1>1, <1>2, <1>3 DEF VInv, ViewTypeOK, PTZCap
<1>5. ReloadBound' /\ Timely' /\ Within'
  BY <1>1, <1>2 DEF VInv, ReloadBound, Timely, Within, PTZCap
<1>6. Watching' /\ Aimed'
  BY <1>1 DEF VInv, Watching, Aimed, Drives
<1> QED
  BY <1>4, <1>5, <1>6 DEF VInv

\* A choice that is still timely is where the loop stands; one that is not, or
\* that comes between a turn and its schedule, moves the camera.
LEMMA ReloadTurnVInv ==
    ASSUME VInv, DInv', NEW s \in Sessions, ReloadTurn(s)
    PROVE  VInv'
<1> DEFINE c == cam[s]
<1>1. /\ UNCHANGED <<cam, pc, run, status, changing, curPTZ, stray, sched>>
      /\ reloading[s] # NoPreset
      /\ reloading' = [reloading EXCEPT ![s] = NoPreset]
      /\ late' = late \ {s}
      /\ \/ /\ faces' = [faces EXCEPT ![c] = reloading[s]]
            /\ moved' = IF s \in late \/ Turned(c) THEN moved \cup {c} ELSE moved \ {c}
         \/ UNCHANGED <<faces, moved>>
  BY DEF ReloadTurn, vars, session
<1>2. /\ c \in Cameras
      /\ reloading[s] \in Nat /\ reloading[s] <= PTZCap(c)
      /\ s \notin late => curPTZ[c] = reloading[s]
  BY <1>1 DEF VInv, DInv, TypeOK, ViewTypeOK, ReloadBound, Timely
<1>3. /\ reloading' \in [Sessions -> Nat] /\ reloading'[s] = NoPreset
      /\ \A t \in Sessions : t # s => reloading'[t] = reloading[t]
  BY <1>1 DEF VInv, ViewTypeOK, NoPreset
<1>4. /\ faces' \in [Cameras -> Nat]
      /\ \A d \in Cameras : faces'[d] = faces[d] \/ (d = c /\ faces'[d] = reloading[s])
      /\ moved' \in SUBSET Cameras
  BY <1>1, <1>2 DEF VInv, ViewTypeOK
<1>5. ViewTypeOK'
  <2>1. \A d \in Cameras : faces'[d] <= PTZCap(d) + 1
    BY <1>2, <1>4 DEF VInv, ViewTypeOK, PTZCap, DInv, TypeOK
  <2> QED
    BY <1>1, <1>3, <1>4, <2>1 DEF VInv, ViewTypeOK, PTZCap
<1>6. ReloadBound' /\ Timely' /\ Within'
  BY <1>1, <1>3 DEF VInv, ReloadBound, Timely, Within, PTZCap
\* A camera that counts as unmoved either was, or is at its loop's position.
<1>7. ASSUME NEW d \in Cameras, d \notin moved'
      PROVE  \/ d \notin moved /\ faces'[d] = faces[d]
             \/ d = c /\ faces'[d] = curPTZ[d] /\ ~Turned(d)
  BY <1>1, <1>2, <1>7 DEF VInv, ViewTypeOK
<1>8. Watching'
  BY <1>1, <1>7 DEF VInv, Watching, Drives, DInv, LoopHasCamera
<1>9. Aimed'
  BY <1>1, <1>7 DEF VInv, Aimed, Turned, DInv, LoopHasCamera
<1> QED
  BY <1>5, <1>6, <1>8, <1>9 DEF VInv

\* Who else drives the camera of an iteration: nobody, unless it is stray.
LEMMA Alone ==
    ASSUME DInv, NEW s \in Sessions, pc[s] \in Iterating, cam[s] \notin stray,
           NEW t \in Sessions, cam[t] = cam[s], Drives(t, cam[t])
    PROVE  t = s
<1>1. cam[s] \in Cameras
  BY DEF DInv, LoopHasCamera, Iterating
<1> QED
  BY <1>1 DEF DInv, ExclusiveUnlessStray, Drives

LEMMA ViewTurnVInv ==
    ASSUME VInv, DInv', NEW s \in Sessions, ViewTurnOk(s) \/ ViewTurnFail(s)
    PROVE  VInv'
<1> DEFINE c == cam[s]
<1>1. /\ UNCHANGED <<cam, changing, run, curPTZ, stray, sched, reloading, late>>
      /\ pc[s] = "turn" /\ pc'[s] \in {"send", "failFree"}
      /\ \A t \in Sessions : t # s => pc'[t] = pc[t] /\ status'[t] = status[t]
  BY DEF ViewTurnOk, ViewTurnFail, TurnOk, TurnFail, session, VInv, DInv, TypeOK
<1>2. c \in Cameras /\ curPTZ[c] \in Nat /\ curPTZ[c] <= PTZCap(c) /\ PTZCap(c) \in Nat
  BY <1>1 DEF VInv, DInv, LoopHasCamera, TypeOK, PTZCap
<1>3. /\ faces' \in [Cameras -> Nat] /\ moved' \in SUBSET Cameras
      /\ \A d \in Cameras : d # c => faces'[d] = faces[d] /\ (d \in moved' <=> d \in moved)
      /\ c \notin moved' => faces'[c] = curPTZ[c] + 1
      /\ faces'[c] = curPTZ[c] + 1 \/ faces'[c] = faces[c]
  BY <1>2 DEF ViewTurnOk, ViewTurnFail, VInv, ViewTypeOK
<1>4. ViewTypeOK'
  <2>1. \A d \in Cameras : faces'[d] <= PTZCap(d) + 1
    BY <1>2, <1>3 DEF VInv, ViewTypeOK, PTZCap
  <2> QED
    BY <1>1, <1>3, <2>1 DEF VInv, ViewTypeOK, PTZCap
<1>5. ReloadBound' /\ Timely' /\ Within'
  BY <1>1 DEF VInv, ReloadBound, Timely, Within, PTZCap
<1>6. \A t \in Sessions : t # s /\ Drives(t, cam[t]) => cam[t] \in stray \/ cam[t] # c
  BY <1>1, Alone DEF VInv, Iterating
<1>7. Watching'
  <2> SUFFICES ASSUME NEW t \in Sessions, sched'[t] # NoPreset, Drives(t, cam[t])',
                      pc'[t] \in {"wait", "hold"}, cam'[t] \notin stray'
               PROVE  /\ sched'[t] = curPTZ'[cam'[t]]
                      /\ cam'[t] \notin moved' => faces'[cam'[t]] = curPTZ'[cam'[t]]
    BY DEF Watching
  <2>1. t # s /\ Drives(t, cam[t])
    BY <1>1 DEF Drives
  <2>2. cam[t] \in Cameras /\ cam[t] # c
    BY <1>1, <1>6, <2>1 DEF VInv, DInv, LoopHasCamera
  <2> QED
    BY <1>1, <1>3, <2>1, <2>2 DEF VInv, Watching
<1>8. Aimed'
  <2> SUFFICES ASSUME NEW t \in Sessions, pc'[t] = "send", cam'[t] \notin stray' \cup moved'
               PROVE  faces'[cam'[t]] = curPTZ'[cam'[t]] + 1
    BY DEF Aimed
  <2>1. CASE t = s
    BY <1>1, <1>3, <2>1
  <2>2. CASE t # s
    <3>1. Drives(t, cam[t])
      BY <1>1, <2>2 DEF Drives, Iterating
    <3>2. cam[t] \in Cameras /\ cam[t] # c
      BY <1>1, <1>6, <2>2, <3>1 DEF VInv, DInv, LoopHasCamera
    <3> QED
      BY <1>1, <1>3, <2>2, <3>2 DEF VInv, Aimed
  <2> QED
    BY <2>1, <2>2
<1> QED
  BY <1>4, <1>5, <1>7, <1>8 DEF VInv

\* The position moves on to the preset of the schedule, where the camera was turned.
LEMMA ViewSendVInv ==
    ASSUME VInv, DInv', NEW s \in Sessions, ViewSend(s)
    PROVE  VInv'
<1> DEFINE c == cam[s]
<1>1. /\ UNCHANGED <<cam, status, changing, run, stray, faces, reloading, moved>>
      /\ pc[s] = "send"
      /\ sched' = [sched EXCEPT ![s] = curPTZ[c] + 1]
      /\ late' = late \cup Overtaken(c)
      /\ curPTZ' = [curPTZ EXCEPT ![c] = IF curPTZ[c] + 1 > PTZCap(c) THEN PTZCap(c)
                                         ELSE curPTZ[c] + 1]
      /\ pc' = [pc EXCEPT ![s] = IF curPTZ[c] + 1 >= PresetTotal[c] THEN "hold" ELSE "wait"]
  BY DEF ViewSend, Send, session
<1>2. c \in Cameras /\ curPTZ[c] \in Nat /\ PresetTotal[c] \in Nat
  BY <1>1 DEF VInv, DInv, LoopHasCamera, TypeOK
<1>3. /\ pc'[s] \in {"hold", "wait"} /\ \A t \in Sessions : t # s => pc'[t] = pc[t]
      /\ sched' \in [Sessions -> Nat] /\ sched'[s] = curPTZ[c] + 1
      /\ \A t \in Sessions : t # s => sched'[t] = sched[t]
      /\ \A d \in Cameras : d # c => curPTZ'[d] = curPTZ[d]
  BY <1>1, <1>2 DEF VInv, DInv, TypeOK, ViewTypeOK
\* Where the camera stood before: nobody holds it, so at a preset it has, or at none.
<1>4. c \notin stray => /\ curPTZ'[c] = curPTZ[c] + 1
                        /\ PresetTotal[c] # 0 => curPTZ'[c] <= PresetTotal[c]
  <2> SUFFICES ASSUME c \notin stray
               PROVE  /\ curPTZ'[c] = curPTZ[c] + 1
                      /\ PresetTotal[c] # 0 => curPTZ'[c] <= PresetTotal[c]
    OBVIOUS
  <2>1. \A t \in Sessions : cam[t] = c => pc[t] # "hold"
    BY <1>1, Alone DEF VInv, Iterating, Drives
  <2>2. curPTZ[c] = 0 \/ curPTZ[c] < PresetTotal[c]
    BY <1>2, <2>1 DEF VInv, DInv, PositionInv
  <2>3. curPTZ'[c] = IF curPTZ[c] + 1 > PTZCap(c) THEN PTZCap(c) ELSE curPTZ[c] + 1
    BY <1>1, <1>2 DEF VInv, DInv, TypeOK
  <2> QED
    BY <1>2, <2>2, <2>3 DEF PTZCap
<1>5. ViewTypeOK'
  <2>1. late' \in SUBSET Sessions
    BY <1>1 DEF VInv, ViewTypeOK, Overtaken
  <2> QED
    BY <1>1, <1>3, <2>1 DEF VInv, ViewTypeOK, PTZCap
<1>6. ReloadBound' /\ Within'
  BY <1>1, <1>3, <1>4 DEF VInv, ReloadBound, Within, PTZCap
<1>7. Timely'
  <2>1. ASSUME NEW t \in Sessions, reloading[t] # NoPreset, t \notin late'
        PROVE  t \notin late /\ cam[t] # c /\ cam[t] \in Cameras
    BY <1>1, <2>1 DEF Overtaken, VInv, ViewTypeOK, DInv, TypeOK
  <2> QED
    BY <1>1, <1>3, <2>1 DEF VInv, Timely
<1>8. \A t \in Sessions : t # s /\ Drives(t, cam[t]) => cam[t] \in stray \/ cam[t] # c
  BY <1>1, Alone DEF VInv, Iterating
<1>9. Watching'
  <2> SUFFICES ASSUME NEW t \in Sessions, sched'[t] # NoPreset, Drives(t, cam[t])',
                      pc'[t] \in {"wait", "hold"}, cam'[t] \notin stray'
               PROVE  /\ sched'[t] = curPTZ'[cam'[t]]
                      /\ cam'[t] \notin moved' => faces'[cam'[t]] = curPTZ'[cam'[t]]
    BY DEF Watching
  <2>1. CASE t = s
    BY <1>1, <1>3, <1>4, <2>1 DEF VInv, Aimed
  <2>2. CASE t # s
    <3>1. Drives(t, cam[t])
      BY <1>1, <1>3, <2>2 DEF Drives
    <3>2. cam[t] \in Cameras /\ cam[t] # c
      BY <1>1, <1>3, <1>8, <2>2, <3>1 DEF VInv, DInv, LoopHasCamera
    <3> QED
      BY <1>1, <1>3, <2>2, <3>1, <3>2 DEF VInv, Watching
  <2> QED
    BY <2>1, <2>2
<1>10. Aimed'
  <2> SUFFICES ASSUME NEW t \in Sessions, pc'[t] = "send", cam'[t] \notin stray' \cup moved'
               PROVE  faces'[cam'[t]] = curPTZ'[cam'[t]] + 1
    BY DEF Aimed
  <2>1. t # s /\ pc[t] = "send" /\ Drives(t, cam[t])
    BY <1>3 DEF Drives, Iterating
  <2>2. cam[t] \in Cameras /\ cam[t] # c
    BY <1>1, <1>8, <2>1 DEF VInv, DInv, LoopHasCamera
  <2> QED
    BY <1>1, <1>3, <2>1, <2>2 DEF VInv, Aimed
<1> QED
  BY <1>5, <1>6, <1>7, <1>9, <1>10 DEF VInv

\* The mission is over: its schedule is no longer watched by.
LEMMA ViewHoldEndVInv ==
    ASSUME VInv, DInv', NEW s \in Sessions, ViewHoldEnd(s)
    PROVE  VInv'
<1> DEFINE c == cam[s]
<1>1. /\ UNCHANGED <<cam, changing, run, stray, faces, sched, reloading, moved>>
      /\ pc[s] = "hold"
      /\ late' = late \cup Overtaken(c)
      /\ curPTZ' = [curPTZ EXCEPT ![c] = 0]
      /\ pc' = [pc EXCEPT ![s] = "release"]
      /\ status' = [status EXCEPT ![s] = "COMPLETED"]
  BY DEF ViewHoldEnd, HoldEnd, session
<1>2. c \in Cameras
  BY <1>1 DEF VInv, DInv, LoopHasCamera
<1>3. /\ pc'[s] = "release"
      /\ \A t \in Sessions : t # s => pc'[t] = pc[t] /\ status'[t] = status[t]
      /\ \A d \in Cameras : d # c => curPTZ'[d] = curPTZ[d]
      /\ curPTZ'[c] = 0
  BY <1>1, <1>2 DEF VInv, DInv, TypeOK
<1>4. ViewTypeOK'
  <2>1. late' \in SUBSET Sessions
    BY <1>1 DEF VInv, ViewTypeOK, Overtaken
  <2> QED
    BY <1>1, <2>1 DEF VInv, ViewTypeOK, PTZCap
<1>5. ReloadBound' /\ Within'
  BY <1>1, <1>3 DEF VInv, ReloadBound, Within, PTZCap
<1>6. Timely'
  <2>1. ASSUME NEW t \in Sessions, reloading[t] # NoPreset, t \notin late'
        PROVE  t \notin late /\ cam[t] # c /\ cam[t] \in Cameras
    BY <1>1, <2>1 DEF Overtaken, VInv, ViewTypeOK, DInv, TypeOK
  <2> QED
    BY <1>1, <1>3, <2>1 DEF VInv, Timely
<1>7. \A t \in Sessions : t # s /\ Drives(t, cam[t]) => cam[t] \in stray \/ cam[t] # c
  BY <1>1, Alone DEF VInv, Iterating
<1>8. Watching'
  <2> SUFFICES ASSUME NEW t \in Sessions, sched'[t] # NoPreset, Drives(t, cam[t])',
                      pc'[t] \in {"wait", "hold"}, cam'[t] \notin stray'
               PROVE  /\ sched'[t] = curPTZ'[cam'[t]]
                      /\ cam'[t] \notin moved' => faces'[cam'[t]] = curPTZ'[cam'[t]]
    BY DEF Watching
  <2>1. t # s /\ Drives(t, cam[t])
    BY <1>1, <1>3 DEF Drives
  <2>2. cam[t] \in Cameras /\ cam[t] # c
    BY <1>1, <1>3, <1>7, <2>1 DEF VInv, DInv, LoopHasCamera
  <2> QED
    BY <1>1, <1>3, <2>1, <2>2 DEF VInv, Watching
<1>9. Aimed'
  <2> SUFFICES ASSUME NEW t \in Sessions, pc'[t] = "send", cam'[t] \notin stray' \cup moved'
               PROVE  faces'[cam'[t]] = curPTZ'[cam'[t]] + 1
    BY DEF Aimed
  <2>1. t # s /\ pc[t] = "send" /\ Drives(t, cam[t])
    BY <1>3 DEF Drives, Iterating
  <2>2. cam[t] \in Cameras /\ cam[t] # c
    BY <1>1, <1>7, <2>1 DEF VInv, DInv, LoopHasCamera
  <2> QED
    BY <1>1, <1>3, <2>1, <2>2 DEF VInv, Aimed
<1> QED
  BY <1>4, <1>5, <1>6, <1>8, <1>9 DEF VInv

\* The other steps of the loop watch nothing: the camera is free, stray or turning.
LEMMA LoopElseVInv ==
    ASSUME VInv, DInv', NEW s \in Sessions, LoopElse(s)
    PROVE  VInv'
<1>1. /\ UNCHANGED <<cam, changing, run, status, curPTZ, faces, sched, reloading, late, moved>>
      /\ stray \subseteq stray'
      /\ \A t \in Sessions : t # s => pc'[t] = pc[t]
      /\ pc'[s] \in {"none", "turn", "send", "wait"}
      /\ pc'[s] = "send" => cam[s] \in stray'
      /\ pc'[s] = "wait" => pc[s] = "release" /\ (changing[s] => cam[s] \in stray')
  BY DEF LoopElse, LoopExit, Fire, FailFree, Release, view, session, VInv, DInv, TypeOK
<1>2. ViewTypeOK' /\ ReloadBound' /\ Timely' /\ Within'
  BY <1>1 DEF VInv, ViewTypeOK, ReloadBound, Timely, Within, PTZCap
<1>3. Watching'
  <2> SUFFICES ASSUME NEW t \in Sessions, sched'[t] # NoPreset, Drives(t, cam[t])',
                      pc'[t] \in {"wait", "hold"}, cam'[t] \notin stray'
               PROVE  /\ sched'[t] = curPTZ'[cam'[t]]
                      /\ cam'[t] \notin moved' => faces'[cam'[t]] = curPTZ'[cam'[t]]
    BY DEF Watching
  <2>1. t # s
    <3>1. pc'[s] = "wait" => /\ status[s] \in Over \/ cam[s] \in stray
                             /\ changing[s] => cam[s] \in stray'
      BY <1>1 DEF VInv, DInv, StatusInLoop
    <3> QED
      BY <1>1, <3>1 DEF Drives, Iterating
  <2>2. Drives(t, cam[t])
    BY <1>1, <2>1 DEF Drives
  <2> QED
    BY <1>1, <2>1, <2>2 DEF VInv, Watching
<1>4. Aimed'
  BY <1>1 DEF VInv, Aimed
<1> QED
  BY <1>2, <1>3, <1>4 DEF VInv

LEMMA ViewStutterVInv ==
    ASSUME VInv, DInv', UNCHANGED <<cam, pc, run, status, changing, curPTZ, stray, view>>
    PROVE  VInv'
<1>1. ViewTypeOK' /\ ReloadBound' /\ Timely' /\ Within'
  BY DEF view, VInv, ViewTypeOK, ReloadBound, Timely, Within, PTZCap
<1>2. Watching' /\ Aimed'
  BY DEF view, VInv, Watching, Aimed, Drives
<1> QED
  BY <1>1, <1>2 DEF VInv

LEMMA ViewStepVInv == VInv /\ [ViewNext]_<<vars, view>> => VInv'
<1> SUFFICES ASSUME VInv, [ViewNext]_<<vars, view>> PROVE VInv'
  OBVIOUS
<1>1. DInv'
  BY ViewStep, StepDInv DEF VInv
<1>2. CASE UNCHANGED <<vars, view>>
  BY <1>1, <1>2, ViewStutterVInv DEF vars
<1>3. ASSUME NEW s \in Sessions,
             Handler(s) \/ threeD_Request(s) \/ reload_Preset(s) \/ ReloadTurn(s)
      PROVE  VInv'
  BY <1>1, <1>3, HandlerVInv, threeDVInv, ReloadPresetVInv, ReloadTurnVInv
<1>4. ASSUME NEW s \in Sessions,
             \/ ViewTurnOk(s) \/ ViewTurnFail(s) \/ ViewSend(s) \/ ViewHoldEnd(s) \/ LoopElse(s)
      PROVE  VInv'
  BY <1>1, <1>4, ViewTurnVInv, ViewSendVInv, ViewHoldEndVInv, LoopElseVInv
<1>5. ASSUME NEW s \in Sessions, NEW g \in Groups \cup {NoGroup}, Regroup(s, g), UNCHANGED view
      PROVE  VInv'
  BY <1>1, <1>5, ViewStutterVInv DEF Regroup
<1> QED
  BY <1>2, <1>3, <1>4, <1>5 DEF ViewNext

\* For any sessions, cameras and presets, and whatever close-ups, failed turns and
\* reloads come between: a device that watches by its last schedule has its camera
\* at the preset of that schedule, unless the camera is stray or was moved since.
\* (CCaptureDevice::MissoinLoop, reload_Preset; session.h:355-370)
THEOREM CamerasFaceTheirSchedule == ViewSpec => []FacesScheduleUnlessMoved
<1>1. VInv => FacesScheduleUnlessMoved
  BY DEF VInv, Watching, FacesScheduleUnlessMoved
<1> QED
  BY <1>1, ViewInitInv, ViewStepVInv, PTL DEF ViewSpec

\* The close-ups and reloads of PresetView change nothing of what is proved above of
\* the loops: its steps are DeviceMission's.
THEOREM ViewKeepsTheMission ==
    ViewSpec => [](ExclusiveUnlessStray /\ BusyIffDrivenUnlessStray /\ CameraHasLoop)
<1>1. VInv => ExclusiveUnlessStray /\ BusyIffDrivenUnlessStray /\ CameraHasLoop
  BY DEF VInv, DInv
<1> QED
  BY <1>1, ViewInitInv, ViewStepVInv, PTL DEF ViewSpec

-----------------------------------------------------------------------------
(* The loops of one device and their timer (LoopTimer), for any number of   *)
(* starts.                                                                  *)

CONSTANTS MaxStarts, Hold, MaxDelay, MaxLag, MaxLead

VARIABLES SpdDomeCam, missionStatus, runs, grouped, inUse, curPTZposion, failures, thread,
          underWay, timer, due, pend, ready, left, held, behind, lost

Loop == INSTANCE LoopTimer WITH cam <- SpdDomeCam, status <- missionStatus, run <- runs,
            changing <- underWay, isUsing <- inUse, curPTZ <- curPTZposion, failCnt <- failures, pc <- thread

Points == {"none", "new", "arm", "loop", "turn", "send", "hold", "release", "exit"}
Waiting == {"none", "new", "arm"}

DeviceOK ==
    /\ SpdDomeCam \in Cameras \cup {NULL} /\ missionStatus \in {"COMPLETED", "FAILD", "READY"}
    /\ runs \in BOOLEAN /\ grouped \in BOOLEAN /\ behind \in BOOLEAN
    /\ underWay \in {"no", "ready", "start"}
    /\ inUse \in [Cameras -> {"FREE", "BUSY"}] /\ curPTZposion \in [Cameras -> Nat]
    /\ failures \in 0 .. TurnFailLimit /\ held \in -1 .. Hold /\ lost \in SUBSET Cameras

ClockOK ==
    /\ timer \in Loop!Threads \cup {Loop!NoTimer} /\ due \in -MaxLag .. MaxLead
    /\ pend \in Nat /\ ready \in [Loop!Threads -> Nat] /\ left \in [Loop!Threads -> Nat]

\* Threads are numbered in the order they were started, none without a camera.
Started ==
    /\ thread \in [Loop!Threads -> Points]
    /\ \E n \in 0 .. MaxStarts : \A k \in Loop!Threads : thread[k] # "none" <=> k <= n
    /\ \A k \in Loop!Threads : thread[k] # "none" => SpdDomeCam \in Cameras

\* A handler that has a loop to start has a camera for it, and a thread; one
\* that has not came after a mission that is over.
Promised ==
    /\ underWay = "start" => SpdDomeCam \in Cameras /\ \E k \in Loop!Threads : thread[k] = "none"
    /\ underWay = "ready" => missionStatus \in Loop!Over

\* The thread the timer lives on has something to do, so that it does not end.
Served ==
    /\ timer = Loop!NoTimer =>
          pend = 0 /\ \A k \in Loop!Threads : thread[k] \in {"none", "new", "exit"}
    /\ timer # Loop!NoTimer => thread[timer] \notin {"none", "new"}
    /\ runs /\ timer # Loop!NoTimer =>
          /\ thread[timer] # "exit"
          /\ thread[timer] \in {"arm", "turn"} \/ pend > 0 \/ ready[timer] > 0

Turning == {k \in Loop!Threads : thread[k] = "turn"}

Counted ==
    /\ IsFiniteSet(Loop!ReadyOn(ready))
    /\ runs => pend + Cardinality(Loop!ReadyOn(ready)) + Cardinality(Turning)
                 = Cardinality(Loop!Begun)

LoopInv == DeviceOK /\ ClockOK /\ Started /\ Promised /\ Served /\ Counted

LEMMA LoopCardinality == ASSUME NEW S PROVE Loop!Cardinality(S) = Cardinality(S)
BY Zenon DEF Loop!Cardinality, Cardinality

LEMMA LoopConstants ==
    ASSUME Loop!TimerAssumption
    PROVE  /\ PresetTotal \in [Cameras -> Nat] /\ NULL \notin Cameras
           /\ TurnFailLimit \in Nat /\ MaxDelay \in Nat /\ MaxLag \in Nat /\ MaxLead \in Nat
           /\ MaxLead >= Hold /\ MaxStarts \in Nat \ {0} /\ Hold \in Nat \ {0}
           /\ Loop!Threads = 1 .. MaxStarts /\ IsFiniteSet(Loop!Threads)
           /\ Loop!NoTimer = 0 /\ Loop!NoTimer \notin Loop!Threads
<1>1. MaxStarts \in Nat \ {0}
  BY DEF Loop!TimerAssumption
<1>2. IsFiniteSet(1 .. MaxStarts)
  BY <1>1, FS_Interval
<1> QED BY <1>1, <1>2 DEF Loop!TimerAssumption, Loop!Threads, Loop!NoTimer

-----------------------------------------------------------------------------
(* Counting handlers.                                                       *)

LEMMA Block ==
    \A a, p \in Nat : IsFiniteSet(a + 1 .. a + p) /\ Cardinality(a + 1 .. a + p) = p
BY FS_Interval

LEMMA MoreReady ==
    ASSUME NEW r \in [Loop!Threads -> Nat], NEW k \in Loop!Threads, NEW p \in Nat,
           NEW q, q = [r EXCEPT ![k] = @ + p], IsFiniteSet(Loop!ReadyOn(r))
    PROVE  /\ q \in [Loop!Threads -> Nat] /\ IsFiniteSet(Loop!ReadyOn(q))
           /\ Cardinality(Loop!ReadyOn(q)) = Cardinality(Loop!ReadyOn(r)) + p
<1>0. PICK a \in Nat : a = r[k]
  OBVIOUS
<1> DEFINE S == a + 1 .. a + p  B == {k} \X S
<1>1. r[k] \in Nat /\ q \in [Loop!Threads -> Nat] /\ q[k] = r[k] + p
      /\ \A j \in Loop!Threads : j # k => q[j] = r[j]
  OBVIOUS
<1>2. IsFiniteSet(B) /\ Cardinality(B) = p
  <2>1. IsFiniteSet({k}) /\ Cardinality({k}) = 1
    BY FS_Singleton
  <2>2. IsFiniteSet(S) /\ Cardinality(S) = p
    BY Block, Zenon
  <2> HIDE DEF S
  <2> QED BY <2>1, <2>2, FS_Product
<1>3. 1 .. q[k] = (1 .. r[k]) \cup (a + 1 .. a + p)
  BY <1>0, <1>1
<1>4. Loop!ReadyOn(q) = Loop!ReadyOn(r) \cup B
  <2>1. ASSUME NEW x \in Loop!ReadyOn(q) PROVE x \in Loop!ReadyOn(r) \cup B
    <3>1. PICK j \in Loop!Threads : x \in {j} \X (1 .. q[j])
      BY <2>1 DEF Loop!ReadyOn
    <3>2. CASE j = k
      BY <1>3, <3>1, <3>2 DEF Loop!ReadyOn
    <3>3. CASE j # k
      BY <1>1, <3>1, <3>3 DEF Loop!ReadyOn
    <3> QED BY <3>2, <3>3
  <2>2. ASSUME NEW x \in Loop!ReadyOn(r) PROVE x \in Loop!ReadyOn(q)
    <3>1. PICK j \in Loop!Threads : x \in {j} \X (1 .. r[j])
      BY <2>2 DEF Loop!ReadyOn
    <3>2. CASE j = k
      BY <1>3, <3>1, <3>2 DEF Loop!ReadyOn
    <3>3. CASE j # k
      BY <1>1, <3>1, <3>3 DEF Loop!ReadyOn
    <3> QED BY <3>2, <3>3
  <2>3. ASSUME NEW x \in B PROVE x \in Loop!ReadyOn(q)
    BY <1>3, <2>3 DEF Loop!ReadyOn
  <2> HIDE DEF B
  <2> QED BY <2>1, <2>2, <2>3
<1>5. Loop!ReadyOn(r) \cap B = {}
  <2>1. ASSUME NEW x \in Loop!ReadyOn(r), x \in B PROVE FALSE
    <3>1. PICK j \in Loop!Threads : x \in {j} \X (1 .. r[j])
      BY <2>1 DEF Loop!ReadyOn
    <3>2. x[2] \in 1 .. a /\ x[2] \in a + 1 .. a + p
      BY <1>0, <2>1, <3>1
    <3> QED BY <3>2
  <2> QED BY <2>1
<1> DEFINE X == Loop!ReadyOn(r)
<1> HIDE DEF B, X
<1>6. /\ IsFiniteSet(X \cup B)
      /\ Cardinality(X \cup B) = Cardinality(X) + Cardinality(B) - Cardinality(X \cap B)
  <2>1. IsFiniteSet(X)
    BY DEF X
  <2> QED BY <1>2, <2>1, FS_Union
<1>7. Cardinality(X \cap B) = 0
  BY <1>5, FS_EmptySet DEF X
<1>8. Cardinality(X) \in Nat
  BY FS_CardinalityType DEF X
<1>9. Cardinality(X \cup B) = Cardinality(X) + p
  BY <1>2, <1>6, <1>7, <1>8
<1>10. Loop!ReadyOn(q) = X \cup B
  BY <1>4 DEF X
<1>11. IsFiniteSet(Loop!ReadyOn(q)) /\ Cardinality(Loop!ReadyOn(q)) = Cardinality(X) + p
  BY <1>6, <1>9, <1>10
<1> QED BY <1>1, <1>11 DEF X

LEMMA OneTaken ==
    ASSUME NEW r \in [Loop!Threads -> Nat], NEW k \in Loop!Threads, r[k] > 0,
           NEW q, q = [r EXCEPT ![k] = @ - 1], IsFiniteSet(Loop!ReadyOn(r))
    PROVE  /\ q \in [Loop!Threads -> Nat] /\ IsFiniteSet(Loop!ReadyOn(q))
           /\ Cardinality(Loop!ReadyOn(r)) = Cardinality(Loop!ReadyOn(q)) + 1
<1>1. q \in [Loop!Threads -> Nat] /\ \A j \in Loop!Threads : q[j] = IF j = k THEN r[k] - 1 ELSE r[j]
  OBVIOUS
<1>2. r = [q EXCEPT ![k] = @ + 1]
  <2>1. \A j \in Loop!Threads : r[j] = [q EXCEPT ![k] = @ + 1][j]
    BY <1>1
  <2>2. r = [j \in Loop!Threads |-> r[j]]
    OBVIOUS
  <2> QED BY <1>1, <2>1, <2>2
<1>3. \A j \in Loop!Threads : \A n \in 1 .. q[j] : n \in 1 .. r[j]
  BY <1>1
<1>4. Loop!ReadyOn(q) \subseteq Loop!ReadyOn(r)
  BY <1>3 DEF Loop!ReadyOn
<1>5. IsFiniteSet(Loop!ReadyOn(q))
  BY <1>4, FS_Subset
<1> QED BY <1>1, <1>2, <1>5, MoreReady

\* The waits a timer that is cancelled, expires or is destroyed had.
LEMMA Cancels ==
    ASSUME Loop!TimerAssumption, LoopInv, NEW r \in [Loop!Threads -> Nat],
           NEW q, q = [j \in Loop!Threads |-> r[j] + Loop!Cancelled[j]], IsFiniteSet(Loop!ReadyOn(r))
    PROVE  /\ q \in [Loop!Threads -> Nat] /\ IsFiniteSet(Loop!ReadyOn(q))
           /\ Cardinality(Loop!ReadyOn(q)) = Cardinality(Loop!ReadyOn(r)) + pend
           /\ \A j \in Loop!Threads : q[j] = IF j = timer THEN r[j] + pend ELSE r[j]
<1>1. /\ pend \in Nat /\ timer \in Loop!Threads \cup {Loop!NoTimer}
      /\ pend > 0 => timer # Loop!NoTimer
      /\ Loop!NoTimer \notin Loop!Threads
  BY LoopConstants DEF LoopInv, ClockOK, Served
<1>2. \A j \in Loop!Threads : q[j] = IF j = timer THEN r[j] + pend ELSE r[j]
  BY <1>1 DEF Loop!Cancelled
<1>3. CASE timer \in Loop!Threads
  <2>1. q = [r EXCEPT ![timer] = @ + pend]
    BY <1>2, <1>3
  <2>2. PICK k \in Loop!Threads : k = timer
    BY <1>3
  <2>3. PICK p \in Nat : p = pend
    BY <1>1
  <2>4. q = [r EXCEPT ![k] = @ + p]
    BY <2>1, <2>2, <2>3
  <2>5. /\ q \in [Loop!Threads -> Nat] /\ IsFiniteSet(Loop!ReadyOn(q))
        /\ Cardinality(Loop!ReadyOn(q)) = Cardinality(Loop!ReadyOn(r)) + p
    BY <2>4, MoreReady
  <2> QED BY <1>2, <2>3, <2>5
<1>4. CASE timer = Loop!NoTimer
  <2>1. q = r /\ pend = 0
    BY <1>1, <1>2, <1>4
  <2>2. Cardinality(Loop!ReadyOn(r)) \in Nat
    BY FS_CardinalityType
  <2> QED BY <1>2, <2>1, <2>2
<1> QED BY <1>1, <1>3, <1>4

-----------------------------------------------------------------------------
(* The loops of a device.                                                   *)

\* A thread that goes on from one point to another.
Goes(k, q) == thread' = [thread EXCEPT ![k] = q]

LEMMA ThreadGoes ==
    ASSUME LoopInv, NEW k \in Loop!Threads, NEW q \in Points \ {"none"},
           Goes(k, q), thread[k] # "none", SpdDomeCam' = SpdDomeCam, underWay' = underWay,
           missionStatus' = missionStatus \/ missionStatus' \in Loop!Over
    PROVE  /\ Started' /\ Promised'
           /\ \A j \in Loop!Threads : thread'[j] = IF j = k THEN q ELSE thread[j]
<1>1. \A j \in Loop!Threads : thread'[j] = IF j = k THEN q ELSE thread[j]
  BY DEF LoopInv, Started, Goes
<1>2. thread' \in [Loop!Threads -> Points]
  BY DEF LoopInv, Started, Goes
<1>3. \A j \in Loop!Threads : thread'[j] # "none" <=> thread[j] # "none"
  BY <1>1
<1>4. Started'
  BY <1>2, <1>3 DEF LoopInv, Started, Loop!Threads
<1>5. Promised'
  BY <1>3 DEF LoopInv, Promised, Loop!Threads, Loop!Over
<1> QED BY <1>1, <1>4, <1>5

LEMMA BegunFinite ==
    ASSUME Loop!TimerAssumption
    PROVE  IsFiniteSet(Loop!Begun) /\ IsFiniteSet(Turning)
BY LoopConstants, FS_Subset DEF Loop!Begun, Turning

LEMMA Sizes ==
    ASSUME Loop!TimerAssumption, LoopInv
    PROVE  /\ Cardinality(Loop!ReadyOn(ready)) \in Nat /\ Cardinality(Turning) \in Nat
           /\ Cardinality(Loop!Begun) \in Nat /\ pend \in Nat
BY BegunFinite, FS_CardinalityType DEF LoopInv, Counted, ClockOK

LEMMA StartsCounted ==
    ASSUME Loop!TimerAssumption, NEW n \in 0 .. MaxStarts,
           \A k \in Loop!Threads : thread[k] # "none" <=> k <= n
    PROVE  Loop!starts = n
<1>1. MaxStarts \in Nat /\ Loop!Threads = 1 .. MaxStarts
  BY LoopConstants
<1>2. {k \in Loop!Threads : thread[k] # "none"} = 1 .. n
  BY <1>1
<1>3. Loop!Cardinality(1 .. n) = n
  BY <1>1, FS_Interval, LoopCardinality
<1> QED BY <1>2, <1>3 DEF Loop!starts

\* start() is the next thread.
LEMMA StartsNext ==
    ASSUME Loop!TimerAssumption, LoopInv, Loop!start, SpdDomeCam' \in Cameras,
           \E k \in Loop!Threads : thread[k] = "none"
    PROVE  /\ Started'
           /\ \E m \in Loop!Threads :
                 /\ thread[m] = "none" /\ thread'[m] = "new"
                 /\ \A k \in Loop!Threads : k # m => thread'[k] = thread[k]
<1>1. MaxStarts \in Nat /\ Loop!Threads = 1 .. MaxStarts
  BY LoopConstants
<1>2. PICK n \in 0 .. MaxStarts : \A k \in Loop!Threads : thread[k] # "none" <=> k <= n
  BY DEF LoopInv, Started
<1>3. Loop!starts = n
  BY <1>2, StartsCounted
<1>4. n < MaxStarts /\ thread' = [thread EXCEPT ![n + 1] = "new"]
  BY <1>1, <1>2, <1>3 DEF Loop!start
<1>5. /\ n + 1 \in Loop!Threads /\ n + 1 \in 0 .. MaxStarts /\ thread[n + 1] = "none"
      /\ \A k \in Loop!Threads : k <= n + 1 <=> k <= n \/ k = n + 1
  BY <1>1, <1>2, <1>4
<1>6. /\ thread' \in [Loop!Threads -> Points]
      /\ \A k \in Loop!Threads : thread'[k] = IF k = n + 1 THEN "new" ELSE thread[k]
  BY <1>4, <1>5 DEF LoopInv, Started, Points
<1>7. \A k \in Loop!Threads : thread'[k] # "none" <=> k <= n + 1
  BY <1>2, <1>5, <1>6
<1>8. Started'
  BY <1>5, <1>6, <1>7 DEF Started, Loop!Threads
<1> QED BY <1>5, <1>6, <1>8

\* What the session does leaves the timer alone, and starts one thread at most.
LEMMA SessionKeeps ==
    ASSUME Loop!TimerAssumption, LoopInv,
           UNCHANGED <<timer, due, pend, ready, left>>, DeviceOK', Promised',
           runs' => runs, SpdDomeCam' \in Cameras \/ SpdDomeCam' = SpdDomeCam,
           \/ UNCHANGED thread
           \/ Loop!start /\ underWay = "start" /\ SpdDomeCam' = SpdDomeCam
    PROVE  LoopInv'
<1>1. MaxStarts \in Nat /\ Loop!Threads = 1 .. MaxStarts /\ Loop!NoTimer \notin Loop!Threads
  BY LoopConstants
<1>2. /\ Started'
      /\ \A k \in Loop!Threads : thread'[k] = thread[k] \/ (thread[k] = "none" /\ thread'[k] = "new")
  <2>1. CASE UNCHANGED thread
    BY <2>1 DEF LoopInv, Started, Loop!Threads
  <2>2. CASE Loop!start /\ underWay = "start" /\ SpdDomeCam' = SpdDomeCam
    <3>1. SpdDomeCam' \in Cameras /\ \E k \in Loop!Threads : thread[k] = "none"
      BY <2>2 DEF LoopInv, Promised
    <3> QED BY <2>2, <3>1, StartsNext
  <2> QED BY <2>1, <2>2
<1>3. Turning' = Turning /\ Loop!Begun' = Loop!Begun
  BY <1>2 DEF Turning, Loop!Begun, Loop!Threads
<1>4. Loop!ReadyOn(ready)' = Loop!ReadyOn(ready)
  BY DEF Loop!ReadyOn, Loop!Threads
<1>5. Counted'
  BY <1>3, <1>4 DEF LoopInv, Counted
<1>6. Served'
  BY <1>1, <1>2 DEF LoopInv, Served, ClockOK, Loop!NoTimer
<1>7. ClockOK'
  BY DEF LoopInv, ClockOK, Loop!Threads, Loop!NoTimer
<1> QED BY <1>2, <1>5, <1>6, <1>7 DEF LoopInv

\* With room for another start there is a thread that has not been started.
LEMMA RoomToStart ==
    ASSUME Loop!TimerAssumption, LoopInv, Loop!starts < MaxStarts
    PROVE  \E k \in Loop!Threads : thread[k] = "none"
<1>1. MaxStarts \in Nat /\ Loop!Threads = 1 .. MaxStarts
  BY LoopConstants
<1>2. PICK n \in 0 .. MaxStarts : \A k \in Loop!Threads : thread[k] # "none" <=> k <= n
  BY DEF LoopInv, Started
<1>3. n < MaxStarts
  BY <1>2, StartsCounted
<1>4. n + 1 \in Loop!Threads /\ ~(n + 1 <= n)
  BY <1>1, <1>3
<1> QED BY <1>2, <1>4

\* A handler that may grant a camera leaves threads and status to MissionReady.
LEMMA HandlerBegins ==
    ASSUME Loop!TimerAssumption, LoopInv, Loop!Login \/ Loop!FirstMission \/ Loop!NextMission
    PROVE  /\ UNCHANGED <<missionStatus, runs, curPTZposion, failures, timer, due, pend, ready, thread,
                          left, held, behind>>
           /\ underWay = "no" /\ DeviceOK' /\ Promised'
           /\ SpdDomeCam' \in Cameras \/ SpdDomeCam' = SpdDomeCam
           /\ ~Loop!NextMission => SpdDomeCam' = SpdDomeCam \/ underWay' = "start"
           /\ Loop!NextMission => missionStatus \in Loop!Over
<1>1. CASE Loop!Login \/ Loop!FirstMission
  <2>1. /\ UNCHANGED <<missionStatus, runs, curPTZposion, failures, timer, due, pend, ready, thread,
                       left, held, behind>>
        /\ underWay = "no" /\ Loop!GrantAndStart
    BY <1>1 DEF Loop!Login, Loop!FirstMission, Loop!GrantAndStart, Loop!Serving, Loop!clock
  <2>2. CASE (\E c \in Cameras : Loop!Grant(c)) /\ Loop!starts < MaxStarts /\ underWay' = "start"
    <3>1. PICK c \in Cameras : Loop!Grant(c)
      BY <2>2
    <3>2. DeviceOK' /\ SpdDomeCam' = c
      BY <2>1, <2>2, <3>1 DEF Loop!Grant, LoopInv, DeviceOK
    <3>3. Promised'
      BY <2>1, <2>2, <3>2, RoomToStart DEF Promised, Loop!Threads
    <3> QED BY <1>1, <2>1, <2>2, <3>2, <3>3 DEF Loop!NextMission
  <2>3. CASE grouped' \in BOOLEAN /\ UNCHANGED <<SpdDomeCam, underWay, inUse, lost>>
    <3>1. DeviceOK' /\ Promised'
      BY <2>1, <2>3 DEF LoopInv, DeviceOK, Promised, Loop!Threads, Loop!Over
    <3>2. SpdDomeCam' = SpdDomeCam
      BY <2>3
    <3>3. Loop!NextMission => missionStatus \in Loop!Over
      BY DEF Loop!NextMission
    <3> QED BY <2>1, <3>1, <3>2, <3>3
  <2> QED BY <2>1, <2>2, <2>3 DEF Loop!GrantAndStart
<1>2. CASE Loop!NextMission
  <2>1. /\ UNCHANGED <<missionStatus, runs, curPTZposion, failures, timer, due, pend, ready, thread,
                       left, held, behind>>
        /\ underWay = "no" /\ missionStatus \in Loop!Over
    BY <1>2 DEF Loop!NextMission, Loop!Serving, Loop!clock
  <2>2. CASE (\E c \in Cameras : Loop!Grant(c)) /\ underWay' = "ready"
    <3>1. PICK c \in Cameras : Loop!Grant(c)
      BY <2>2
    <3>2. DeviceOK' /\ SpdDomeCam' = c
      BY <2>1, <2>2, <3>1 DEF Loop!Grant, LoopInv, DeviceOK
    <3>3. Promised'
      BY <2>1, <2>2 DEF Promised, Loop!Over
    <3> QED BY <1>2, <2>1, <3>2, <3>3
  <2>3. CASE grouped' \in BOOLEAN /\ underWay' \in {underWay, "ready"} /\ UNCHANGED <<SpdDomeCam, inUse, lost>>
    <3>1. DeviceOK' /\ Promised'
      BY <2>1, <2>3 DEF LoopInv, DeviceOK, Promised, Loop!Over
    <3> QED BY <1>2, <2>1, <2>3, <3>1
  <2> QED BY <1>2, <2>2, <2>3 DEF Loop!NextMission
<1> QED BY <1>1, <1>2

LEMMA SessionStep ==
    ASSUME Loop!TimerAssumption, LoopInv,
           \/ Loop!Login \/ Loop!FirstMission \/ Loop!NextMission \/ Loop!MissionReady
           \/ Loop!PictureReceived \/ Loop!stop
    PROVE  LoopInv'
<1>1. CASE Loop!Login \/ Loop!FirstMission \/ Loop!NextMission
  BY <1>1, HandlerBegins, SessionKeeps
<1>2. CASE Loop!MissionReady
  <2>1. /\ UNCHANGED <<timer, due, pend, ready, left, runs, SpdDomeCam, grouped, inUse, curPTZposion,
                       failures, held, lost>>
        /\ missionStatus' = "READY" /\ underWay' = "no" /\ behind' \in BOOLEAN
        /\ UNCHANGED thread \/ (Loop!start /\ underWay = "start")
    BY <1>2 DEF Loop!MissionReady, Loop!clock
  <2>2. DeviceOK' /\ Promised'
    BY <2>1 DEF LoopInv, DeviceOK, Promised
  <2> QED BY <2>1, <2>2, SessionKeeps
<1>3. CASE Loop!PictureReceived
  <2>1. /\ UNCHANGED <<timer, due, pend, ready, left, runs, thread, SpdDomeCam, underWay, missionStatus>>
        /\ DeviceOK'
    BY <1>3 DEF Loop!PictureReceived, Loop!clock, LoopInv, DeviceOK
  <2>2. Promised'
    BY <2>1 DEF LoopInv, Promised, Loop!Threads, Loop!Over
  <2> QED BY <2>1, <2>2, SessionKeeps
<1>4. CASE Loop!stop
  <2>1. /\ UNCHANGED <<timer, due, pend, ready, left, thread, SpdDomeCam, underWay, missionStatus>>
        /\ ~runs' /\ DeviceOK'
    BY <1>4 DEF Loop!stop, Loop!clock, LoopInv, DeviceOK
  <2>2. Promised'
    BY <2>1 DEF LoopInv, Promised, Loop!Threads, Loop!Over
  <2> QED BY <2>1, <2>2, SessionKeeps
<1> QED BY <1>1, <1>2, <1>3, <1>4

LEMMA NewTimerKeeps ==
    ASSUME Loop!TimerAssumption, LoopInv, NEW k \in Loop!Threads, Loop!NewTimer(k)
    PROVE  LoopInv'
<1>1. /\ thread[k] = "new"
      /\ UNCHANGED <<SpdDomeCam, underWay, missionStatus, runs, grouped, inUse, curPTZposion, failures, lost, left,
                     held, behind>>
      /\ \/ /\ runs /\ timer' = k /\ due' = 1 /\ pend' = 0 /\ Goes(k, "arm")
            /\ ready' = [j \in Loop!Threads |-> ready[j] + Loop!Cancelled[j]]
         \/ ~runs /\ Goes(k, "exit") /\ UNCHANGED <<timer, due, pend, ready>>
  BY DEF Loop!NewTimer, Loop!device, Loop!clock, Goes
<1>2. DeviceOK'
  BY <1>1 DEF LoopInv, DeviceOK
<1>3. left \in [Loop!Threads -> Nat] /\ timer \in Loop!Threads \cup {Loop!NoTimer}
      /\ 1 \in -MaxLag .. MaxLead /\ ready \in [Loop!Threads -> Nat] /\ pend \in Nat
      /\ due \in -MaxLag .. MaxLead /\ Loop!NoTimer \notin Loop!Threads
  BY LoopConstants DEF LoopInv, ClockOK
<1>4. CASE /\ runs /\ timer' = k /\ due' = 1 /\ pend' = 0 /\ Goes(k, "arm")
           /\ ready' = [j \in Loop!Threads |-> ready[j] + Loop!Cancelled[j]]
  <2>1. Started' /\ Promised' /\ \A j \in Loop!Threads : thread'[j] = IF j = k THEN "arm" ELSE thread[j]
    BY <1>1, <1>4, ThreadGoes DEF Points
  <2>2. /\ ready' \in [Loop!Threads -> Nat] /\ IsFiniteSet(Loop!ReadyOn(ready'))
        /\ Cardinality(Loop!ReadyOn(ready')) = Cardinality(Loop!ReadyOn(ready)) + pend
    BY <1>3, <1>4, Cancels DEF LoopInv, Counted
  <2>3. Turning' = Turning /\ Loop!Begun' = Loop!Begun
    BY <1>1, <2>1 DEF Turning, Loop!Begun, Loop!Threads
  <2>4. pend' + Cardinality(Loop!ReadyOn(ready')) + Cardinality(Turning) = Cardinality(Loop!Begun)
    BY <1>4, <2>2, Sizes DEF LoopInv, Counted
  <2>5. Counted'
    BY <2>2, <2>3, <2>4 DEF Counted, Loop!ReadyOn, Loop!Threads
  <2>6. Served'
    BY <1>3, <1>4, <2>1 DEF Served
  <2>7. ClockOK'
    BY <1>1, <1>3, <1>4, <2>2 DEF ClockOK, Loop!Threads, Loop!NoTimer
  <2> QED BY <1>2, <2>1, <2>5, <2>6, <2>7 DEF LoopInv
<1>5. CASE ~runs /\ Goes(k, "exit") /\ UNCHANGED <<timer, due, pend, ready>>
  <2>1. Started' /\ Promised' /\ \A j \in Loop!Threads : thread'[j] = IF j = k THEN "exit" ELSE thread[j]
    BY <1>1, <1>5, ThreadGoes DEF Points
  <2>2. Counted'
    BY <1>1, <1>5 DEF LoopInv, Counted, Loop!ReadyOn, Loop!Threads
  <2>3. Served'
    BY <1>1, <1>3, <1>5, <2>1 DEF LoopInv, Served, Loop!NoTimer
  <2>4. ClockOK'
    BY <1>1, <1>3, <1>5 DEF ClockOK, Loop!Threads, Loop!NoTimer
  <2> QED BY <1>2, <2>1, <2>2, <2>3, <2>4 DEF LoopInv
<1> QED BY <1>1, <1>4, <1>5

LEMMA ArmKeeps ==
    ASSUME Loop!TimerAssumption, LoopInv, NEW k \in Loop!Threads, Loop!Arm(k)
    PROVE  LoopInv'
<1>1. /\ thread[k] = "arm" /\ pend' = pend + 1 /\ Goes(k, "loop")
      /\ UNCHANGED <<SpdDomeCam, underWay, missionStatus, runs, grouped, inUse, curPTZposion, failures, lost,
                     timer, due, ready, left, held, behind>>
  BY DEF Loop!Arm, Loop!device, Goes
<1>2. DeviceOK' /\ ClockOK'
  BY <1>1 DEF LoopInv, DeviceOK, ClockOK, Loop!Threads, Loop!NoTimer
<1>3. Started' /\ Promised' /\ \A j \in Loop!Threads : thread'[j] = IF j = k THEN "loop" ELSE thread[j]
  BY <1>1, ThreadGoes DEF Points
<1>4. k \notin Loop!Begun /\ Turning' = Turning /\ Loop!Begun' = Loop!Begun \cup {k}
  BY <1>1, <1>3 DEF Turning, Loop!Begun, Loop!Threads
<1>5. Cardinality(Loop!Begun \cup {k}) = Cardinality(Loop!Begun) + 1
  BY <1>4, BegunFinite, FS_AddElement
<1>6. Counted'
  <2>1. runs => pend' + Cardinality(Loop!ReadyOn(ready)) + Cardinality(Turning) = Cardinality(Loop!Begun \cup {k})
    BY <1>1, <1>5, Sizes DEF LoopInv, Counted
  <2> QED BY <1>1, <1>4, <2>1 DEF LoopInv, Counted, Loop!ReadyOn, Loop!Threads
<1>7. pend' > 0
  BY <1>1, Sizes
<1>8. timer # Loop!NoTimer /\ timer \in Loop!Threads
  BY <1>1 DEF LoopInv, Served, ClockOK
<1>9. Served'
  BY <1>1, <1>3, <1>7, <1>8 DEF LoopInv, Served, Loop!NoTimer
<1> QED BY <1>2, <1>3, <1>6, <1>9 DEF LoopInv

\* Steps that change neither the waits nor the handlers.
LEMMA LoopGoes ==
    ASSUME Loop!TimerAssumption, LoopInv, NEW k \in Loop!Threads, NEW q \in {"loop", "hold", "release", "exit"},
           thread[k] \in {"loop", "send", "hold", "release"}, Goes(k, q),
           runs /\ timer = k => q # "exit", missionStatus' = missionStatus \/ missionStatus' \in Loop!Over,
           UNCHANGED <<SpdDomeCam, underWay, runs, timer, due, pend, ready>>,
           DeviceOK', left' \in [Loop!Threads -> Nat]
    PROVE  LoopInv'
<1>1. Started' /\ Promised' /\ \A j \in Loop!Threads : thread'[j] = IF j = k THEN q ELSE thread[j]
  BY ThreadGoes DEF Points
<1>2. Turning' = Turning /\ Loop!Begun' = Loop!Begun
  BY <1>1 DEF Turning, Loop!Begun, Loop!Threads
<1>3. Counted'
  BY <1>2 DEF LoopInv, Counted, Loop!ReadyOn, Loop!Threads
<1>4. timer # Loop!NoTimer /\ timer \in Loop!Threads
  BY DEF LoopInv, Served, ClockOK
<1>5. Served'
  BY <1>1, <1>4 DEF LoopInv, Served, Loop!NoTimer
<1>6. ClockOK'
  BY DEF LoopInv, ClockOK, Loop!Threads, Loop!NoTimer
<1> QED BY <1>1, <1>3, <1>5, <1>6 DEF LoopInv

LEMMA SendKeeps ==
    ASSUME Loop!TimerAssumption, LoopInv, NEW k \in Loop!Threads, Loop!Send(k)
    PROVE  LoopInv'
<1>1. /\ thread[k] = "send"
      /\ UNCHANGED <<SpdDomeCam, underWay, missionStatus, runs, grouped, inUse, failures, lost, timer, due, pend,
                     ready, held, behind>>
  BY DEF Loop!Send, Loop!clock
<1>2. PICK q \in {"hold", "loop"}, n \in {Hold, 0}, m \in {curPTZposion[SpdDomeCam], curPTZposion[SpdDomeCam] + 1} :
         /\ Goes(k, q) /\ left' = [left EXCEPT ![k] = n]
         /\ curPTZposion' = [curPTZposion EXCEPT ![SpdDomeCam] = m]
  BY DEF Loop!Send, Goes
<1>3. SpdDomeCam \in Cameras /\ curPTZposion[SpdDomeCam] \in Nat
  BY <1>1 DEF LoopInv, Started, DeviceOK
<1>4. curPTZposion' \in [Cameras -> Nat]
  BY <1>2, <1>3 DEF LoopInv, DeviceOK
<1>5. DeviceOK'
  BY <1>1, <1>4 DEF LoopInv, DeviceOK
<1>6. left' \in [Loop!Threads -> Nat]
  BY <1>2, LoopConstants DEF LoopInv, ClockOK
<1> QED BY <1>1, <1>2, <1>5, <1>6, LoopGoes

LEMMA HoldEndKeeps ==
    ASSUME Loop!TimerAssumption, LoopInv, NEW k \in Loop!Threads,
           Loop!HoldEnd(k) \/ Loop!Release(k) \/ Loop!ThreadEnd(k)
    PROVE  LoopInv'
<1>1. left \in [Loop!Threads -> Nat] /\ -1 \in -1 .. Hold
  BY LoopConstants DEF LoopInv, ClockOK
<1>2. CASE Loop!HoldEnd(k)
  <2>1. /\ thread[k] = "hold" /\ Goes(k, "release")
        /\ UNCHANGED <<SpdDomeCam, underWay, runs, grouped, inUse, failures, lost, timer, due, pend,
                       ready, left, behind>>
        /\ missionStatus' = "COMPLETED" /\ "COMPLETED" \in Loop!Over /\ held' = -1
        /\ curPTZposion' = [curPTZposion EXCEPT ![SpdDomeCam] = 0]
    BY <1>2 DEF Loop!HoldEnd, Loop!clock, Loop!NotHeld, Loop!Over, Goes
  <2>2. DeviceOK'
    BY <1>1, <2>1 DEF LoopInv, DeviceOK
  <2> QED BY <1>1, <2>1, <2>2, LoopGoes
<1>3. CASE Loop!Release(k)
  <2>1. /\ thread[k] = "release" /\ Goes(k, "loop")
        /\ UNCHANGED <<SpdDomeCam, underWay, missionStatus, runs, timer, due, pend, ready, left>>
        /\ DeviceOK'
    BY <1>3 DEF Loop!Release, Loop!clock, Goes, LoopInv, DeviceOK
  <2> QED BY <1>1, <2>1, LoopGoes
<1>4. CASE Loop!ThreadEnd(k)
  <2>1. /\ thread[k] = "loop" /\ Goes(k, "exit") /\ ready[k] = 0 /\ (timer # k \/ pend = 0)
        /\ UNCHANGED <<SpdDomeCam, underWay, missionStatus, runs, timer, due, pend, ready, left>>
        /\ DeviceOK'
    BY <1>4 DEF Loop!ThreadEnd, Loop!device, Loop!clock, Goes, LoopInv, DeviceOK
  <2>2. ~(runs /\ timer = k)
    <3>1. k # Loop!NoTimer
      BY LoopConstants
    <3> QED BY <2>1, <3>1 DEF LoopInv, Served
  <2> QED BY <1>1, <2>1, <2>2, LoopGoes
<1> QED BY <1>2, <1>3, <1>4

LEMMA TickKeeps ==
    ASSUME Loop!TimerAssumption, LoopInv, Loop!Tick
    PROVE  LoopInv'
<1>1. UNCHANGED <<SpdDomeCam, underWay, missionStatus, runs, grouped, inUse, curPTZposion, failures, lost, timer,
                  pend, ready, thread, behind>>
  BY DEF Loop!Tick, Loop!device
<1>2. held' \in -1 .. Hold
  <2>1. held' = held \/ (held # -1 /\ held # Hold /\ held' = held + 1)
    BY DEF Loop!Tick, Loop!NotHeld
  <2>2. held \in -1 .. Hold /\ Hold \in Nat
    BY LoopConstants DEF LoopInv, DeviceOK
  <2> QED BY <2>1, <2>2
<1>3. due' \in -MaxLag .. MaxLead
  <2>1. due' = due \/ (due # -MaxLag /\ due' = due - 1)
    BY DEF Loop!Tick
  <2>2. due \in -MaxLag .. MaxLead /\ MaxLag \in Nat /\ MaxLead \in Nat
    BY LoopConstants DEF LoopInv, ClockOK
  <2> QED BY <2>1, <2>2
<1>4. left' \in [Loop!Threads -> Nat]
  <2>1. left \in [Loop!Threads -> Nat]
    BY DEF LoopInv, ClockOK
  <2>2. left' = [k \in Loop!Threads |-> IF left[k] > 0 THEN left[k] - 1 ELSE 0]
    BY DEF Loop!Tick
  <2> QED BY <2>1, <2>2
<1>5. DeviceOK'
  BY <1>1, <1>2 DEF LoopInv, DeviceOK
<1>6. ClockOK'
  BY <1>1, <1>3, <1>4 DEF LoopInv, ClockOK, Loop!Threads, Loop!NoTimer
<1>7. Started' /\ Promised' /\ Served'
  BY <1>1 DEF LoopInv, Started, Promised, Served, Loop!Threads, Loop!NoTimer, Loop!Over
<1>8. Turning' = Turning /\ Loop!Begun' = Loop!Begun
  BY <1>1 DEF Turning, Loop!Begun, Loop!Threads
<1>9. Counted'
  BY <1>1, <1>8 DEF LoopInv, Counted, Loop!ReadyOn, Loop!Threads
<1> QED BY <1>5, <1>6, <1>7, <1>9 DEF LoopInv

LEMMA ExpireKeeps ==
    ASSUME Loop!TimerAssumption, LoopInv, Loop!Expire
    PROVE  LoopInv'
<1>1. /\ pend > 0 /\ pend' = 0
      /\ ready' = [j \in Loop!Threads |-> ready[j] + Loop!Cancelled[j]]
      /\ UNCHANGED <<SpdDomeCam, underWay, missionStatus, runs, grouped, inUse, curPTZposion, failures, lost, timer,
                     due, thread, left, held, behind>>
  BY DEF Loop!Expire, Loop!device
<1>2. ready \in [Loop!Threads -> Nat] /\ pend \in Nat /\ timer \in Loop!Threads \cup {Loop!NoTimer}
  BY DEF LoopInv, ClockOK
<1>3. timer # Loop!NoTimer /\ timer \in Loop!Threads
  BY <1>1, <1>2 DEF LoopInv, Served
<1>4. /\ ready' \in [Loop!Threads -> Nat] /\ IsFiniteSet(Loop!ReadyOn(ready'))
      /\ Cardinality(Loop!ReadyOn(ready')) = Cardinality(Loop!ReadyOn(ready)) + pend
      /\ \A j \in Loop!Threads : ready'[j] = IF j = timer THEN ready[j] + pend ELSE ready[j]
  BY <1>1, <1>2, Cancels DEF LoopInv, Counted
<1>5. Turning' = Turning /\ Loop!Begun' = Loop!Begun
  BY <1>1 DEF Turning, Loop!Begun, Loop!Threads
<1>6. runs => pend' + Cardinality(Loop!ReadyOn(ready')) + Cardinality(Turning) = Cardinality(Loop!Begun)
  BY <1>1, <1>4, Sizes DEF LoopInv, Counted
<1>7. Counted'
  BY <1>1, <1>4, <1>5, <1>6 DEF Counted, Loop!ReadyOn, Loop!Threads
<1>8. ready'[timer] > 0
  BY <1>1, <1>2, <1>3, <1>4
<1>9. Served'
  BY <1>1, <1>3, <1>8 DEF LoopInv, Served, Loop!NoTimer
<1>10. Started' /\ Promised' /\ DeviceOK'
  BY <1>1 DEF LoopInv, Started, Promised, DeviceOK, Loop!Threads, Loop!Over
<1>11. ClockOK'
  BY <1>1, <1>2, <1>4 DEF LoopInv, ClockOK, Loop!Threads, Loop!NoTimer
<1> QED BY <1>7, <1>9, <1>10, <1>11 DEF LoopInv

LEMMA Taking ==
    ASSUME Loop!TimerAssumption, LoopInv, NEW k \in Loop!Threads, Loop!Dispatch(k)
    PROVE  /\ thread[k] = "loop" /\ Loop!Taken(k) \in [Loop!Threads -> Nat]
           /\ IsFiniteSet(Loop!ReadyOn(Loop!Taken(k)))
           /\ Cardinality(Loop!ReadyOn(ready)) = Cardinality(Loop!ReadyOn(Loop!Taken(k))) + 1
           /\ Cardinality(Loop!ReadyOn(Loop!Taken(k))) \in Nat
           /\ \A j \in Loop!Threads : j # k => Loop!Taken(k)[j] = ready[j]
           /\ timer # Loop!NoTimer /\ timer \in Loop!Threads
<1>1. ready \in [Loop!Threads -> Nat] /\ ready[k] > 0 /\ thread[k] = "loop"
      /\ timer \in Loop!Threads \cup {Loop!NoTimer}
  BY DEF LoopInv, ClockOK, Loop!Dispatch
<1>2. timer # Loop!NoTimer
  BY <1>1 DEF LoopInv, Served
<1>3. Loop!Taken(k) = [ready EXCEPT ![k] = @ - 1]
  BY DEF Loop!Taken
<1>4. /\ Loop!Taken(k) \in [Loop!Threads -> Nat] /\ IsFiniteSet(Loop!ReadyOn(Loop!Taken(k)))
      /\ Cardinality(Loop!ReadyOn(ready)) = Cardinality(Loop!ReadyOn(Loop!Taken(k))) + 1
  BY <1>1, <1>3, OneTaken DEF LoopInv, Counted
<1>5. Cardinality(Loop!ReadyOn(Loop!Taken(k))) \in Nat
  BY <1>4, FS_CardinalityType
<1>6. \A j \in Loop!Threads : j # k => Loop!Taken(k)[j] = ready[j]
  BY <1>1, <1>3
<1> QED BY <1>1, <1>2, <1>4, <1>5, <1>6

LEMMA ReArms ==
    ASSUME Loop!TimerAssumption, LoopInv, NEW r \in [Loop!Threads -> Nat], IsFiniteSet(Loop!ReadyOn(r)),
           NEW n \in Nat, Loop!ReArm(n, r)
    PROVE  /\ pend' = 1 /\ timer' = timer /\ due' \in -MaxLag .. MaxLead
           /\ ready' \in [Loop!Threads -> Nat] /\ IsFiniteSet(Loop!ReadyOn(ready'))
           /\ Cardinality(Loop!ReadyOn(ready')) = Cardinality(Loop!ReadyOn(r)) + pend
<1>1. /\ pend' = 1 /\ timer' = timer
      /\ ready' = [j \in Loop!Threads |-> r[j] + Loop!Cancelled[j]]
      /\ due' = IF due + n > MaxLead THEN MaxLead ELSE due + n
  BY DEF Loop!ReArm
<1>2. due \in -MaxLag .. MaxLead /\ MaxLag \in Nat /\ MaxLead \in Nat
  BY LoopConstants DEF LoopInv, ClockOK
<1>3. due' \in -MaxLag .. MaxLead
  BY <1>1, <1>2
<1> QED BY <1>1, <1>3, Cancels

LEMMA LoopExitKeeps ==
    ASSUME Loop!TimerAssumption, LoopInv, NEW k \in Loop!Threads, Loop!LoopExit(k)
    PROVE  LoopInv'
<1>1. /\ Loop!Dispatch(k) /\ ~runs /\ pend' = 0
      /\ ready' = [j \in Loop!Threads |-> Loop!Taken(k)[j] + Loop!Cancelled[j]]
      /\ UNCHANGED <<SpdDomeCam, underWay, missionStatus, runs, grouped, inUse, curPTZposion, failures, lost, timer,
                     due, thread, left, held, behind>>
  BY DEF Loop!LoopExit, Loop!device
<1>2. Loop!Taken(k) \in [Loop!Threads -> Nat] /\ IsFiniteSet(Loop!ReadyOn(Loop!Taken(k)))
      /\ timer # Loop!NoTimer
  BY <1>1, Taking
<1>3. ready' \in [Loop!Threads -> Nat] /\ IsFiniteSet(Loop!ReadyOn(ready'))
  BY <1>1, <1>2, Cancels
<1>4. Counted'
  BY <1>1, <1>3 DEF Counted, Loop!ReadyOn, Loop!Threads
<1>5. Served' /\ Started' /\ Promised' /\ DeviceOK'
  BY <1>1, <1>2 DEF LoopInv, Served, Started, Promised, DeviceOK, Loop!Threads, Loop!NoTimer, Loop!Over
<1>6. ClockOK'
  BY <1>1, <1>3 DEF LoopInv, ClockOK, Loop!Threads, Loop!NoTimer
<1> QED BY <1>4, <1>5, <1>6 DEF LoopInv

LEMMA IdleTurnKeeps ==
    ASSUME Loop!TimerAssumption, LoopInv, NEW k \in Loop!Threads, Loop!IdleTurn(k)
    PROVE  LoopInv'
<1> DEFINE r == Loop!Taken(k)
<1>1. /\ Loop!Dispatch(k) /\ runs /\ Loop!ReArm(1, r) /\ behind' \in BOOLEAN
      /\ UNCHANGED <<SpdDomeCam, underWay, missionStatus, runs, grouped, inUse, curPTZposion, failures, lost, thread,
                     left, held>>
  BY DEF Loop!IdleTurn, Loop!device, LoopInv, DeviceOK
<1>2. /\ r \in [Loop!Threads -> Nat] /\ IsFiniteSet(Loop!ReadyOn(r)) /\ timer # Loop!NoTimer
      /\ Cardinality(Loop!ReadyOn(ready)) = Cardinality(Loop!ReadyOn(r)) + 1
      /\ Cardinality(Loop!ReadyOn(r)) \in Nat
  BY <1>1, Taking
<1> HIDE DEF r
<1>3. /\ pend' = 1 /\ timer' = timer /\ due' \in -MaxLag .. MaxLead
      /\ ready' \in [Loop!Threads -> Nat] /\ IsFiniteSet(Loop!ReadyOn(ready'))
      /\ Cardinality(Loop!ReadyOn(ready')) = Cardinality(Loop!ReadyOn(r)) + pend
  BY <1>1, <1>2, ReArms
<1>4. Turning' = Turning /\ Loop!Begun' = Loop!Begun
  BY <1>1 DEF Turning, Loop!Begun, Loop!Threads
<1>5. pend' + Cardinality(Loop!ReadyOn(ready')) + Cardinality(Turning) = Cardinality(Loop!Begun)
  BY <1>1, <1>2, <1>3, Sizes DEF LoopInv, Counted
<1>6. Counted'
  BY <1>3, <1>4, <1>5 DEF Counted, Loop!ReadyOn, Loop!Threads
<1>7. Started' /\ Promised'
  BY <1>1 DEF LoopInv, Started, Promised, Loop!Threads, Loop!Over
<1>8. DeviceOK'
  BY <1>1 DEF LoopInv, DeviceOK
<1>9. Served'
  BY <1>1, <1>2, <1>3 DEF LoopInv, Served, Loop!NoTimer
<1>10. ClockOK'
  BY <1>1, <1>3 DEF LoopInv, ClockOK, Loop!Threads, Loop!NoTimer
<1> QED BY <1>6, <1>7, <1>8, <1>9, <1>10 DEF LoopInv

LEMMA FireKeeps ==
    ASSUME Loop!TimerAssumption, LoopInv, NEW k \in Loop!Threads, Loop!Fire(k)
    PROVE  LoopInv'
<1>1. /\ Loop!Dispatch(k) /\ ready' = Loop!Taken(k) /\ Goes(k, "turn") /\ runs
      /\ left' = [left EXCEPT ![k] = MaxDelay]
      /\ UNCHANGED <<SpdDomeCam, underWay, missionStatus, runs, grouped, inUse, curPTZposion, failures, lost, timer,
                     due, pend, held, behind>>
  BY DEF Loop!Fire, Loop!device, Goes
<1>2. /\ thread[k] = "loop" /\ ready' \in [Loop!Threads -> Nat] /\ IsFiniteSet(Loop!ReadyOn(ready'))
      /\ Cardinality(Loop!ReadyOn(ready)) = Cardinality(Loop!ReadyOn(ready')) + 1
      /\ Cardinality(Loop!ReadyOn(ready')) \in Nat
      /\ \A j \in Loop!Threads : j # k => ready'[j] = ready[j]
      /\ timer # Loop!NoTimer /\ timer \in Loop!Threads
  BY <1>1, Taking
<1>3. Started' /\ Promised' /\ \A j \in Loop!Threads : thread'[j] = IF j = k THEN "turn" ELSE thread[j]
  BY <1>1, <1>2, ThreadGoes DEF Points
<1>4. k \notin Turning /\ Turning' = Turning \cup {k} /\ Loop!Begun' = Loop!Begun
  BY <1>2, <1>3 DEF Turning, Loop!Begun, Loop!Threads
<1>5. Cardinality(Turning \cup {k}) = Cardinality(Turning) + 1
  BY <1>4, BegunFinite, FS_AddElement
<1>6. pend + Cardinality(Loop!ReadyOn(ready')) + Cardinality(Turning \cup {k}) = Cardinality(Loop!Begun)
  BY <1>1, <1>2, <1>5, Sizes DEF LoopInv, Counted
<1>7. Counted'
  BY <1>1, <1>2, <1>4, <1>6 DEF Counted, Loop!ReadyOn, Loop!Threads
<1>8. Served'
  BY <1>1, <1>2, <1>3 DEF LoopInv, Served, Loop!NoTimer
<1>9. left' \in [Loop!Threads -> Nat]
  BY <1>1, LoopConstants DEF LoopInv, ClockOK
<1>10. ClockOK' /\ DeviceOK'
  BY <1>1, <1>2, <1>9 DEF LoopInv, ClockOK, DeviceOK, Loop!Threads, Loop!NoTimer
<1> QED BY <1>3, <1>7, <1>8, <1>10 DEF LoopInv

LEMMA TurnKeeps ==
    ASSUME Loop!TimerAssumption, LoopInv, NEW k \in Loop!Threads, Loop!TurnOk(k) \/ Loop!TurnFail(k)
    PROVE  LoopInv'
<1>0. PICK n \in {1, Hold} : Loop!ReArm(n, ready)
  BY DEF Loop!TurnOk, Loop!TurnFail
<1>1. /\ thread[k] = "turn" /\ Goes(k, "send") /\ left' = [left EXCEPT ![k] = 0]
      /\ UNCHANGED <<SpdDomeCam, underWay, runs>>
      /\ missionStatus' = missionStatus \/ missionStatus' \in Loop!Over
  BY DEF Loop!TurnOk, Loop!TurnFail, Loop!device, Loop!Over, Goes
<1>2. DeviceOK'
  <2>1. -1 \in -1 .. Hold /\ 0 \in -1 .. Hold /\ TurnFailLimit \in Nat
    BY LoopConstants
  <2>2. CASE Loop!TurnOk(k)
    BY <2>1, <2>2 DEF Loop!TurnOk, Loop!device, LoopInv, DeviceOK
  <2>3. CASE Loop!TurnFail(k)
    <3>1. failures' \in 0 .. TurnFailLimit
      <4>1. failures' = 0 \/ (~(failures + 1 > TurnFailLimit) /\ failures' = failures + 1)
        BY <2>3 DEF Loop!TurnFail
      <4> QED BY <2>1, <4>1 DEF LoopInv, DeviceOK
    <3>2. /\ missionStatus' \in {missionStatus, "FAILD"}
          /\ inUse' \in {inUse, [inUse EXCEPT ![SpdDomeCam] = "FREE"]}
          /\ held' = -1 /\ behind' = TRUE
          /\ UNCHANGED <<SpdDomeCam, underWay, runs, grouped, curPTZposion, lost>>
      BY <2>3 DEF Loop!TurnFail, Loop!NotHeld
    <3> QED BY <2>1, <3>1, <3>2 DEF LoopInv, DeviceOK
  <2> QED BY <2>2, <2>3
<1>3. /\ pend' = 1 /\ timer' = timer /\ due' \in -MaxLag .. MaxLead
      /\ ready' \in [Loop!Threads -> Nat] /\ IsFiniteSet(Loop!ReadyOn(ready'))
      /\ Cardinality(Loop!ReadyOn(ready')) = Cardinality(Loop!ReadyOn(ready)) + pend
  <2>1. n \in Nat /\ ready \in [Loop!Threads -> Nat] /\ IsFiniteSet(Loop!ReadyOn(ready))
    BY LoopConstants DEF LoopInv, ClockOK, Counted
  <2> QED BY <1>0, <2>1, ReArms
<1>4. timer # Loop!NoTimer /\ timer \in Loop!Threads
  BY <1>1 DEF LoopInv, Served, ClockOK
<1>5. Started' /\ Promised' /\ \A j \in Loop!Threads : thread'[j] = IF j = k THEN "send" ELSE thread[j]
  BY <1>1, ThreadGoes DEF Points
<1>6. k \in Turning /\ Turning' = Turning \ {k} /\ Loop!Begun' = Loop!Begun
  BY <1>1, <1>5 DEF Turning, Loop!Begun, Loop!Threads
<1>7. Cardinality(Turning \ {k}) = Cardinality(Turning) - 1
  BY <1>6, BegunFinite, FS_RemoveElement
<1>8. runs => pend' + Cardinality(Loop!ReadyOn(ready')) + Cardinality(Turning \ {k}) = Cardinality(Loop!Begun)
  BY <1>3, <1>7, Sizes DEF LoopInv, Counted
<1>9. Counted'
  BY <1>1, <1>3, <1>6, <1>8 DEF Counted, Loop!ReadyOn, Loop!Threads
<1>10. Served'
  BY <1>1, <1>3, <1>4, <1>5 DEF LoopInv, Served, Loop!NoTimer
<1>11. left' \in [Loop!Threads -> Nat]
  BY <1>1 DEF LoopInv, ClockOK
<1>12. ClockOK'
  BY <1>3, <1>4, <1>11 DEF ClockOK, Loop!Threads, Loop!NoTimer
<1> QED BY <1>2, <1>5, <1>9, <1>10, <1>12 DEF LoopInv

LEMMA InitLoopInv == ASSUME Loop!TimerAssumption, Loop!Init PROVE LoopInv
<1>1. /\ TurnFailLimit \in Nat /\ 0 \in 0 .. MaxStarts /\ 0 \in -MaxLag .. MaxLead /\ -1 \in -1 .. Hold
      /\ 0 \in 0 .. TurnFailLimit
      /\ \A k \in Loop!Threads : k > 0
  BY LoopConstants
<1>2. DeviceOK
  BY <1>1 DEF Loop!Init, DeviceOK, Loop!NotHeld
<1>3. ClockOK
  BY <1>1 DEF Loop!Init, ClockOK
<1>4. Served
  BY DEF Loop!Init, Served
<1>5. \A k \in Loop!Threads : thread[k] = "none" /\ ~(k <= 0)
  BY <1>1, LoopConstants DEF Loop!Init
<1>6. thread \in [Loop!Threads -> Points]
  BY DEF Loop!Init, Points
<1>7. Started
  BY <1>1, <1>5, <1>6 DEF Started
<1>8. Loop!ReadyOn(ready) = {}
  BY DEF Loop!Init, Loop!ReadyOn
<1>9. Turning = {} /\ Loop!Begun = {} /\ pend = 0
  BY DEF Loop!Init, Turning, Loop!Begun
<1>10. Counted
  BY <1>8, <1>9, FS_EmptySet DEF Counted
<1>11. Promised
  BY DEF Loop!Init, Promised
<1> QED BY <1>2, <1>3, <1>4, <1>7, <1>10, <1>11 DEF LoopInv

LEMMA StepLoopInv ==
    ASSUME Loop!TimerAssumption, LoopInv, [Loop!Next]_Loop!vars
    PROVE  LoopInv'
<1>1. CASE UNCHANGED Loop!vars
  <2>1. UNCHANGED <<SpdDomeCam, underWay, missionStatus, runs, grouped, inUse, curPTZposion, failures, lost, timer,
                    due, pend, ready, thread, left, held, behind>>
    BY <1>1 DEF Loop!vars, Loop!device, Loop!clock
  <2>2. DeviceOK' /\ Promised'
    BY <2>1 DEF LoopInv, DeviceOK, Promised, Loop!Threads, Loop!Over
  <2> QED BY <2>1, <2>2, SessionKeeps
<1>2. ASSUME NEW k \in Loop!Threads, Loop!Thread(k) PROVE LoopInv'
  BY <1>2, NewTimerKeeps, ArmKeeps, LoopExitKeeps, IdleTurnKeeps, FireKeeps, TurnKeeps, SendKeeps,
     HoldEndKeeps DEF Loop!Thread
<1> QED BY <1>1, <1>2, SessionStep, ExpireKeeps, TickKeeps DEF Loop!Next

\* Every start() of a connected device keeps exactly one iteration going, for
\* any number of starts and however their waits are cancelled.
THEOREM StartsIterateOnce ==
    ASSUME Loop!TimerAssumption
    PROVE  Loop!Spec => []Loop!OneIterationPerStart
<1>1. Loop!Init => LoopInv
  BY InitLoopInv
<1>2. LoopInv /\ [Loop!Next]_Loop!vars => LoopInv'
  BY StepLoopInv
<1>3. LoopInv => Loop!OneIterationPerStart
  <2> SUFFICES ASSUME LoopInv PROVE Loop!OneIterationPerStart
    OBVIOUS
  <2>1. Loop!TypeOK
    BY DEF LoopInv, DeviceOK, ClockOK, Started, Points, Loop!TypeOK, Loop!Over, Loop!NotHeld
  <2>2. Loop!TotalReady = Cardinality(Loop!ReadyOn(ready)) /\ Loop!Cardinality(Loop!Begun) = Cardinality(Loop!Begun)
        /\ Loop!Cardinality({k \in Loop!Threads : thread[k] = "turn"}) = Cardinality(Turning)
    BY LoopCardinality DEF Loop!TotalReady, Turning
  <2>3. runs /\ timer # Loop!NoTimer => thread[timer] # "exit"
    BY DEF LoopInv, Served
  <2> QED BY <2>1, <2>2, <2>3 DEF LoopInv, Counted, Loop!OneIterationPerStart
<1> QED BY <1>1, <1>2, <1>3, PTL DEF Loop!Spec

-----------------------------------------------------------------------------
(* One loop on its timer: how long a preset is held.                        *)

Single == \A k \in Loop!Threads : k # 1 => thread[k] = "none"

\* Its one iteration is a wait, a ready handler or a turn.
OneWait ==
    /\ \A k \in Loop!Threads : k # 1 => ready[k] = 0
    /\ pend + ready[1] <= 1
    /\ thread[1] \in Waiting \cup {"turn"} => pend + ready[1] = 0
    /\ runs /\ thread[1] \notin Waiting \cup {"turn"} => pend + ready[1] = 1

\* No preset is faced when no mission is on, and by a camera without presets only
\* once a login has replaced the one that faced it and is to start a second loop.
NotFacing ==
    /\ missionStatus \in Loop!Over => held = -1
    /\ SpdDomeCam \in Cameras /\ PresetTotal[SpdDomeCam] = 0 => held = -1 \/ underWay = "start"
    /\ thread[1] = "turn" =>
          /\ missionStatus \notin Loop!Over
          /\ PresetTotal[SpdDomeCam] # 0 \/ underWay = "start"
    /\ thread[1] \in Waiting \cup {"release"} => held = -1

Slept == thread[1] = "hold" /\ held # -1 => held + left[1] >= Hold

\* The timer is late by no more than the turn under way, and it leaves a preset
\* what is missing of its time, if the loop can turn away from it.
OnTime ==
    runs /\ ~behind =>
        /\ missionStatus \notin Loop!Over /\ thread[1] \in {"arm", "loop", "send", "release"} => due >= 0
        /\ thread[1] = "turn" => due >= left[1] - MaxDelay
        /\ thread[1] \in {"loop", "send"} /\ held # -1 =>
              \/ held >= Hold - MaxDelay
              \/ ready[1] = 0 /\ held + due >= Hold - MaxDelay
              \/ underWay = "start" /\ PresetTotal[SpdDomeCam] = 0

OneLoop == OneWait /\ NotFacing /\ Slept /\ OnTime

HoldInv == LoopInv /\ (MaxDelay < Hold /\ Single => OneLoop)

LEMMA FirstThread ==
    ASSUME Loop!TimerAssumption, LoopInv
    PROVE  /\ 1 \in Loop!Threads /\ ready[1] \in Nat /\ left[1] \in Nat /\ thread[1] \in Points
           /\ pend \in Nat /\ due \in Int /\ held \in Int /\ (held = -1 \/ held >= 0)
           /\ MaxDelay \in Nat /\ Hold \in Nat \ {0} /\ MaxLag \in Nat /\ MaxLead \in Nat /\ MaxLead >= Hold
BY LoopConstants DEF LoopInv, ClockOK, DeviceOK, Started

\* With one loop, every wait there is is one of its own.
LEMMA OneCancels ==
    ASSUME Loop!TimerAssumption, LoopInv, Single, NEW r \in [Loop!Threads -> Nat],
           IsFiniteSet(Loop!ReadyOn(r)),
           NEW q, q = [j \in Loop!Threads |-> r[j] + Loop!Cancelled[j]]
    PROVE  q[1] = r[1] + pend /\ \A j \in Loop!Threads : j # 1 => q[j] = r[j]
<1>1. \A j \in Loop!Threads : q[j] = IF j = timer THEN r[j] + pend ELSE r[j]
  BY Cancels
<1>2. timer # Loop!NoTimer => timer = 1
  BY DEF LoopInv, Served, ClockOK, Single
<1>3. timer = Loop!NoTimer => pend = 0
  BY DEF LoopInv, Served
<1> QED BY <1>1, <1>2, <1>3, FirstThread, LoopConstants

LEMMA FirstOnly ==
    ASSUME Loop!TimerAssumption, LoopInv, Single, NEW k \in Loop!Threads, thread[k] # "none"
    PROVE  k = 1
BY DEF Single

\* A handler that begins leaves the thread and the time a preset was faced alone.
LEMMA HandlerOneLoop ==
    ASSUME Loop!TimerAssumption, LoopInv, Single, OneLoop,
           Loop!Login \/ Loop!FirstMission \/ Loop!NextMission
    PROVE  OneLoop'
<1>1. /\ UNCHANGED <<missionStatus, runs, due, pend, ready, thread, left, held, behind>>
      /\ underWay = "no"
      /\ SpdDomeCam' = SpdDomeCam \/ underWay' = "start" \/ missionStatus \in Loop!Over
  BY HandlerBegins
<1>2. OneWait' /\ Slept'
  BY <1>1 DEF OneLoop, OneWait, Slept, Loop!Threads
<1>3. NotFacing'
  BY <1>1 DEF OneLoop, NotFacing, Loop!Over
<1>4. OnTime'
  BY <1>1 DEF OneLoop, NotFacing, OnTime, Loop!Over
<1> QED BY <1>2, <1>3, <1>4 DEF OneLoop

\* MissionReady starts the one thread, or a mission of the loop it finds.
LEMMA ReadyOneLoop ==
    ASSUME Loop!TimerAssumption, LoopInv, Single => OneLoop, Single', Loop!MissionReady
    PROVE  OneLoop'
<1>1. /\ UNCHANGED <<SpdDomeCam, runs, due, pend, ready, left, held>>
      /\ underWay \in {"ready", "start"} /\ underWay' = "no" /\ missionStatus' = "READY"
      /\ behind' = (behind \/ due < 0)
      /\ IF underWay = "start" THEN Loop!start ELSE UNCHANGED thread
  BY DEF Loop!MissionReady, Loop!clock, LoopInv, DeviceOK
<1>2. CASE underWay = "start"
  <2>1. PICK m \in Loop!Threads :
           /\ thread[m] = "none" /\ thread'[m] = "new"
           /\ \A k \in Loop!Threads : k # m => thread'[k] = thread[k]
    BY <1>1, <1>2, StartsNext DEF LoopInv, Promised
  <2>2. m = 1
    BY <2>1 DEF Single, Loop!Threads
  <2>3. Single
    BY <2>1, <2>2 DEF Single, Loop!Threads
  <2>4. held = -1 /\ pend + ready[1] = 0
    BY <2>1, <2>2, <2>3 DEF OneLoop, NotFacing, OneWait, Waiting
  <2>5. OneWait'
    BY <1>1, <2>1, <2>2, <2>3, <2>4 DEF OneLoop, OneWait, Waiting, Loop!Threads
  <2> QED BY <1>1, <2>1, <2>2, <2>4, <2>5 DEF OneLoop, NotFacing, Slept, OnTime, Loop!Over
<1>3. CASE underWay = "ready"
  <2>1. UNCHANGED thread /\ Single
    BY <1>1, <1>3 DEF Single, Loop!Threads
  <2>2. missionStatus \in Loop!Over /\ held = -1 /\ thread[1] # "turn"
    BY <1>3, <2>1 DEF LoopInv, Promised, OneLoop, NotFacing
  <2>3. OneWait' /\ Slept'
    BY <1>1, <2>1 DEF OneLoop, OneWait, Slept, Loop!Threads
  <2>4. NotFacing'
    BY <1>1, <2>1, <2>2 DEF NotFacing
  <2>5. runs' /\ ~behind' => due >= 0
    <3>1. ~behind' => ~(due < 0)
      BY <1>1, Zenon
    <3> QED BY <3>1, FirstThread
  <2>6. OnTime'
    BY <1>1, <2>1, <2>2, <2>5 DEF OnTime
  <2> QED BY <2>3, <2>4, <2>6 DEF OneLoop
<1> QED BY <1>1, <1>2, <1>3

\* A step of the session starts the one thread or leaves it alone.
LEMMA SessionOneLoop ==
    ASSUME Loop!TimerAssumption, LoopInv, Single => OneLoop, Single',
           \/ Loop!Login \/ Loop!FirstMission \/ Loop!NextMission \/ Loop!MissionReady
           \/ Loop!PictureReceived \/ Loop!stop
    PROVE  OneLoop'
<1>1. CASE Loop!Login \/ Loop!FirstMission \/ Loop!NextMission
  <2>1. Single
    BY <1>1, HandlerBegins DEF Single, Loop!Threads
  <2> QED BY <1>1, <2>1, HandlerOneLoop
<1>2. CASE Loop!PictureReceived \/ Loop!stop
  <2>1. /\ UNCHANGED <<SpdDomeCam, missionStatus, underWay, due, pend, ready, thread, left, held, behind>>
        /\ runs' => runs
    BY <1>2 DEF Loop!PictureReceived, Loop!stop, Loop!clock
  <2>2. OneLoop
    BY <2>1 DEF Single, Loop!Threads
  <2> QED BY <2>1, <2>2 DEF OneLoop, OneWait, NotFacing, Slept, OnTime, Loop!Threads, Loop!Over
<1> QED BY <1>1, <1>2, ReadyOneLoop

LEMMA NewTimerOneLoop ==
    ASSUME Loop!TimerAssumption, LoopInv, Single, OneLoop, Loop!NewTimer(1)
    PROVE  OneLoop'
<1>1. /\ thread[1] = "new" /\ UNCHANGED <<runs, behind, SpdDomeCam, underWay, missionStatus, left, held>>
      /\ \/ /\ due' = 1 /\ pend' = 0 /\ thread' = [thread EXCEPT ![1] = "arm"]
            /\ ready' = [j \in Loop!Threads |-> ready[j] + Loop!Cancelled[j]]
         \/ ~runs /\ thread' = [thread EXCEPT ![1] = "exit"] /\ UNCHANGED <<due, pend, ready>>
  BY DEF Loop!NewTimer, Loop!device, Loop!clock
<1>2. held = -1 /\ pend + ready[1] = 0
  BY <1>1 DEF OneLoop, NotFacing, OneWait, Waiting
<1>3. 1 \in Loop!Threads /\ thread \in [Loop!Threads -> Points] /\ ready \in [Loop!Threads -> Nat]
      /\ pend \in Nat /\ ready[1] \in Nat /\ IsFiniteSet(Loop!ReadyOn(ready))
  BY FirstThread DEF LoopInv, Started, ClockOK, Counted
<1>4. CASE /\ due' = 1 /\ pend' = 0 /\ thread' = [thread EXCEPT ![1] = "arm"]
           /\ ready' = [j \in Loop!Threads |-> ready[j] + Loop!Cancelled[j]]
  <2>1. thread'[1] = "arm"
    BY <1>3, <1>4
  <2>2. ready'[1] = 0 /\ \A j \in Loop!Threads : j # 1 => ready'[j] = ready[j]
    <3>1. ready'[1] = ready[1] + pend /\ \A j \in Loop!Threads : j # 1 => ready'[j] = ready[j]
      BY <1>3, <1>4, OneCancels
    <3> QED BY <1>2, <1>3, <3>1
  <2>3. OneWait'
    BY <1>4, <2>1, <2>2 DEF OneLoop, OneWait, Waiting, Loop!Threads
  <2> QED BY <1>1, <1>2, <1>4, <2>1, <2>3 DEF OneLoop, NotFacing, Slept, OnTime, Loop!Over
<1>5. CASE ~runs /\ thread' = [thread EXCEPT ![1] = "exit"] /\ UNCHANGED <<due, pend, ready>>
  <2>1. thread'[1] = "exit"
    BY <1>3, <1>5
  <2>2. OneWait'
    BY <1>1, <1>2, <1>5, <2>1 DEF OneLoop, OneWait, Waiting, Loop!Threads
  <2> QED BY <1>1, <1>2, <1>5, <2>1, <2>2 DEF OneLoop, NotFacing, Slept, OnTime, Loop!Over
<1> QED BY <1>1, <1>4, <1>5

LEMMA ArmOneLoop ==
    ASSUME Loop!TimerAssumption, LoopInv, Single, OneLoop, Loop!Arm(1)
    PROVE  OneLoop'
<1>1. /\ thread[1] = "arm" /\ UNCHANGED <<runs, behind, SpdDomeCam, underWay, missionStatus, left, held, due, ready>>
      /\ pend' = pend + 1 /\ thread' = [thread EXCEPT ![1] = "loop"]
  BY DEF Loop!Arm, Loop!device
<1>2. held = -1 /\ pend + ready[1] = 0
  BY <1>1 DEF OneLoop, NotFacing, OneWait, Waiting
<1>3. thread'[1] = "loop"
  BY <1>1, FirstThread DEF LoopInv, Started
<1>4. pend' = 1 /\ ready[1] = 0
  BY <1>1, <1>2, FirstThread
<1>5. OneWait'
  BY <1>1, <1>3, <1>4 DEF OneLoop, OneWait, Waiting, Loop!Threads
<1> QED BY <1>1, <1>2, <1>3, <1>5 DEF OneLoop, NotFacing, Slept, OnTime, Loop!Over

LEMMA ExpireOneLoop ==
    ASSUME Loop!TimerAssumption, LoopInv, Single, OneLoop, Loop!Expire
    PROVE  OneLoop'
<1>1. /\ UNCHANGED <<runs, behind, SpdDomeCam, underWay, missionStatus, left, held, due, thread>>
      /\ pend > 0 /\ due <= 0 /\ pend' = 0
      /\ ready' = [j \in Loop!Threads |-> ready[j] + Loop!Cancelled[j]]
  BY DEF Loop!Expire, Loop!device
<1>2. ready \in [Loop!Threads -> Nat] /\ IsFiniteSet(Loop!ReadyOn(ready))
  BY DEF LoopInv, ClockOK, Counted
<1>3. ready'[1] = ready[1] + pend /\ \A j \in Loop!Threads : j # 1 => ready'[j] = ready[j]
  BY <1>1, <1>2, OneCancels
<1>4. OneWait'
  <2>1. pend' + ready'[1] = pend + ready[1]
    BY <1>1, <1>3, FirstThread
  <2> QED BY <1>1, <1>3, <2>1 DEF OneLoop, OneWait, Loop!Threads
<1>5. held + due >= Hold - MaxDelay => held >= Hold - MaxDelay
  BY <1>1, FirstThread
<1>6. OnTime'
  BY <1>1, <1>5 DEF OneLoop, OnTime, Loop!Over
<1> QED BY <1>1, <1>4, <1>6 DEF OneLoop, NotFacing, Slept, Loop!Over

\* The handler its thread takes up is the only one.
LEMMA OnlyHandler ==
    ASSUME Loop!TimerAssumption, LoopInv, Single, OneLoop, Loop!Dispatch(1)
    PROVE  /\ thread[1] = "loop" /\ pend = 0 /\ ready[1] = 1 /\ Loop!Taken(1)[1] = 0
           /\ \A j \in Loop!Threads : j # 1 => Loop!Taken(1)[j] = ready[j]
           /\ Loop!Taken(1) \in [Loop!Threads -> Nat] /\ IsFiniteSet(Loop!ReadyOn(Loop!Taken(1)))
<1>1. thread[1] = "loop" /\ ready[1] > 0 /\ pend + ready[1] <= 1
  BY DEF Loop!Dispatch, OneLoop, OneWait
<1>2. pend = 0 /\ ready[1] = 1
  BY <1>1, FirstThread
<1>3. Loop!Taken(1)[1] = 0
  BY <1>2, FirstThread DEF Loop!Taken, LoopInv, ClockOK
<1> QED BY <1>1, <1>2, <1>3, Taking, FirstThread

LEMMA LoopExitOneLoop ==
    ASSUME Loop!TimerAssumption, LoopInv, Single, OneLoop, Loop!LoopExit(1)
    PROVE  OneLoop'
<1> DEFINE r == Loop!Taken(1)
<1>1. /\ UNCHANGED <<runs, SpdDomeCam, underWay, missionStatus, left, held, thread>>
      /\ Loop!Dispatch(1) /\ ~runs /\ pend' = 0
      /\ ready' = [j \in Loop!Threads |-> r[j] + Loop!Cancelled[j]]
  BY DEF Loop!LoopExit, Loop!device
<1>2. /\ thread[1] = "loop" /\ pend = 0 /\ r[1] = 0
      /\ \A j \in Loop!Threads : j # 1 => r[j] = ready[j]
      /\ r \in [Loop!Threads -> Nat] /\ IsFiniteSet(Loop!ReadyOn(r))
  BY <1>1, OnlyHandler
<1> HIDE DEF r
<1>3. ready'[1] = 0 /\ \A j \in Loop!Threads : j # 1 => ready'[j] = r[j]
  <2>1. ready'[1] = r[1] + pend /\ \A j \in Loop!Threads : j # 1 => ready'[j] = r[j]
    BY <1>1, <1>2, OneCancels
  <2> QED BY <1>2, <2>1
<1>4. OneWait'
  <2>1. pend' + ready'[1] = 0
    BY <1>1, <1>3
  <2>2. \A j \in Loop!Threads : j # 1 => ready'[j] = 0
    BY <1>2, <1>3 DEF OneLoop, OneWait
  <2> QED BY <1>1, <1>2, <2>1, <2>2 DEF OneWait, Loop!Threads, Waiting
<1> QED BY <1>1, <1>4 DEF OneLoop, NotFacing, Slept, OnTime, Loop!Over

\* Re-arming the timer of the one loop leaves one wait.
LEMMA OneReArm ==
    ASSUME Loop!TimerAssumption, LoopInv, Single, OneLoop, NEW r \in [Loop!Threads -> Nat],
           IsFiniteSet(Loop!ReadyOn(r)), NEW n \in Nat, Loop!ReArm(n, r),
           pend = 0, r[1] = 0, \A j \in Loop!Threads : j # 1 => r[j] = ready[j],
           thread'[1] \notin Waiting \cup {"turn"}
    PROVE  /\ OneWait' /\ ready'[1] = 0
           /\ due' >= due \/ due' >= Hold
           /\ due' >= due + n \/ due' >= Hold
<1>1. pend' = 1 /\ ready' = [j \in Loop!Threads |-> r[j] + Loop!Cancelled[j]]
      /\ due' = IF due + n > MaxLead THEN MaxLead ELSE due + n
  BY DEF Loop!ReArm
<1>2. ready'[1] = 0 /\ \A j \in Loop!Threads : j # 1 => ready'[j] = r[j]
  <2>1. ready'[1] = r[1] + pend /\ \A j \in Loop!Threads : j # 1 => ready'[j] = r[j]
    BY <1>1, OneCancels
  <2> QED BY <2>1
<1>3. OneWait'
  BY <1>1, <1>2 DEF OneLoop, OneWait, Loop!Threads, Waiting
<1> QED BY <1>1, <1>2, <1>3, FirstThread

LEMMA IdleTurnOneLoop ==
    ASSUME Loop!TimerAssumption, LoopInv, Single, OneLoop, Loop!IdleTurn(1)
    PROVE  OneLoop'
<1>1. /\ UNCHANGED <<runs, SpdDomeCam, underWay, missionStatus, left, held, thread>>
      /\ Loop!Dispatch(1) /\ runs /\ Loop!Idle /\ Loop!ReArm(1, Loop!Taken(1))
      /\ behind' = (behind /\ due' <= 0)
  BY DEF Loop!IdleTurn, Loop!device
<1>2. thread[1] = "loop"
  BY <1>1, OnlyHandler
<1>3. OneWait' /\ (due' >= due \/ due' >= Hold)
  BY <1>1, <1>2, OnlyHandler, OneReArm DEF Waiting
<1>4. held = -1 \/ (underWay = "start" /\ PresetTotal[SpdDomeCam] = 0)
  <2>1. SpdDomeCam \in Cameras
    BY <1>2, FirstThread DEF LoopInv, Started
  <2> QED BY <1>1, <2>1 DEF Loop!Idle, OneLoop, NotFacing
<1>5. ~behind' => ~behind \/ ~(due' <= 0)
  BY <1>1, Zenon
<1>6. ~behind' /\ missionStatus \notin Loop!Over => due' >= 0
  <2>1. due' \in Int
    BY <1>1, OnlyHandler, ReArms
  <2>2. CASE ~(due' <= 0)
    BY <2>1, <2>2
  <2>3. CASE ~behind /\ missionStatus \notin Loop!Over
    <3>1. due >= 0
      BY <1>1, <1>2, <2>3 DEF OneLoop, OnTime
    <3> QED BY <1>3, <2>1, <3>1, FirstThread
  <2> QED BY <1>5, <2>2, <2>3
<1>7. OnTime'
  BY <1>1, <1>2, <1>4, <1>6 DEF OnTime, Loop!Over
<1>8. UNCHANGED <<SpdDomeCam, underWay, missionStatus, left, held, thread>>
  BY <1>1
<1>9. NotFacing' /\ Slept'
  BY <1>8 DEF OneLoop, NotFacing, Slept, Loop!Over
<1> QED BY <1>3, <1>7, <1>9 DEF OneLoop

\* What the loop turns away from was faced long enough.
LEMMA FireOneLoop ==
    ASSUME Loop!TimerAssumption, LoopInv, Single, OneLoop, Loop!Fire(1)
    PROVE  OneLoop' /\ (held # -1 /\ ~behind => held >= Hold - MaxDelay)
<1>1. /\ UNCHANGED <<runs, behind, SpdDomeCam, underWay, missionStatus, held, due, pend>>
      /\ Loop!Dispatch(1) /\ runs /\ ~Loop!Idle /\ ready' = Loop!Taken(1)
      /\ thread' = [thread EXCEPT ![1] = "turn"] /\ left' = [left EXCEPT ![1] = MaxDelay]
  BY DEF Loop!Fire, Loop!device
<1>2. thread'[1] = "turn" /\ left'[1] = MaxDelay
  BY <1>1, FirstThread DEF LoopInv, Started, ClockOK
<1>3. /\ thread[1] = "loop" /\ pend = 0 /\ ready[1] = 1 /\ ready'[1] = 0
      /\ \A j \in Loop!Threads : j # 1 => ready'[j] = ready[j]
  BY <1>1, OnlyHandler
<1>4. OneWait'
  BY <1>1, <1>2, <1>3 DEF OneLoop, OneWait, Waiting, Loop!Threads
<1>5. ~behind => due >= 0
  BY <1>1, <1>3 DEF Loop!Idle, OneLoop, OnTime
<1>6. OnTime'
  BY <1>1, <1>2, <1>5, FirstThread DEF OnTime
<1>7. NotFacing' /\ Slept'
  BY <1>1, <1>2, <1>3 DEF Loop!Idle, Loop!Over, OneLoop, NotFacing, Slept, Waiting
<1>8. held # -1 /\ ~behind => held >= Hold - MaxDelay
  BY <1>1, <1>3 DEF OneLoop, OnTime, Loop!Idle
<1> QED BY <1>4, <1>6, <1>7, <1>8 DEF OneLoop

LEMMA TurnOneLoop ==
    ASSUME Loop!TimerAssumption, LoopInv, MaxDelay < Hold, Single, OneLoop,
           Loop!TurnOk(1) \/ Loop!TurnFail(1)
    PROVE  OneLoop'
<1>1. /\ thread[1] = "turn" /\ thread' = [thread EXCEPT ![1] = "send"]
      /\ UNCHANGED <<runs, SpdDomeCam, underWay>>
  BY DEF Loop!TurnOk, Loop!TurnFail, Loop!device
<1>2. thread'[1] = "send"
  BY <1>1, FirstThread DEF LoopInv, Started
<1>3. /\ pend = 0 /\ ready[1] = 0 /\ ready \in [Loop!Threads -> Nat] /\ IsFiniteSet(Loop!ReadyOn(ready))
  <2>1. pend + ready[1] = 0
    BY <1>1 DEF OneLoop, OneWait
  <2> QED BY <2>1, FirstThread DEF LoopInv, ClockOK, Counted
<1>4. CASE Loop!TurnOk(1)
  <2>1. Loop!ReArm(Hold, ready) /\ held' = 0 /\ UNCHANGED <<missionStatus, behind>>
    BY <1>4 DEF Loop!TurnOk, Loop!device
  <2>2. OneWait' /\ ready'[1] = 0 /\ (due' >= due + Hold \/ due' >= Hold)
    BY <1>2, <1>3, <2>1, OneReArm, FirstThread DEF Waiting
  <2>3. runs /\ ~behind => due >= -MaxDelay
    <3>1. runs /\ ~behind => due >= left[1] - MaxDelay
      BY <1>1 DEF OneLoop, OnTime
    <3> QED BY <3>1, FirstThread
  <2>4. runs /\ ~behind => due' >= Hold - MaxDelay
    <3>1. due' \in Int
      BY <1>3, <2>1, FirstThread, ReArms
    <3> QED BY <2>2, <2>3, <3>1, FirstThread
  <2>5. runs /\ ~behind => due' >= 0 /\ held' + due' >= Hold - MaxDelay
    <3>1. due' \in Int
      BY <1>3, <2>1, FirstThread, ReArms
    <3>2. \A d \in Int : d >= Hold - MaxDelay => d >= 0 /\ 0 + d >= Hold - MaxDelay
      BY FirstThread
    <3> QED BY <2>1, <2>4, <3>1, <3>2, Zenon
  <2>6. OnTime'
    BY <1>1, <1>2, <2>1, <2>2, <2>5 DEF OnTime
  <2>7. NotFacing' /\ Slept'
    BY <1>1, <1>2, <2>1, FirstThread DEF OneLoop, NotFacing, Slept, Waiting, Loop!Over
  <2> QED BY <2>2, <2>6, <2>7 DEF OneLoop
<1>5. CASE Loop!TurnFail(1)
  <2>1. Loop!ReArm(1, ready) /\ held' = -1 /\ behind' = TRUE
    BY <1>5 DEF Loop!TurnFail, Loop!NotHeld
  <2>2. OneWait'
    BY <1>2, <1>3, <2>1, OneReArm DEF Waiting
  <2> QED BY <1>2, <2>1, <2>2 DEF OneLoop, NotFacing, Slept, OnTime
<1> QED BY <1>4, <1>5

\* Sending the result, holding the last preset and giving the camera back.
LEMMA SendOneLoop ==
    ASSUME Loop!TimerAssumption, LoopInv, Single, OneLoop, Loop!Send(1)
    PROVE  OneLoop'
<1>1. /\ thread[1] = "send"
      /\ UNCHANGED <<runs, behind, SpdDomeCam, underWay, missionStatus, held, due, pend, ready>>
  BY DEF Loop!Send, Loop!clock
<1>2. \/ thread' = [thread EXCEPT ![1] = "hold"] /\ left' = [left EXCEPT ![1] = Hold]
      \/ thread' = [thread EXCEPT ![1] = "loop"]
  BY DEF Loop!Send
<1>3. thread'[1] = "loop" \/ (thread'[1] = "hold" /\ left'[1] = Hold)
  BY <1>2, FirstThread DEF LoopInv, Started, ClockOK
<1>4. OneWait'
  BY <1>1, <1>3 DEF OneLoop, OneWait, Waiting, Loop!Threads
<1>5. NotFacing' /\ OnTime'
  BY <1>1, <1>3 DEF OneLoop, NotFacing, OnTime, Waiting, Loop!Over
<1>6. Slept'
  BY <1>1, <1>3, FirstThread DEF Slept
<1> QED BY <1>4, <1>5, <1>6 DEF OneLoop

LEMMA HoldEndOneLoop ==
    ASSUME Loop!TimerAssumption, LoopInv, Single, OneLoop, Loop!HoldEnd(1)
    PROVE  OneLoop' /\ (held # -1 => held >= Hold)
<1>1. /\ thread[1] = "hold" /\ thread' = [thread EXCEPT ![1] = "release"]
      /\ left[1] = 0 /\ missionStatus' = "COMPLETED" /\ held' = -1
      /\ UNCHANGED <<runs, behind, SpdDomeCam, underWay, due, pend, ready>>
  BY DEF Loop!HoldEnd, Loop!clock, Loop!NotHeld
<1>2. thread'[1] = "release"
  BY <1>1, FirstThread DEF LoopInv, Started
<1>3. OneWait'
  BY <1>1, <1>2 DEF OneLoop, OneWait, Waiting, Loop!Threads
<1>4. NotFacing' /\ OnTime' /\ Slept'
  BY <1>1, <1>2 DEF NotFacing, OnTime, Slept, Waiting, Loop!Over
<1>5. held # -1 => held >= Hold
  BY <1>1, FirstThread DEF OneLoop, Slept
<1> QED BY <1>3, <1>4, <1>5 DEF OneLoop

LEMMA ReleaseOneLoop ==
    ASSUME Loop!TimerAssumption, LoopInv, Single, OneLoop, Loop!Release(1)
    PROVE  OneLoop'
<1>1. /\ thread[1] = "release" /\ thread' = [thread EXCEPT ![1] = "loop"]
      /\ UNCHANGED <<runs, behind, SpdDomeCam, underWay, missionStatus, held, left, due, pend, ready>>
  BY DEF Loop!Release, Loop!clock
<1>2. thread'[1] = "loop" /\ held = -1
  BY <1>1, FirstThread DEF LoopInv, Started, OneLoop, NotFacing
<1>3. OneWait'
  BY <1>1, <1>2 DEF OneLoop, OneWait, Waiting, Loop!Threads
<1> QED BY <1>1, <1>2, <1>3 DEF OneLoop, NotFacing, OnTime, Slept, Waiting, Loop!Over

LEMMA ThreadEndOneLoop ==
    ASSUME Loop!TimerAssumption, LoopInv, Single, OneLoop, Loop!ThreadEnd(1)
    PROVE  OneLoop'
<1>1. /\ thread[1] = "loop" /\ thread' = [thread EXCEPT ![1] = "exit"]
      /\ ready[1] = 0 /\ (timer # 1 \/ pend = 0)
      /\ UNCHANGED <<runs, behind, SpdDomeCam, underWay, missionStatus, held, left, due, pend, ready>>
  BY DEF Loop!ThreadEnd, Loop!device, Loop!clock
<1>2. thread'[1] = "exit"
  BY <1>1, FirstThread DEF LoopInv, Started
<1>3. OneWait'
  BY <1>1, <1>2 DEF OneLoop, OneWait, Waiting, Loop!Threads
<1> QED BY <1>1, <1>2, <1>3 DEF OneLoop, NotFacing, OnTime, Slept, Waiting, Loop!Over

LEMMA TickOneLoop ==
    ASSUME Loop!TimerAssumption, LoopInv, Single, OneLoop, Loop!Tick
    PROVE  OneLoop'
<1>1. /\ UNCHANGED <<runs, behind, SpdDomeCam, underWay, missionStatus, timer, pend, ready, thread>>
      /\ pend > 0 => due > 0
      /\ thread[1] \notin {"arm", "send", "release"}
      /\ thread[1] \in {"turn", "hold"} => left[1] > 0
      /\ thread[1] = "loop" => ready[1] = 0
      /\ due' = due \/ (due # -MaxLag /\ due' = due - 1)
  BY FirstThread DEF Loop!Tick, Loop!device
<1>2. left'[1] = IF left[1] > 0 THEN left[1] - 1 ELSE 0
  BY FirstThread DEF Loop!Tick
<1>3. \/ held = -1 /\ held' = -1
      \/ held = Hold /\ held' = Hold
      \/ held >= 0 /\ held' = held + 1
  BY FirstThread DEF Loop!Tick, Loop!NotHeld
<1>4. OneWait'
  BY <1>1 DEF OneLoop, OneWait, Loop!Threads
<1>5. NotFacing'
  BY <1>1, <1>3, FirstThread DEF OneLoop, NotFacing, Loop!Over
<1>6. Slept'
  <2> SUFFICES ASSUME thread[1] = "hold", held # -1 PROVE held' + left'[1] >= Hold
    BY <1>1, <1>3, FirstThread DEF Slept
  <2>1. held + left[1] >= Hold /\ left[1] > 0
    BY <1>1 DEF OneLoop, Slept
  <2> QED BY <1>2, <1>3, <2>1, FirstThread
<1>7. OnTime'
  <2> SUFFICES ASSUME runs, ~behind PROVE OnTime'
    BY <1>1 DEF OnTime
  <2>1. ASSUME missionStatus \notin Loop!Over, thread[1] = "loop" PROVE due' >= 0
    <3>1. pend > 0
      <4>1. pend + ready[1] = 1 /\ ready[1] = 0
        BY <1>1, <2>1 DEF OneLoop, OneWait, Waiting
      <4> QED BY <4>1, FirstThread
    <3> QED BY <1>1, <3>1, FirstThread
  <2>2. ASSUME thread[1] = "turn" PROVE due' >= left'[1] - MaxDelay
    <3>1. due >= left[1] - MaxDelay /\ left[1] > 0
      BY <1>1, <2>2 DEF OneLoop, OnTime
    <3> QED BY <1>1, <1>2, <3>1, FirstThread
  <2>3. ASSUME thread[1] = "loop", held' # -1
        PROVE  \/ held' >= Hold - MaxDelay
               \/ ready[1] = 0 /\ held' + due' >= Hold - MaxDelay
               \/ underWay = "start" /\ PresetTotal[SpdDomeCam] = 0
    <3>1. \/ held >= Hold - MaxDelay \/ held + due >= Hold - MaxDelay
          \/ underWay = "start" /\ PresetTotal[SpdDomeCam] = 0
      BY <1>3, <2>3, FirstThread DEF OneLoop, OnTime
    <3> QED BY <1>1, <1>3, <2>3, <3>1, FirstThread
  <2> QED BY <1>1, <2>1, <2>2, <2>3 DEF OnTime, Loop!Over
<1> QED BY <1>4, <1>5, <1>6, <1>7 DEF OneLoop

LEMMA InitHoldInv == ASSUME Loop!TimerAssumption, Loop!Init PROVE HoldInv
<1>1. LoopInv
  BY InitLoopInv
<1>2. held = -1 /\ pend = 0 /\ thread[1] = "none" /\ \A k \in Loop!Threads : ready[k] = 0
  BY <1>1, FirstThread DEF Loop!Init, Loop!NotHeld
<1>3. ready[1] = 0
  BY <1>1, <1>2, FirstThread
<1>4. OneLoop
  BY <1>2, <1>3 DEF OneLoop, OneWait, NotFacing, Slept, OnTime, Waiting
<1> QED BY <1>1, <1>4 DEF HoldInv

\* And while the device has one loop, none of its steps leaves a preset early.
LEMMA StepHoldInv ==
    ASSUME Loop!TimerAssumption, HoldInv, [Loop!Next]_Loop!vars
    PROVE  HoldInv' /\ (Loop!LeftTooSoon => behind \/ Loop!starts > 1)
<1>1. LoopInv' /\ LoopInv
  BY StepLoopInv DEF HoldInv
<1>2. ASSUME MaxDelay < Hold, Single', UNCHANGED Loop!vars
      PROVE  OneLoop'
  <2>1. UNCHANGED <<SpdDomeCam, underWay, missionStatus, runs, due, pend, ready, thread, left, held, behind>>
    BY <1>2 DEF Loop!vars, Loop!device, Loop!clock
  <2>2. OneLoop
    BY <1>2, <2>1 DEF HoldInv, Single, Loop!Threads
  <2> QED BY <2>1, <2>2 DEF OneLoop, OneWait, NotFacing, Slept, OnTime, Loop!Threads, Loop!Over
<1>3. ASSUME NEW k \in Loop!Threads, Loop!Thread(k)
      PROVE  /\ thread[k] # "none"
             /\ \A j \in Loop!Threads : thread'[j] = "none" => thread[j] = "none"
  <2>1. thread \in [Loop!Threads -> Points]
    BY <1>1 DEF LoopInv, Started
  <2>2. /\ thread[k] # "none"
        /\ \/ UNCHANGED thread
           \/ \E q \in Points \ {"none"} : thread' = [thread EXCEPT ![k] = q]
    <3>1. CASE Loop!NewTimer(k) \/ Loop!Arm(k) \/ Loop!TurnOk(k) \/ Loop!TurnFail(k) \/ Loop!Send(k)
      BY <3>1 DEF Loop!NewTimer, Loop!Arm, Loop!TurnOk, Loop!TurnFail, Loop!Send, Points
    <3>2. CASE Loop!HoldEnd(k) \/ Loop!Release(k) \/ Loop!ThreadEnd(k)
      BY <3>2 DEF Loop!HoldEnd, Loop!Release, Loop!ThreadEnd, Points
    <3>3. CASE Loop!LoopExit(k) \/ Loop!IdleTurn(k) \/ Loop!Fire(k)
      BY <3>3 DEF Loop!LoopExit, Loop!IdleTurn, Loop!Fire, Loop!Dispatch, Points
    <3> QED BY <1>3, <3>1, <3>2, <3>3 DEF Loop!Thread
  <2> QED BY <2>1, <2>2
<1>4. ASSUME NEW k \in Loop!Threads, Loop!Thread(k), MaxDelay < Hold, Single
      PROVE  OneLoop' /\ (held # -1 /\ ~behind /\ (Loop!Fire(k) \/ Loop!HoldEnd(k)) => held >= Hold - MaxDelay)
  <2>1. k = 1
    BY <1>1, <1>3, <1>4, FirstOnly
  <2>2. OneLoop
    BY <1>4 DEF HoldInv
  <2>3. Loop!Fire(1) => OneLoop' /\ (held # -1 /\ ~behind => held >= Hold - MaxDelay)
    BY <1>1, <1>4, <2>2, FireOneLoop
  <2>4. Loop!HoldEnd(1) => OneLoop' /\ (held # -1 => held >= Hold - MaxDelay)
    <3>1. held >= Hold => held >= Hold - MaxDelay
      BY <1>1, FirstThread
    <3> QED BY <1>1, <1>4, <2>2, <3>1, HoldEndOneLoop
  <2>5. ~Loop!Fire(1) /\ ~Loop!HoldEnd(1) => OneLoop'
    BY <1>1, <1>4, <2>1, <2>2, NewTimerOneLoop, ArmOneLoop, LoopExitOneLoop, IdleTurnOneLoop, TurnOneLoop,
       SendOneLoop, ReleaseOneLoop, ThreadEndOneLoop DEF Loop!Thread
  <2> QED BY <2>1, <2>3, <2>4, <2>5
<1>5. ASSUME MaxDelay < Hold, Single' PROVE OneLoop'
  <2>1. ASSUME NEW k \in Loop!Threads, Loop!Thread(k) PROVE OneLoop'
    <3>1. Single
      BY <1>3, <1>5, <2>1 DEF Single, Loop!Threads
    <3> QED BY <1>4, <1>5, <2>1, <3>1
  <2>2. CASE Loop!Expire \/ Loop!Tick
    <3>1. Single /\ OneLoop
      BY <1>5, <2>2 DEF Loop!Expire, Loop!Tick, Single, Loop!Threads, HoldInv
    <3> QED BY <1>1, <2>2, <3>1, ExpireOneLoop, TickOneLoop
  <2>3. CASE \/ Loop!Login \/ Loop!FirstMission \/ Loop!NextMission \/ Loop!MissionReady
             \/ Loop!PictureReceived \/ Loop!stop
    BY <1>1, <1>5, <2>3, SessionOneLoop DEF HoldInv
  <2> QED BY <1>2, <1>5, <2>1, <2>2, <2>3 DEF Loop!Next
<1>6. ASSUME Loop!LeftTooSoon, ~behind, ~(Loop!starts > 1) PROVE FALSE
  <2>1. MaxDelay < Hold /\ held # -1 /\ ~(held >= Hold - MaxDelay)
    <3>1. held # -1 /\ held < Hold - MaxDelay
      BY <1>6 DEF Loop!LeftTooSoon, Loop!NotHeld
    <3> QED BY <1>1, <3>1, FirstThread
  <2>2. PICK k \in Loop!Threads : (thread[k] = "loop" /\ thread'[k] = "turn")
                                 \/ (thread[k] = "hold" /\ thread'[k] = "release")
    BY <1>6 DEF Loop!LeftTooSoon
  <2>3. Single
    <3>1. PICK n \in 0 .. MaxStarts : \A j \in Loop!Threads : thread[j] # "none" <=> j <= n
      BY <1>1 DEF LoopInv, Started
    <3>2. MaxStarts \in Nat /\ Loop!Threads = 1 .. MaxStarts
      BY LoopConstants
    <3>3. Loop!starts = n
      BY <3>1, StartsCounted
    <3>4. n <= 1
      BY <1>6, <3>1, <3>2, <3>3
    <3> QED BY <3>1, <3>2, <3>4 DEF Single
  <2>4. Loop!Fire(k) \/ Loop!HoldEnd(k)
    <3>1. ASSUME NEW j \in Loop!Threads, Loop!Thread(j) PROVE Loop!Fire(k) \/ Loop!HoldEnd(k)
      <4>1. CASE Loop!NewTimer(j) \/ Loop!Arm(j) \/ Loop!TurnOk(j) \/ Loop!TurnFail(j) \/ Loop!Send(j)
        <5>1. /\ thread[j] \in {"new", "arm", "turn", "send"}
              /\ \E q \in Points : thread' = [thread EXCEPT ![j] = q]
          BY <4>1 DEF Loop!NewTimer, Loop!Arm, Loop!TurnOk, Loop!TurnFail, Loop!Send, Points
        <5> QED BY <1>1, <2>2, <5>1 DEF LoopInv, Started
      <4>2. CASE Loop!Release(j) \/ Loop!ThreadEnd(j) \/ Loop!LoopExit(j) \/ Loop!IdleTurn(j)
        <5>1. \/ UNCHANGED thread
              \/ \E q \in {"loop", "exit"} : thread' = [thread EXCEPT ![j] = q]
          BY <4>2 DEF Loop!Release, Loop!ThreadEnd, Loop!LoopExit, Loop!IdleTurn
        <5> QED BY <1>1, <2>2, <5>1 DEF LoopInv, Started
      <4>3. CASE Loop!Fire(j) \/ Loop!HoldEnd(j)
        <5>1. \E q \in Points : thread' = [thread EXCEPT ![j] = q]
          BY <4>3 DEF Loop!Fire, Loop!HoldEnd, Points
        <5>2. k = j
          BY <1>1, <2>2, <5>1 DEF LoopInv, Started
        <5> QED BY <4>3, <5>2
      <4> QED BY <3>1, <4>1, <4>2, <4>3 DEF Loop!Thread
    <3>2. ASSUME UNCHANGED thread PROVE FALSE
      BY <2>2, <3>2
    <3>3. ASSUME Loop!Login \/ Loop!FirstMission \/ Loop!NextMission PROVE FALSE
      BY <1>1, <3>2, <3>3, HandlerBegins
    <3>4. ASSUME Loop!MissionReady PROVE FALSE
      <4>1. ASSUME Loop!start, underWay = "start", SpdDomeCam' = SpdDomeCam PROVE FALSE
        BY <1>1, <2>2, <4>1, StartsNext DEF LoopInv, Promised
      <4> QED BY <3>2, <3>4, <4>1 DEF Loop!MissionReady
    <3>5. ASSUME Loop!PictureReceived \/ Loop!stop \/ Loop!Expire \/ Loop!Tick PROVE FALSE
      BY <3>2, <3>5 DEF Loop!PictureReceived, Loop!stop, Loop!Expire, Loop!Tick
    <3>6. ASSUME UNCHANGED Loop!vars PROVE FALSE
      BY <3>2, <3>6 DEF Loop!vars
    <3> QED BY <3>1, <3>3, <3>4, <3>5, <3>6 DEF Loop!Next
  <2>5. Loop!Thread(k)
    BY <2>4 DEF Loop!Thread
  <2> QED BY <1>4, <1>6, <2>1, <2>3, <2>4, <2>5
<1> QED BY <1>1, <1>5, <1>6 DEF HoldInv

\* A camera that faces a preset is left there for the time configured less what
\* turning took, for any time and any delay, as long as the device has one loop,
\* no turn failed and no mission began late.
THEOREM OneLoopHoldsItsPresets ==
    ASSUME Loop!TimerAssumption
    PROVE  Loop!Spec => Loop!HeldWithOneLoop
<1>1. Loop!Init => HoldInv
  BY InitHoldInv
<1>2. HoldInv /\ [Loop!Next]_Loop!vars => HoldInv'
  BY StepHoldInv
<1>3. HoldInv /\ [Loop!Next]_Loop!vars => [Loop!LeftTooSoon => behind \/ Loop!starts > 1]_Loop!vars
  BY StepHoldInv
<1> QED BY <1>1, <1>2, <1>3, PTL DEF Loop!Spec, Loop!HeldWithOneLoop
=============================================================================
