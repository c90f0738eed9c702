------------------------------- MODULE SDCPool -------------------------------
(***************************************************************************)
(* The speed-dome cameras of one mission (CMission): the array SpdDomeCam  *)
(* with its length, the round-robin cursor curSpdDomeCam, the FREE / BUSY  *)
(* mark of every camera object, and the mutex mu_SDC.                      *)
(*                                                                         *)
(* getFreeSDC is modelled step by step (lock, examine one slot per step,   *)
(* claim or refuse), because the mark isUsing is written back to FREE by   *)
(* the mission loops WITHOUT the mutex, while a scan is under way.         *)
(* addSDC, removeSDC and updateSDC hold mu_SDC from their first to their   *)
(* last line and touch nothing else, so each is one step.                  *)
(*                                                                         *)
(* The clients of the pool follow its contract here: a session asks for a  *)
(* camera only when it holds none and gives back only the camera it was    *)
(* granted.  Module DeviceMission models the clients as they are written   *)
(* and shows the four places where they leave that contract.               *)
(***************************************************************************)
EXTENDS Integers

CONSTANTS Cameras,   \* CHIKCam objects, one per "new CHIKCam" alive at a time
          CamNums,   \* camera numbers (names given by the configuration)
          CamNum,    \* the camera number configured into each object
          Sessions,  \* capture-device sessions that lease cameras
          MaxSDC,    \* bound: last usable slot + 1 (the code declares 2400)
          NULL       \* an empty shared_ptr, an unlocked mutex

ASSUME PoolAssumption ==
    /\ MaxSDC \in Nat
    /\ CamNum \in [Cameras -> CamNums]
    /\ NULL \notin Cameras \cup Sessions

VARIABLES SpdDomeCam,       \* the array of camera pointers, slots 0 .. MaxSDC
          totalSpdDomeCam,  \* number of slots in use
          curSpdDomeCam,    \* slot granted last
          isUsing,          \* FREE or BUSY, per camera object
          mu_SDC,           \* the session whose thread holds the mutex
          pc, i, j,         \* control point and locals of getFreeSDC
          ptr,              \* the camera pointer the session keeps
          holds,            \* ghost: granted and not yet given back
          freeAtLock        \* ghost: cameras FREE when the scan began

list    == <<SpdDomeCam, totalSpdDomeCam>>
locals  == <<pc, i, j>>
vars    == <<list, curSpdDomeCam, isUsing, mu_SDC, locals, ptr, holds, freeAtLock>>

Slots  == 0 .. MaxSDC
Used   == 0 .. totalSpdDomeCam - 1
Listed == {SpdDomeCam[k] : k \in Used}

TypeOK ==
    /\ SpdDomeCam \in [Slots -> Cameras \cup {NULL}]
    /\ totalSpdDomeCam \in Slots
    /\ curSpdDomeCam \in Slots
    /\ isUsing \in [Cameras -> {"FREE", "BUSY"}]
    /\ mu_SDC \in Sessions \cup {NULL}
    /\ pc \in [Sessions -> {"idle", "scan", "claim"}]
    /\ i \in [Sessions -> Slots]
    /\ j \in [Sessions -> Slots]
    /\ ptr \in [Sessions -> Cameras \cup {NULL}]
    /\ holds \in [Sessions -> BOOLEAN]
    /\ freeAtLock \in SUBSET Cameras

Init ==
    /\ SpdDomeCam = [k \in Slots |-> NULL]
    /\ totalSpdDomeCam = 0
    /\ curSpdDomeCam = 0
    /\ isUsing = [c \in Cameras |-> "FREE"]
    /\ mu_SDC = NULL
    /\ pc = [s \in Sessions |-> "idle"]
    /\ i = [s \in Sessions |-> 0]
    /\ j = [s \in Sessions |-> 0]
    /\ ptr = [s \in Sessions |-> NULL]
    /\ holds = [s \in Sessions |-> FALSE]
    /\ freeAtLock = {}

-----------------------------------------------------------------------------
(* Configuration of the list.                                              *)

\* The new object is appended and starts FREE; nothing looks for a camera of
\* the same number.  The code has no capacity test: MaxSDC bounds the model.
\* c stands for a fresh object, so nothing may still point to it.
addSDC(c) ==
    /\ mu_SDC = NULL
    /\ totalSpdDomeCam < MaxSDC
    /\ c \notin Listed
    /\ \A s \in Sessions : ptr[s] # c
    /\ SpdDomeCam' = [SpdDomeCam EXCEPT ![totalSpdDomeCam] = c]
    /\ totalSpdDomeCam' = totalSpdDomeCam + 1
    /\ isUsing' = [isUsing EXCEPT ![c] = "FREE"]
    /\ UNCHANGED <<curSpdDomeCam, mu_SDC, locals, ptr, holds, freeAtLock>>

\* k is the first slot that holds a camera numbered n.
FirstMatch(n, k) ==
    /\ k \in Used
    /\ CamNum[SpdDomeCam[k]] = n
    /\ \A l \in 0 .. k - 1 : CamNum[SpdDomeCam[l]] # n

\* Slots k .. total-1 each take their right neighbour; slot total is read too.
ShiftLeft(k) ==
    [l \in Slots |-> IF l \in k .. totalSpdDomeCam - 1
                        THEN SpdDomeCam[l + 1] ELSE SpdDomeCam[l]]

\* The cursor is left alone, so it can end up at or past the new total.
removeSDC(n) ==
    /\ mu_SDC = NULL
    /\ \E k \in Used : /\ FirstMatch(n, k)
                       /\ SpdDomeCam' = ShiftLeft(k)
    /\ totalSpdDomeCam' = totalSpdDomeCam - 1
    /\ UNCHANGED <<curSpdDomeCam, isUsing, mu_SDC, locals, ptr, holds, freeAtLock>>

\* A new configuration for camera n: one that says missionNum = -1 also takes
\* the camera off this list; any other leaves the state modelled here as it is.
updateSDC(n, missionNum) ==
    /\ missionNum = -1
    /\ removeSDC(n)

-----------------------------------------------------------------------------
(* getFreeSDC, run by the session's thread.                                *)

\* Everything Lock does but testing the mutex, starting behind slot k.
StartScan(s, k) ==
    /\ pc[s] = "idle"
    /\ ~holds[s]
    /\ mu_SDC' = s
    /\ pc' = [pc EXCEPT ![s] = "scan"]
    /\ i' = [i EXCEPT ![s] = 0]
    /\ j' = [j EXCEPT ![s] = k]
    /\ freeAtLock' = {c \in Listed : isUsing[c] = "FREE"}
    /\ UNCHANGED <<list, curSpdDomeCam, isUsing, ptr, holds>>

\* Mutant: no scoped_lock.
MutLockNoMutex(s) == StartScan(s, curSpdDomeCam)

Lock(s) == mu_SDC = NULL /\ StartScan(s, curSpdDomeCam)

\* Mutant: the wrap-around test is off by one.
MutNextSlot(k) == IF k + 1 > totalSpdDomeCam THEN 0 ELSE k + 1

\* j++; if (j > total - 1) j = 0;
NextSlot(k) == IF k + 1 > totalSpdDomeCam - 1 THEN 0 ELSE k + 1

\* Mutant: i is not incremented.
MutExamineBusy(s) ==
    /\ pc[s] = "scan"
    /\ i[s] < totalSpdDomeCam
    /\ isUsing[SpdDomeCam[NextSlot(j[s])]] = "BUSY"
    /\ j' = [j EXCEPT ![s] = NextSlot(j[s])]
    /\ UNCHANGED <<list, curSpdDomeCam, isUsing, mu_SDC, pc, i, ptr, holds, freeAtLock>>

ExamineBusy(s) ==
    /\ pc[s] = "scan"
    /\ i[s] < totalSpdDomeCam
    /\ isUsing[SpdDomeCam[NextSlot(j[s])]] = "BUSY"
    /\ i' = [i EXCEPT ![s] = i[s] + 1]
    /\ j' = [j EXCEPT ![s] = NextSlot(j[s])]
    /\ UNCHANGED <<list, curSpdDomeCam, isUsing, mu_SDC, pc, ptr, holds, freeAtLock>>

ExamineFree(s) ==
    /\ pc[s] = "scan"
    /\ i[s] < totalSpdDomeCam
    /\ isUsing[SpdDomeCam[NextSlot(j[s])]] = "FREE"
    /\ j' = [j EXCEPT ![s] = NextSlot(j[s])]
    /\ pc' = [pc EXCEPT ![s] = "claim"]
    /\ UNCHANGED <<list, curSpdDomeCam, isUsing, mu_SDC, i, ptr, holds, freeAtLock>>

\* Return and destruction of the scoped_lock.
Unlock(s) ==
    /\ mu_SDC' = NULL
    /\ pc' = [pc EXCEPT ![s] = "idle"]
    /\ i' = [i EXCEPT ![s] = 0]
    /\ j' = [j EXCEPT ![s] = 0]
    /\ freeAtLock' = {}

\* The session is handed camera c, slot j[s] is marked, the cursor goes to k.
ClaimAs(s, c, k) ==
    /\ pc[s] = "claim"
    /\ isUsing' = [isUsing EXCEPT ![SpdDomeCam[j[s]]] = "BUSY"]
    /\ curSpdDomeCam' = k
    /\ ptr' = [ptr EXCEPT ![s] = c]
    /\ holds' = [holds EXCEPT ![s] = TRUE]
    /\ Unlock(s)
    /\ UNCHANGED list

\* Mutant: the pointer is read through the cursor before the cursor is moved.
MutClaimOldCursor(s) == ClaimAs(s, SpdDomeCam[curSpdDomeCam], j[s])

\* Mutant: the cursor is not moved.
MutClaimKeepsCursor(s) == ClaimAs(s, SpdDomeCam[j[s]], curSpdDomeCam)

Claim(s) == ClaimAs(s, SpdDomeCam[j[s]], j[s])

\* Mutant: the loop runs total - 1 times.
MutRefuse(s) ==
    /\ pc[s] = "scan"
    /\ i[s] >= totalSpdDomeCam - 1
    /\ Unlock(s)
    /\ UNCHANGED <<list, curSpdDomeCam, isUsing, ptr, holds>>

\* return -1: the caller's pointer keeps whatever it pointed to.
Refuse(s) ==
    /\ pc[s] = "scan"
    /\ i[s] >= totalSpdDomeCam
    /\ Unlock(s)
    /\ UNCHANGED <<list, curSpdDomeCam, isUsing, ptr, holds>>

-----------------------------------------------------------------------------
\* The end of the session's mission.  mu_SDC is not taken: the step can fall
\* between any two steps of another session's scan.  The pointer is kept.
Release(s) ==
    /\ pc[s] = "idle"
    /\ holds[s]
    /\ isUsing' = [isUsing EXCEPT ![ptr[s]] = "FREE"]
    /\ holds' = [holds EXCEPT ![s] = FALSE]
    /\ UNCHANGED <<list, curSpdDomeCam, mu_SDC, locals, ptr, freeAtLock>>

getFreeSDC(s) == ExamineBusy(s) \/ ExamineFree(s) \/ Claim(s) \/ Refuse(s)

Next ==
    \/ \E c \in Cameras : addSDC(c)
    \/ \E n \in CamNums : removeSDC(n) \/ updateSDC(n, -1)
    \/ \E s \in Sessions : Lock(s) \/ getFreeSDC(s) \/ Release(s)

\* A thread inside getFreeSDC blocks on nothing, so it keeps running.
Fairness == \A s \in Sessions : WF_vars(getFreeSDC(s))

Spec == Init /\ [][Next]_vars /\ Fairness

-----------------------------------------------------------------------------
(* Properties.                                                             *)

\* Two sessions never hold the same camera: nobody else steers the PTZ head of
\* a camera (mission.cpp getFreeSDC, FREE -> BUSY under mu_SDC) in use.
ExclusiveGrant ==
    \A s, t \in Sessions : holds[s] /\ holds[t] /\ ptr[s] = ptr[t] => s = t

\* A camera is BUSY exactly when a session holds it, through all interleavings
\* of scans with unlocked releases and with cameras leaving the list: no
\* camera is lost to the pool, none is offered while in use.
BusyIffHeld ==
    \A c \in Cameras :
        isUsing[c] = "BUSY" <=> \E s \in Sessions : holds[s] /\ ptr[s] = c

\* The slot a scan looks at next holds a camera, although removals leave the
\* cursor past the end of the list (getFreeSDC dereferences it unchecked).
ExaminedSlotHoldsCamera ==
    \A s \in Sessions :
        /\ pc[s] = "scan" /\ i[s] < totalSpdDomeCam
              => SpdDomeCam[NextSlot(j[s])] # NULL
        /\ pc[s] = "claim" => SpdDomeCam[j[s]] # NULL

\* Exactly the slots below totalSpdDomeCam are occupied, by distinct objects:
\* removal leaves no stale pointer behind that would keep a camera alive or
\* bring it back.
SlotsMatchTotal ==
    /\ \A k \in Slots : SpdDomeCam[k] # NULL <=> k < totalSpdDomeCam
    /\ \A k, l \in Used : SpdDomeCam[k] = SpdDomeCam[l] => k = l

\* getFreeSDC answers -1 only if no listed camera was FREE when it took the
\* mutex: starting behind the cursor, stale or not, it visits every slot.
NoMissedCamera ==
    [][\A s \in Sessions :
          pc[s] = "scan" /\ pc'[s] = "idle" => freeAtLock = {}]_vars

\* Cyclic distance of slot k behind the cursor: 1 is examined first.
Distance(k) ==
    IF curSpdDomeCam >= totalSpdDomeCam THEN k + 1
    ELSE IF k > curSpdDomeCam THEN k - curSpdDomeCam
    ELSE k - curSpdDomeCam + totalSpdDomeCam

\* Round robin: the camera granted is the first in cyclic order after the one
\* granted last; no camera that was FREE when the scan began is passed over.
InTurn ==
    \A s \in Sessions : pc[s] = "claim" =>
        \A k \in Used : SpdDomeCam[k] \in freeAtLock => Distance(j[s]) <= Distance(k)

\* The leases a caller sees: who has which of the listed cameras.
leases == [s \in Sessions |-> IF holds[s] THEN {ptr[s]} ELSE {}]

Lease == INSTANCE CameraLease WITH listed <- Listed, lease <- leases

\* Every step of the pool is a step of the lease specification or invisible to
\* it: the scan with its unlocked releases behaves as one atomic grant.
RefinesLease == Lease!Spec

\* A session inside getFreeSDC gets its answer, whatever the others release
\* meanwhile: the mutex is always given back.
ScanTerminates == \A s \in Sessions : pc[s] # "idle" ~> pc[s] = "idle"
=============================================================================
