---------------------------- MODULE SDCPoolProofs ----------------------------
(***************************************************************************)
(* Proofs about SDCPool, for any number of cameras, sessions and slots.    *)
(* IInv strengthens the properties of SDCPool to an inductive invariant:   *)
(* the mutex protects the scan (Guarded), a session's pointer is a camera  *)
(* while it holds one (Holding), and a camera about to be claimed is FREE. *)
(* ScanInv adds what a scan has seen; FairInv, for SDCPoolFair, that only  *)
(* cameras behind it have overtaken a FREE one (Behind).  ScanGoesOn and   *)
(* ScanShortens say that a scan can always go on, and how long.            *)
(***************************************************************************)
EXTENDS SDCPoolFair, TLAPS

\* A session is inside getFreeSDC only while it has the mutex.
Guarded ==
    /\ \A s \in Sessions : pc[s] # "idle" => mu_SDC = s
    /\ mu_SDC # NULL => pc[mu_SDC] # "idle"

\* The holder's pointer is a camera, and it asks for no other one.
Holding ==
    \A s \in Sessions : holds[s] => ptr[s] \in Cameras /\ pc[s] = "idle"

\* The slot found FREE stays in range and FREE until it is claimed.
ClaimsFree ==
    \A s \in Sessions :
        pc[s] = "claim" => j[s] \in Used /\ isUsing[SpdDomeCam[j[s]]] = "FREE"

IInv == /\ TypeOK
        /\ Guarded
        /\ Holding
        /\ SlotsMatchTotal
        /\ ClaimsFree
        /\ BusyIffHeld
        /\ ExclusiveGrant

USE PoolAssumption

-----------------------------------------------------------------------------

LEMMA InitIInv == Init => IInv
BY DEF Init, IInv, TypeOK, Guarded, Holding, SlotsMatchTotal, ClaimsFree,
       BusyIffHeld, ExclusiveGrant, Slots, Used

\* A slot in use holds a camera.
LEMMA UsedSlot ==
    ASSUME TypeOK, SlotsMatchTotal, NEW k \in Used
    PROVE  k \in Slots /\ SpdDomeCam[k] \in Cameras
BY DEF TypeOK, SlotsMatchTotal, Used, Slots

\* The next slot to examine is one in use, wherever the last one was.
LEMMA NextSlotUsed ==
    ASSUME TypeOK, NEW k \in Slots, totalSpdDomeCam > 0
    PROVE  NextSlot(k) \in Used
BY DEF TypeOK, NextSlot, Used, Slots

LEMMA AddIInv ==
    ASSUME IInv, NEW c \in Cameras, addSDC(c)
    PROVE  IInv'
<1> USE DEF IInv, addSDC, list, locals
<1>1. TypeOK'
  BY DEF TypeOK, Slots
<1>2. Guarded'
  BY DEF Guarded
<1>3. Holding'
  BY DEF Holding
<1>4. SlotsMatchTotal'
  <2>1. Used' = Used \cup {totalSpdDomeCam}
    BY DEF TypeOK, Slots, Used
  <2>2. /\ SpdDomeCam'[totalSpdDomeCam] = c
        /\ \A k \in Slots \ {totalSpdDomeCam} : SpdDomeCam'[k] = SpdDomeCam[k]
    BY DEF TypeOK, Slots
  <2>3. \A k \in Used : k \in Slots /\ k # totalSpdDomeCam /\ SpdDomeCam[k] # c
    BY DEF TypeOK, Slots, Used, Listed
  <2>4. \A k \in Slots : SpdDomeCam'[k] # NULL <=> k < totalSpdDomeCam'
    BY <2>2 DEF SlotsMatchTotal, TypeOK, Slots
  <2>5. \A k, l \in Used' : SpdDomeCam'[k] = SpdDomeCam'[l] => k = l
    BY <2>1, <2>2, <2>3 DEF SlotsMatchTotal
  <2> QED BY <2>4, <2>5 DEF SlotsMatchTotal
<1>5. ClaimsFree'
  BY DEF ClaimsFree, Guarded, TypeOK
<1>6. BusyIffHeld'
  BY DEF BusyIffHeld, TypeOK
<1>7. ExclusiveGrant'
  BY DEF ExclusiveGrant
<1> QED BY <1>1, <1>2, <1>3, <1>4, <1>5, <1>6, <1>7

LEMMA RemoveIInv ==
    ASSUME IInv, NEW n \in CamNums, removeSDC(n)
    PROVE  IInv'
<1> USE DEF IInv, removeSDC, locals
<1>0. PICK k \in Used : SpdDomeCam' = ShiftLeft(k)
  OBVIOUS
<1>1. TypeOK'
  BY <1>0 DEF TypeOK, Slots, Used, ShiftLeft
<1>2. Guarded'
  BY DEF Guarded
<1>3. Holding'
  BY DEF Holding
<1>4. SlotsMatchTotal'
  BY <1>0 DEF SlotsMatchTotal, TypeOK, Used, Slots, ShiftLeft
<1>5. ClaimsFree'
  BY DEF ClaimsFree, Guarded, TypeOK
<1>6. BusyIffHeld'
  BY DEF BusyIffHeld
<1>7. ExclusiveGrant'
  BY DEF ExclusiveGrant
<1> QED BY <1>1, <1>2, <1>3, <1>4, <1>5, <1>6, <1>7

LEMMA LockIInv ==
    ASSUME IInv, NEW s \in Sessions, Lock(s)
    PROVE  IInv'
<1> USE DEF IInv, Lock, StartScan, list
<1>0. Listed \subseteq Cameras
  BY UsedSlot DEF Listed
<1>1. TypeOK'
  BY <1>0 DEF TypeOK, Slots
<1>2. Guarded'
  BY DEF Guarded, TypeOK
<1>3. Holding'
  BY DEF Holding, TypeOK
<1>4. SlotsMatchTotal'
  BY DEF SlotsMatchTotal, Used
<1>5. ClaimsFree'
  BY DEF ClaimsFree, TypeOK, Used
<1>6. BusyIffHeld'
  BY DEF BusyIffHeld
<1>7. ExclusiveGrant'
  BY DEF ExclusiveGrant
<1> QED BY <1>1, <1>2, <1>3, <1>4, <1>5, <1>6, <1>7

LEMMA ExamineIInv ==
    ASSUME IInv, NEW s \in Sessions, ExamineBusy(s) \/ ExamineFree(s)
    PROVE  IInv'
<1> USE DEF IInv, ExamineBusy, ExamineFree, list
<1>0. NextSlot(j[s]) \in Used
  BY NextSlotUsed DEF TypeOK, Slots
<1>1. TypeOK'
  <2>1. NextSlot(j[s]) \in Slots /\ i[s] + 1 \in Slots
    BY <1>0 DEF TypeOK, Slots, Used
  <2>2. CASE ExamineBusy(s)
    BY <2>1, <2>2 DEF TypeOK
  <2>3. CASE ExamineFree(s)
    BY <2>1, <2>3 DEF TypeOK
  <2> QED BY <2>2, <2>3
<1>2. Guarded'
  BY DEF Guarded, TypeOK
<1>3. Holding'
  BY DEF Holding, TypeOK
<1>4. SlotsMatchTotal'
  BY DEF SlotsMatchTotal, Used
<1>5. ClaimsFree'
  BY <1>0 DEF ClaimsFree, TypeOK, Used
<1>6. BusyIffHeld'
  BY DEF BusyIffHeld
<1>7. ExclusiveGrant'
  BY DEF ExclusiveGrant
<1> QED BY <1>1, <1>2, <1>3, <1>4, <1>5, <1>6, <1>7

LEMMA ClaimIInv ==
    ASSUME IInv, NEW s \in Sessions, Claim(s)
    PROVE  IInv'
<1> USE DEF IInv, Claim, ClaimAs, Unlock, list
<1> DEFINE c == SpdDomeCam[j[s]]
<1>0. c \in Cameras /\ isUsing[c] = "FREE" /\ j[s] \in Slots
  BY UsedSlot DEF ClaimsFree, TypeOK
<1>a. \A t \in Sessions : holds[t] => ptr[t] # c
  BY <1>0 DEF BusyIffHeld
<1>1. TypeOK'
  BY <1>0 DEF TypeOK, Slots
<1>2. Guarded'
  BY DEF Guarded, TypeOK
<1>3. Holding'
  BY <1>0 DEF Holding, TypeOK
<1>4. SlotsMatchTotal'
  BY DEF SlotsMatchTotal, Used
<1>5. ClaimsFree'
  BY DEF ClaimsFree, Guarded, TypeOK
<1>6. BusyIffHeld'
  BY <1>0, <1>a DEF BusyIffHeld, TypeOK, Guarded, Holding
<1>7. ExclusiveGrant'
  BY <1>0, <1>a DEF ExclusiveGrant, TypeOK
<1> QED BY <1>1, <1>2, <1>3, <1>4, <1>5, <1>6, <1>7

LEMMA RefuseIInv ==
    ASSUME IInv, NEW s \in Sessions, Refuse(s)
    PROVE  IInv'
<1> USE DEF IInv, Refuse, Unlock, list
<1>1. TypeOK'
  BY DEF TypeOK, Slots
<1>2. Guarded'
  BY DEF Guarded, TypeOK
<1>3. Holding'
  BY DEF Holding, TypeOK
<1>4. SlotsMatchTotal'
  BY DEF SlotsMatchTotal, Used
<1>5. ClaimsFree'
  BY DEF ClaimsFree, Guarded, TypeOK
<1>6. BusyIffHeld'
  BY DEF BusyIffHeld
<1>7. ExclusiveGrant'
  BY DEF ExclusiveGrant
<1> QED BY <1>1, <1>2, <1>3, <1>4, <1>5, <1>6, <1>7

\* The unlocked step: the camera given back is not the one being claimed.
LEMMA ReleaseIInv ==
    ASSUME IInv, NEW s \in Sessions, Release(s)
    PROVE  IInv'
<1> USE DEF IInv, Release, list, locals
<1>0. ptr[s] \in Cameras
  BY DEF Holding
<1>1. TypeOK'
  BY <1>0 DEF TypeOK
<1>2. Guarded'
  BY DEF Guarded
<1>3. Holding'
  BY DEF Holding, TypeOK
<1>4. SlotsMatchTotal'
  BY DEF SlotsMatchTotal, Used
<1>5. ClaimsFree'
  BY DEF ClaimsFree, TypeOK, Used
<1>6. BusyIffHeld'
  BY <1>0 DEF BusyIffHeld, TypeOK, ExclusiveGrant
<1>7. ExclusiveGrant'
  BY DEF ExclusiveGrant, TypeOK
<1> QED BY <1>1, <1>2, <1>3, <1>4, <1>5, <1>6, <1>7

LEMMA StutterIInv == IInv /\ UNCHANGED vars => IInv'
BY DEF IInv, vars, list, locals, TypeOK, Guarded, Holding, SlotsMatchTotal,
       ClaimsFree, BusyIffHeld, ExclusiveGrant, Used

LEMMA StepIInv == IInv /\ [Next]_vars => IInv'
<1> SUFFICES ASSUME IInv, [Next]_vars PROVE IInv'
  OBVIOUS
<1>1. ASSUME NEW c \in Cameras, addSDC(c) PROVE IInv'
  BY <1>1, AddIInv
<1>2. ASSUME NEW n \in CamNums, removeSDC(n) PROVE IInv'
  BY <1>2, RemoveIInv
<1>3. ASSUME NEW s \in Sessions, Lock(s) PROVE IInv'
  BY <1>3, LockIInv
<1>4. ASSUME NEW s \in Sessions, ExamineBusy(s) \/ ExamineFree(s) PROVE IInv'
  BY <1>4, ExamineIInv
<1>5. ASSUME NEW s \in Sessions, Claim(s) PROVE IInv'
  BY <1>5, ClaimIInv
<1>6. ASSUME NEW s \in Sessions, Refuse(s) PROVE IInv'
  BY <1>6, RefuseIInv
<1>7. ASSUME NEW s \in Sessions, Release(s) PROVE IInv'
  BY <1>7, ReleaseIInv
<1>8. ASSUME UNCHANGED vars PROVE IInv'
  BY <1>8, StutterIInv
<1> QED BY <1>1, <1>2, <1>3, <1>4, <1>5, <1>6, <1>7, <1>8
        DEF Next, getFreeSDC, updateSDC

LEMMA SpecIInv == Spec => []IInv
<1> QED BY InitIInv, StepIInv, PTL DEF Spec

\* Type correctness.
THEOREM TypeCorrect == Spec => []TypeOK
<1>1. IInv => TypeOK
  BY DEF IInv
<1> QED BY SpecIInv, <1>1, PTL

\* Two sessions never hold the same camera.
THEOREM GrantsAreExclusive == Spec => []ExclusiveGrant
<1>1. IInv => ExclusiveGrant
  BY DEF IInv
<1> QED BY SpecIInv, <1>1, PTL

\* No camera is lost to the pool and none is offered while held.
THEOREM NoCameraLost == Spec => []BusyIffHeld
<1>1. IInv => BusyIffHeld
  BY DEF IInv
<1> QED BY SpecIInv, <1>1, PTL

\* The array holds distinct cameras below the total and nothing above it.
THEOREM ArrayMatchesTotal == Spec => []SlotsMatchTotal
<1>1. IInv => SlotsMatchTotal
  BY DEF IInv
<1> QED BY SpecIInv, <1>1, PTL

\* getFreeSDC never looks at an empty slot.
THEOREM ScanStaysInList == Spec => []ExaminedSlotHoldsCamera
<1>1. IInv => ExaminedSlotHoldsCamera
  <2> SUFFICES ASSUME IInv, NEW s \in Sessions
               PROVE  /\ pc[s] = "scan" /\ i[s] < totalSpdDomeCam
                            => SpdDomeCam[NextSlot(j[s])] # NULL
                      /\ pc[s] = "claim" => SpdDomeCam[j[s]] # NULL
    BY DEF ExaminedSlotHoldsCamera
  <2> USE DEF IInv
  <2>1. ASSUME i[s] < totalSpdDomeCam PROVE NextSlot(j[s]) \in Used
    BY <2>1, NextSlotUsed DEF TypeOK, Slots
  <2>2. \A k \in Used : SpdDomeCam[k] # NULL
    BY UsedSlot
  <2> QED BY <2>1, <2>2 DEF ClaimsFree
<1> QED BY SpecIInv, <1>1, PTL

-----------------------------------------------------------------------------
(* What a scan has seen.  Slots are examined in the order of their distance *)
(* behind the cursor; the i[s] nearest ones held no camera that was FREE    *)
(* when the mutex was taken, because only the scanning session makes a      *)
(* camera BUSY.                                                             *)

AtStep(s) ==
    /\ pc[s] = "scan" => IF i[s] = 0 THEN j[s] = curSpdDomeCam
                         ELSE j[s] \in Used /\ Distance(j[s]) = i[s]
    /\ pc[s] = "claim" => j[s] \in Used /\ Distance(j[s]) = i[s] + 1

Seen(s) ==
    /\ \A c \in freeAtLock : isUsing[c] = "FREE"
    /\ freeAtLock \subseteq Listed
    /\ \A k \in Used : SpdDomeCam[k] \in freeAtLock => Distance(k) > i[s]

ScanInv == \A s \in Sessions : pc[s] # "idle" => AtStep(s) /\ Seen(s)

LEMMA DistanceBound ==
    ASSUME TypeOK, NEW k \in Used
    PROVE  Distance(k) \in 1 .. totalSpdDomeCam
BY DEF TypeOK, Distance, Used, Slots

LEMMA DistanceInjective ==
    ASSUME TypeOK, NEW k \in Used, NEW l \in Used, Distance(k) = Distance(l)
    PROVE  k = l
BY DEF TypeOK, Distance, Used, Slots

LEMMA NextDistance ==
    ASSUME TypeOK, NEW s \in Sessions, pc[s] = "scan", AtStep(s),
           i[s] < totalSpdDomeCam
    PROVE  NextSlot(j[s]) \in Used /\ Distance(NextSlot(j[s])) = i[s] + 1
<1>1. /\ totalSpdDomeCam \in Nat /\ curSpdDomeCam \in Nat
      /\ i[s] \in Nat /\ j[s] \in Nat
  BY DEF TypeOK, Slots
<1> QED BY <1>1 DEF AtStep, NextSlot, Distance, Used

LEMMA ScanLock ==
    ASSUME IInv, ScanInv, NEW s \in Sessions, Lock(s)
    PROVE  ScanInv'
<1> USE DEF IInv, Lock, StartScan, list
<1>1. pc'[s] = "scan" /\ i'[s] = 0 /\ j'[s] = curSpdDomeCam'
  BY DEF TypeOK
<1>2. AtStep(s)'
  BY <1>1 DEF AtStep
<1>3. \A k \in Used' : Distance(k)' > i'[s]
  BY <1>1, DistanceBound DEF Used, Distance
<1>4. Seen(s)'
  BY <1>3 DEF Seen, Listed, Used
<1>5. \A t \in Sessions \ {s} : pc'[t] = "idle"
  BY DEF Guarded, TypeOK
<1> QED BY <1>2, <1>4, <1>5 DEF ScanInv

LEMMA ScanExamine ==
    ASSUME IInv, ScanInv, NEW s \in Sessions, ExamineBusy(s) \/ ExamineFree(s)
    PROVE  ScanInv'
<1> USE DEF IInv, list
<1>1. pc[s] = "scan" /\ i[s] < totalSpdDomeCam /\ AtStep(s) /\ Seen(s)
  BY DEF ExamineBusy, ExamineFree, ScanInv
<1> DEFINE k == NextSlot(j[s])
<1>2. k \in Used /\ Distance(k) = i[s] + 1
  BY <1>1, NextDistance
<1>3. Used' = Used /\ Listed' = Listed /\ \A l : Distance(l)' = Distance(l)
  BY DEF ExamineBusy, ExamineFree, Used, Listed, Distance
<1>4. \A t \in Sessions \ {s} : pc'[t] = "idle"
  BY DEF Guarded, TypeOK, ExamineBusy, ExamineFree
<1>5. CASE ExamineBusy(s)
  <2>1. i'[s] = i[s] + 1 /\ j'[s] = k /\ pc'[s] = "scan" /\ i[s] \in Nat
    BY <1>1, <1>5 DEF ExamineBusy, TypeOK, Slots
  <2>2. AtStep(s)'
    BY <1>2, <1>3, <2>1 DEF AtStep
  <2>3. SpdDomeCam[k] \notin freeAtLock
    BY <1>1, <1>5 DEF Seen, ExamineBusy
  <2>4. ASSUME NEW l \in Used, SpdDomeCam[l] \in freeAtLock
        PROVE  Distance(l) > i[s] + 1
    <3>1. Distance(l) # i[s] + 1
      BY <1>2, <2>3, <2>4, DistanceInjective
    <3>2. Distance(l) > i[s] /\ Distance(l) \in Nat
      BY <1>1, <2>4, DistanceBound DEF Seen
    <3> QED BY <2>1, <3>1, <3>2
  <2>5. Seen(s)'
    BY <1>1, <1>3, <1>5, <2>1, <2>4 DEF Seen, ExamineBusy
  <2> QED BY <1>4, <2>2, <2>5 DEF ScanInv
<1>6. CASE ExamineFree(s)
  <2>1. i'[s] = i[s] /\ j'[s] = k /\ pc'[s] = "claim"
    BY <1>1, <1>6 DEF ExamineFree, TypeOK
  <2>2. AtStep(s)'
    BY <1>2, <1>3, <2>1 DEF AtStep
  <2>3. Seen(s)'
    BY <1>1, <1>3, <1>6, <2>1 DEF Seen, ExamineFree
  <2> QED BY <1>4, <2>2, <2>3 DEF ScanInv
<1> QED BY <1>5, <1>6

\* A step that ends a scan, or is taken while nobody scans, leaves no session
\* inside getFreeSDC.
LEMMA ScanUnlocked ==
    ASSUME IInv,
           \/ \E c \in Cameras : addSDC(c)
           \/ \E n \in CamNums : removeSDC(n)
           \/ \E s \in Sessions : Claim(s) \/ Refuse(s)
    PROVE  ScanInv'
<1>1. \A t \in Sessions : pc'[t] = "idle"
  BY DEF IInv, Guarded, TypeOK, addSDC, removeSDC, Claim, ClaimAs, Refuse, Unlock, locals
<1> QED BY <1>1 DEF ScanInv

\* A release during a scan only adds FREE cameras.
LEMMA ScanRelease ==
    ASSUME IInv, ScanInv, NEW s \in Sessions, Release(s)
    PROVE  ScanInv'
<1> USE DEF Release, list, locals
<1>1. Used' = Used /\ Listed' = Listed /\ \A l : Distance(l)' = Distance(l)
  BY DEF Used, Listed, Distance
<1>2. \A c \in freeAtLock : isUsing[c] = "FREE" => isUsing'[c] = "FREE"
  BY DEF IInv, TypeOK
<1>3. ASSUME NEW t \in Sessions, pc'[t] # "idle" PROVE AtStep(t)' /\ Seen(t)'
  <2>1. AtStep(t) /\ Seen(t)
    BY <1>3 DEF ScanInv
  <2>2. AtStep(t)'
    BY <1>1, <2>1 DEF AtStep
  <2>3. Seen(t)'
    BY <1>1, <1>2, <2>1 DEF Seen
  <2> QED BY <2>2, <2>3
<1> QED BY <1>3 DEF ScanInv

LEMMA StepScanInv == IInv /\ ScanInv /\ [Next]_vars => ScanInv'
<1> SUFFICES ASSUME IInv, ScanInv, [Next]_vars PROVE ScanInv'
  OBVIOUS
<1>1. ASSUME NEW s \in Sessions, Lock(s) PROVE ScanInv'
  BY <1>1, ScanLock
<1>2. ASSUME NEW s \in Sessions, ExamineBusy(s) \/ ExamineFree(s) PROVE ScanInv'
  BY <1>2, ScanExamine
<1>3. ASSUME NEW s \in Sessions, Release(s) PROVE ScanInv'
  BY <1>3, ScanRelease
<1>4. ASSUME UNCHANGED vars PROVE ScanInv'
  BY <1>4 DEF vars, list, locals, ScanInv, AtStep, Seen, Used, Listed, Distance
<1> QED BY <1>1, <1>2, <1>3, <1>4, ScanUnlocked DEF Next, getFreeSDC, updateSDC

LEMMA SpecScanInv == Spec => []ScanInv
<1>1. Init => ScanInv
  BY DEF Init, ScanInv
<1> QED BY SpecIInv, <1>1, StepScanInv, PTL DEF Spec

\* getFreeSDC refuses only if no listed camera was FREE when it began.
THEOREM RefusalIsJustified == Spec => NoMissedCamera
<1>1. ASSUME IInv, ScanInv, NEW s \in Sessions, Refuse(s), NEW c \in freeAtLock
      PROVE  FALSE
  <2>1. PICK k \in Used : SpdDomeCam[k] = c
    BY <1>1 DEF ScanInv, Seen, Listed, Refuse
  <2>2. Distance(k) > i[s]
    BY <1>1, <2>1 DEF ScanInv, Seen, Refuse
  <2>3. Distance(k) \in 1 .. totalSpdDomeCam
    BY <1>1, DistanceBound DEF IInv
  <2> QED BY <1>1, <2>2, <2>3 DEF IInv, TypeOK, Slots, Refuse
<1>2. ASSUME IInv, ScanInv, [Next]_vars, NEW s \in Sessions,
             pc[s] = "scan", pc'[s] = "idle"
      PROVE  freeAtLock = {}
  <2>1. Refuse(s)
    <3>1. \A t \in Sessions : t # s => pc[t] = "idle"
      BY <1>2 DEF IInv, Guarded
    <3>2. mu_SDC = s /\ s # NULL
      BY <1>2 DEF IInv, Guarded
    <3>3. ASSUME NEW t \in Sessions, ExamineBusy(t) \/ ExamineFree(t) \/ Claim(t)
          PROVE  FALSE
      <4>1. t = s
        BY <3>1, <3>3 DEF ExamineBusy, ExamineFree, Claim, ClaimAs
      <4> QED BY <1>2, <3>3, <4>1
              DEF ExamineBusy, ExamineFree, Claim, ClaimAs, IInv, TypeOK
    <3>4. ASSUME NEW t \in Sessions, Refuse(t) PROVE t = s
      BY <3>1, <3>4 DEF Refuse
    <3>5. ASSUME \/ \E c \in Cameras : addSDC(c)
                 \/ \E n \in CamNums : removeSDC(n)
                 \/ \E t \in Sessions : Lock(t) \/ Release(t)
                 \/ UNCHANGED vars
          PROVE  FALSE
      BY <1>2, <3>2, <3>5 DEF addSDC, removeSDC, Lock, Release, vars, locals
    <3> QED BY <1>2, <3>3, <3>4, <3>5 DEF Next, getFreeSDC, updateSDC
  <2> QED BY <1>1, <1>2, <2>1 DEF IInv, TypeOK
<1>3. IInv /\ ScanInv /\ [Next]_vars
        => [\A s \in Sessions : pc[s] = "scan" /\ pc'[s] = "idle" => freeAtLock = {}]_vars
  BY <1>2
<1> QED BY SpecIInv, SpecScanInv, <1>3, PTL DEF Spec, NoMissedCamera

\* Grants follow the round-robin order.
THEOREM GrantsAreInTurn == Spec => []InTurn
<1>1. IInv /\ ScanInv => InTurn
  <2> SUFFICES ASSUME IInv, ScanInv, NEW s \in Sessions, pc[s] = "claim",
                      NEW k \in Used, SpdDomeCam[k] \in freeAtLock
               PROVE  Distance(j[s]) <= Distance(k)
    BY DEF InTurn
  <2>1. Distance(j[s]) = i[s] + 1 /\ Distance(k) > i[s]
    BY DEF ScanInv, AtStep, Seen
  <2>2. Distance(k) \in Nat /\ i[s] \in Nat
    BY DistanceBound DEF IInv, TypeOK, Slots
  <2> QED BY <2>1, <2>2
<1> QED BY SpecIInv, SpecScanInv, <1>1, PTL

-----------------------------------------------------------------------------
(* What ScanTerminates rests on besides fairness: a scan can go on, and it  *)
(* is over after as many steps as are left.                                 *)

\* Steps of getFreeSDC before s has its answer: a slot each, then claim or refuse.
StepsLeft(s) ==
    IF pc[s] = "scan" THEN totalSpdDomeCam - i[s] + 1
    ELSE IF pc[s] = "claim" THEN 1 ELSE 0

\* Whoever is inside getFreeSDC has the mutex, and the guard of one of its steps holds.
ScanGoesOn ==
    \A s \in Sessions : pc[s] # "idle" =>
        /\ mu_SDC = s
        /\ StepsLeft(s) \in 1 .. totalSpdDomeCam + 1
        /\ \/ pc[s] = "claim"
           \/ i[s] >= totalSpdDomeCam
           \/ /\ NextSlot(j[s]) \in Used
              /\ isUsing[SpdDomeCam[NextSlot(j[s])]] \in {"FREE", "BUSY"}

\* Every step of the scan leaves fewer, and nobody else's step adds one: the
\* list cannot grow under a scan.
ScanShortens ==
    [][\A s \in Sessions : pc[s] # "idle" =>
          IF getFreeSDC(s) THEN StepsLeft(s)' \in 0 .. StepsLeft(s) - 1
                           ELSE StepsLeft(s)' = StepsLeft(s)]_vars

LEMMA ScanCounts ==
    ASSUME IInv, ScanInv, NEW s \in Sessions, pc[s] # "idle"
    PROVE  /\ totalSpdDomeCam \in Nat /\ i[s] \in Nat
           /\ pc[s] \in {"scan", "claim"} /\ mu_SDC = s
           /\ i[s] <= totalSpdDomeCam
           /\ StepsLeft(s) \in 1 .. totalSpdDomeCam + 1
<1>1. /\ totalSpdDomeCam \in Nat /\ i[s] \in Nat
      /\ pc[s] \in {"scan", "claim"} /\ mu_SDC = s
  BY DEF IInv, TypeOK, Slots, Guarded
<1>2. i[s] <= totalSpdDomeCam
  <2>1. CASE pc[s] = "scan" /\ i[s] = 0
    BY <1>1, <2>1
  <2>2. CASE pc[s] = "scan" /\ i[s] # 0
    <3>1. j[s] \in Used /\ Distance(j[s]) = i[s]
      BY <2>2 DEF ScanInv, AtStep
    <3> QED BY <3>1, DistanceBound DEF IInv
  <2>3. CASE pc[s] = "claim"
    <3>1. j[s] \in Used /\ Distance(j[s]) = i[s] + 1
      BY <2>3 DEF ScanInv, AtStep
    <3>2. i[s] + 1 \in 1 .. totalSpdDomeCam
      BY <3>1, DistanceBound DEF IInv
    <3> QED BY <1>1, <3>2
  <2> QED BY <1>1, <2>1, <2>2, <2>3
<1>3. StepsLeft(s) \in 1 .. totalSpdDomeCam + 1
  BY <1>1, <1>2 DEF StepsLeft
<1> QED BY <1>1, <1>2, <1>3

LEMMA OwnStepShortens ==
    ASSUME IInv, ScanInv, NEW s \in Sessions, pc[s] # "idle", getFreeSDC(s)
    PROVE  StepsLeft(s)' \in 0 .. StepsLeft(s) - 1
<1>1. /\ totalSpdDomeCam \in Nat /\ i[s] \in Nat /\ i[s] <= totalSpdDomeCam
      /\ pc \in [Sessions -> {"idle", "scan", "claim"}] /\ i \in [Sessions -> Slots]
  BY ScanCounts DEF IInv, TypeOK
<1>2. CASE ExamineBusy(s)
  <2>1. /\ pc'[s] = "scan" /\ pc[s] = "scan" /\ i'[s] = i[s] + 1
        /\ i[s] < totalSpdDomeCam /\ totalSpdDomeCam' = totalSpdDomeCam
    BY <1>1, <1>2 DEF ExamineBusy, list
  <2> QED BY <1>1, <2>1 DEF StepsLeft
<1>3. CASE ExamineFree(s)
  <2>1. pc'[s] = "claim" /\ pc[s] = "scan" /\ i[s] < totalSpdDomeCam
    BY <1>1, <1>3 DEF ExamineFree
  <2> QED BY <1>1, <2>1 DEF StepsLeft
<1>4. CASE Claim(s) \/ Refuse(s)
  <2>1. pc'[s] = "idle"
    BY <1>1, <1>4 DEF Claim, ClaimAs, Refuse, Unlock
  <2>2. StepsLeft(s)' = 0
    BY <2>1 DEF StepsLeft
  <2>3. StepsLeft(s) \in 1 .. totalSpdDomeCam + 1
    BY ScanCounts
  <2> QED BY <1>1, <2>2, <2>3
<1> QED BY <1>2, <1>3, <1>4 DEF getFreeSDC

LEMMA OthersKeepSteps ==
    ASSUME IInv, ScanInv, [Next]_vars, NEW s \in Sessions, pc[s] # "idle", ~getFreeSDC(s)
    PROVE  StepsLeft(s)' = StepsLeft(s)
<1>1. mu_SDC = s /\ s # NULL /\ \A t \in Sessions : t # s => pc[t] = "idle"
  BY DEF IInv, Guarded
<1>2. \A t \in Sessions : ~getFreeSDC(t)
  BY <1>1 DEF getFreeSDC, ExamineBusy, ExamineFree, Claim, ClaimAs, Refuse
<1>3. (\E t \in Sessions : Release(t)) \/ UNCHANGED vars
  BY <1>1, <1>2 DEF Next, addSDC, removeSDC, updateSDC, Lock
<1>4. UNCHANGED <<pc, i, totalSpdDomeCam>>
  BY <1>3 DEF Release, vars, list, locals
<1> QED BY <1>4 DEF StepsLeft

\* getFreeSDC always has a next step, and answers after at most one for every
\* camera of the list and one more.
THEOREM ScansAreBounded == Spec => []ScanGoesOn /\ ScanShortens
<1>1. IInv /\ ScanInv => ScanGoesOn
  <2> SUFFICES ASSUME IInv, ScanInv, NEW s \in Sessions, pc[s] # "idle"
               PROVE  /\ mu_SDC = s
                      /\ StepsLeft(s) \in 1 .. totalSpdDomeCam + 1
                      /\ \/ pc[s] = "claim"
                         \/ i[s] >= totalSpdDomeCam
                         \/ /\ NextSlot(j[s]) \in Used
                            /\ isUsing[SpdDomeCam[NextSlot(j[s])]] \in {"FREE", "BUSY"}
    BY DEF ScanGoesOn
  <2>1. CASE pc[s] = "scan" /\ i[s] < totalSpdDomeCam
    <3>1. NextSlot(j[s]) \in Used
      BY <2>1, NextDistance DEF IInv, ScanInv
    <3>2. SpdDomeCam[NextSlot(j[s])] \in Cameras
      BY <3>1, UsedSlot DEF IInv
    <3> QED BY <3>1, <3>2, ScanCounts DEF IInv, TypeOK
  <2>2. CASE ~(pc[s] = "scan" /\ i[s] < totalSpdDomeCam)
    BY <2>2, ScanCounts
  <2> QED BY <2>1, <2>2
<1>2. IInv /\ ScanInv /\ [Next]_vars
        => [\A s \in Sessions : pc[s] # "idle" =>
               IF getFreeSDC(s) THEN StepsLeft(s)' \in 0 .. StepsLeft(s) - 1
                                ELSE StepsLeft(s)' = StepsLeft(s)]_vars
  BY OwnStepShortens, OthersKeepSteps
<1> QED BY SpecIInv, SpecScanInv, <1>1, <1>2, PTL DEF Spec, ScanShortens

-----------------------------------------------------------------------------
(* The pool implements the lease specification.                            *)

LEMMA InitRefines == Init => Lease!Init
BY DEF Init, Lease!Init, Listed, Used, leases

\* Who has a camera in the lease specification holds it in the pool.
LEMMA LeasedMeansHeld ==
    ASSUME NEW c
    PROVE  Lease!Leased(c) <=> \E s \in Sessions : holds[s] /\ ptr[s] = c
BY DEF Lease!Leased, leases

LEMMA SameLeases ==
    ASSUME UNCHANGED <<ptr, holds>>
    PROVE  UNCHANGED leases
BY DEF leases

LEMMA SameListed ==
    ASSUME UNCHANGED list
    PROVE  UNCHANGED Listed
BY DEF list, Listed, Used

LEMMA AddRefines ==
    ASSUME IInv, NEW c \in Cameras, addSDC(c)
    PROVE  Lease!Offer(c)
<1> USE DEF IInv, addSDC
<1>1. Used' = Used \cup {totalSpdDomeCam}
  BY DEF TypeOK, Slots, Used
<1>2. /\ SpdDomeCam'[totalSpdDomeCam] = c
      /\ \A k \in Used : SpdDomeCam'[k] = SpdDomeCam[k]
  BY DEF TypeOK, Slots, Used
<1>3. Listed' = Listed \cup {c}
  BY <1>1, <1>2 DEF Listed
<1>4. ~Lease!Leased(c)
  BY LeasedMeansHeld
<1> QED BY <1>3, <1>4, SameLeases DEF Lease!Offer

LEMMA RemoveRefines ==
    ASSUME IInv, NEW n \in CamNums, removeSDC(n)
    PROVE  \E c \in Cameras : Lease!Withdraw(c)
<1> USE DEF IInv, removeSDC
<1>1. PICK k \in Used : SpdDomeCam' = ShiftLeft(k)
  OBVIOUS
<1>2. /\ totalSpdDomeCam \in Nat /\ totalSpdDomeCam' = totalSpdDomeCam - 1
      /\ Used \subseteq Slots
  BY DEF TypeOK, Slots, Used
<1>3. ASSUME NEW l \in Used'
      PROVE  SpdDomeCam'[l] \in Listed \ {SpdDomeCam[k]}
  <2>1. l \in Slots /\ l \in Used /\ l + 1 \in Used
    BY <1>2 DEF Used
  <2>2. SpdDomeCam'[l] = IF l >= k THEN SpdDomeCam[l + 1] ELSE SpdDomeCam[l]
    BY <1>1, <1>2, <2>1 DEF ShiftLeft, Used
  <2>3. PICK m \in Used : m # k /\ SpdDomeCam'[l] = SpdDomeCam[m]
    BY <1>2, <2>1, <2>2 DEF Used
  <2> QED BY <2>3 DEF SlotsMatchTotal, Listed
<1>4. ASSUME NEW m \in Used, m # k
      PROVE  SpdDomeCam[m] \in Listed'
  <2> DEFINE l == IF m > k THEN m - 1 ELSE m
  <2>1. l \in Used' /\ l \in Slots
    BY <1>2, <1>4 DEF Used
  <2>2. SpdDomeCam'[l] = SpdDomeCam[m]
    BY <1>1, <1>2, <1>4, <2>1 DEF ShiftLeft, Used
  <2> QED BY <2>1, <2>2 DEF Listed
<1>5. Listed' = Listed \ {SpdDomeCam[k]}
  BY <1>3, <1>4 DEF Listed
<1>6. SpdDomeCam[k] \in Cameras /\ SpdDomeCam[k] \in Listed
  BY UsedSlot DEF Listed
<1> QED BY <1>5, <1>6, SameLeases DEF Lease!Withdraw

LEMMA ClaimRefines ==
    ASSUME IInv, NEW s \in Sessions, Claim(s)
    PROVE  \E c \in Cameras : Lease!Grant(s, c)
<1> USE DEF IInv, Claim, ClaimAs
<1> DEFINE c == SpdDomeCam[j[s]]
<1>1. c \in Cameras /\ c \in Listed /\ isUsing[c] = "FREE"
  BY UsedSlot DEF ClaimsFree, Listed
<1>2. ~Lease!Leased(c)
  BY <1>1, LeasedMeansHeld DEF BusyIffHeld
<1>3. ~holds[s]
  BY DEF Holding
<1>4. leases[s] = {} /\ leases' = [leases EXCEPT ![s] = {c}]
  BY <1>3 DEF leases, TypeOK
<1> QED BY <1>1, <1>2, <1>4, SameListed DEF Lease!Grant

LEMMA ReleaseRefines ==
    ASSUME IInv, NEW s \in Sessions, Release(s)
    PROVE  Lease!GiveBack(s)
<1>1. leases[s] # {} /\ leases' = [leases EXCEPT ![s] = {}]
  BY DEF IInv, Release, leases, TypeOK
<1> QED BY <1>1, SameListed DEF Lease!GiveBack, Release

LEMMA StepRefines == IInv /\ [Next]_vars => [Lease!Next]_(Lease!vars)
<1> SUFFICES ASSUME IInv, [Next]_vars PROVE [Lease!Next]_(Lease!vars)
  OBVIOUS
<1> USE DEF Lease!Next
<1>1. ASSUME NEW c \in Cameras, addSDC(c) PROVE Lease!Next
  BY <1>1, AddRefines
<1>2. ASSUME NEW n \in CamNums, removeSDC(n) PROVE Lease!Next
  BY <1>2, RemoveRefines
<1>3. ASSUME NEW s \in Sessions, Claim(s) PROVE Lease!Next
  BY <1>3, ClaimRefines
<1>4. ASSUME NEW s \in Sessions, Release(s) PROVE Lease!Next
  BY <1>4, ReleaseRefines
<1>5. ASSUME UNCHANGED <<list, ptr, holds>> PROVE UNCHANGED Lease!vars
  BY <1>5, SameListed, SameLeases DEF Lease!vars
<1>6. ASSUME NEW s \in Sessions,
             Lock(s) \/ ExamineBusy(s) \/ ExamineFree(s) \/ Refuse(s)
      PROVE  UNCHANGED Lease!vars
  BY <1>6, <1>5 DEF Lock, StartScan, ExamineBusy, ExamineFree, Refuse
<1>7. ASSUME UNCHANGED vars PROVE UNCHANGED Lease!vars
  BY <1>7, <1>5 DEF vars
<1> QED BY <1>1, <1>2, <1>3, <1>4, <1>6, <1>7 DEF Next, getFreeSDC, updateSDC

\* The pool, with its scans and its unlocked releases, keeps the promise of
\* the lease specification.
THEOREM PoolRefinesLease == Spec => RefinesLease
<1> QED BY SpecIInv, InitRefines, StepRefines, PTL DEF Spec, RefinesLease, Lease!Spec

-----------------------------------------------------------------------------
(* Nobody is overtaken twice.  Who has overtaken a camera that is FREE is   *)
(* further behind the cursor than it (Behind), so the camera comes first;   *)
(* a camera given back during a scan, which the scan may pass over, has not *)
(* been overtaken by anybody yet (FreedSince).                              *)

Behind ==
    \A k, l \in Used :
        isUsing[SpdDomeCam[k]] = "FREE" /\ SpdDomeCam[l] \in overtakers[SpdDomeCam[k]] =>
            Distance(k) < Distance(l)

FreedSince ==
    \A s \in Sessions, c \in Listed \ freeAtLock :
        pc[s] # "idle" /\ isUsing[c] = "FREE" => overtakers[c] = {}

FairInv ==
    /\ overtakers \in [Cameras -> SUBSET Cameras]
    /\ \A c \in Cameras : overtakers[c] \subseteq Listed
    /\ Behind
    /\ FreedSince

LEMMA AddFair ==
    ASSUME IInv, FairInv, NEW c \in Cameras, addSDC(c), overtakers' = [overtakers EXCEPT ![c] = {}]
    PROVE  FairInv'
<1>1. /\ TypeOK /\ mu_SDC = NULL /\ c \notin Listed /\ totalSpdDomeCam < MaxSDC
      /\ SpdDomeCam' = [SpdDomeCam EXCEPT ![totalSpdDomeCam] = c]
      /\ totalSpdDomeCam' = totalSpdDomeCam + 1 /\ curSpdDomeCam' = curSpdDomeCam
      /\ isUsing' = [isUsing EXCEPT ![c] = "FREE"] /\ pc' = pc
  BY DEF IInv, addSDC, locals
<1>2. PICK n \in Nat : n = totalSpdDomeCam
  BY <1>1, PoolAssumption DEF TypeOK, Slots
<1>3. PICK q \in Nat : q = curSpdDomeCam
  BY <1>1, PoolAssumption DEF TypeOK, Slots
<1>4. n \in Slots /\ Used = 0 .. n - 1 /\ Used' = 0 .. n
  BY <1>1, <1>2, PoolAssumption DEF Used, Slots
<1>5. SpdDomeCam'[n] = c /\ \A k \in Used : SpdDomeCam'[k] = SpdDomeCam[k]
  BY <1>1, <1>2, <1>4 DEF TypeOK, Slots
<1>6. Listed' = Listed \cup {c}
  BY <1>2, <1>4, <1>5 DEF Listed
<1>7. \A k, l \in Used : Distance(k) < Distance(l) => Distance(k)' < Distance(l)'
  BY <1>1, <1>2, <1>3, <1>4 DEF Distance
<1>8. /\ overtakers' \in [Cameras -> SUBSET Cameras]
      /\ overtakers'[c] = {} /\ \A x \in Cameras : x # c => overtakers'[x] = overtakers[x]
  BY DEF FairInv
<1>9. Behind'
  <2> SUFFICES ASSUME NEW k \in Used', NEW l \in Used', isUsing'[SpdDomeCam'[k]] = "FREE",
                      SpdDomeCam'[l] \in overtakers'[SpdDomeCam'[k]]
               PROVE  Distance(k)' < Distance(l)'
    BY DEF Behind
  <2>1. k # n
    BY <1>5, <1>8
  <2>2. k \in Used /\ SpdDomeCam[k] \in Cameras /\ SpdDomeCam[k] # c
    <3>1. k \in Used
      BY <1>2, <1>4, <2>1
    <3> QED BY <1>1, <3>1, UsedSlot DEF IInv, Listed
  <2>3. SpdDomeCam'[l] \in overtakers[SpdDomeCam[k]] /\ isUsing[SpdDomeCam[k]] = "FREE"
    BY <1>1, <1>5, <1>8, <2>2 DEF TypeOK
  <2>4. l # n
    BY <1>1, <1>5, <2>2, <2>3 DEF FairInv
  <2>5. l \in Used
    BY <1>2, <1>4, <2>4
  <2> QED BY <1>5, <1>7, <2>2, <2>3, <2>5 DEF FairInv, Behind
<1>10. FreedSince'
  BY <1>1 DEF IInv, Guarded, FreedSince
<1> QED BY <1>6, <1>8, <1>9, <1>10 DEF FairInv

LEMMA RemoveFair ==
    ASSUME IInv, NEW n \in CamNums, removeSDC(n), overtakers' = [c \in Cameras |-> {}]
    PROVE  FairInv'
<1>1. overtakers' \in [Cameras -> SUBSET Cameras] /\ \A c \in Cameras : overtakers'[c] = {}
  OBVIOUS
<1>2. \A s \in Sessions : pc'[s] = "idle"
  BY DEF IInv, Guarded, removeSDC, locals
<1>3. TypeOK' /\ SlotsMatchTotal'
  BY RemoveIInv DEF IInv
<1>4. Behind'
  <2>1. \A k \in Used' : SpdDomeCam'[k] \in Cameras
    <3>1. totalSpdDomeCam' \in 0 .. MaxSDC /\ SpdDomeCam' \in [Slots -> Cameras \cup {NULL}]
      BY <1>3 DEF TypeOK, Slots
    <3>2. \A k \in Used' : k \in Slots /\ k < totalSpdDomeCam'
      <4>1. PICK m \in 0 .. MaxSDC : m = totalSpdDomeCam'
        BY <3>1
      <4>2. \A k \in 0 .. m - 1 : k \in Slots /\ k < m
        BY PoolAssumption DEF Slots
      <4> QED BY <4>1, <4>2 DEF Used
    <3>3. \A k \in Slots : SpdDomeCam'[k] # NULL <=> k < totalSpdDomeCam'
      BY <1>3 DEF SlotsMatchTotal
    <3> QED BY <3>1, <3>2, <3>3
  <2> QED BY <1>1, <2>1 DEF Behind
<1> QED BY <1>1, <1>2, <1>4 DEF FairInv, FreedSince

\* The scan goes by the camera granted first, and so comes to it last again.
LEMMA ClaimTurns ==
    ASSUME IInv, NEW s \in Sessions, Claim(s), NEW h, h = j[s]
    PROVE  /\ Used' = Used /\ Listed' = Listed /\ h \in Used
           /\ Distance(h)' = totalSpdDomeCam
           /\ \A k \in Used : k # h => Distance(k)' < totalSpdDomeCam
           /\ \A k, l \in Used : Distance(h) < Distance(k) /\ Distance(k) < Distance(l)
                                    => Distance(k)' < Distance(l)'
<1>1. /\ TypeOK /\ j[s] \in Used /\ curSpdDomeCam' = j[s]
      /\ totalSpdDomeCam' = totalSpdDomeCam /\ SpdDomeCam' = SpdDomeCam
  BY DEF IInv, ClaimsFree, Claim, ClaimAs, list
<1>2. PICK n \in Nat : n = totalSpdDomeCam
  BY <1>1, PoolAssumption DEF TypeOK, Slots
<1>3. PICK q \in Nat : q = curSpdDomeCam
  BY <1>1, PoolAssumption DEF TypeOK, Slots
<1>4. h \in Nat
  BY <1>1, <1>2 DEF Used
<1>5. Used = 0 .. n - 1 /\ Used' = Used /\ Listed' = Listed /\ h \in 0 .. n - 1
  BY <1>1, <1>2, <1>4 DEF Used, Listed
<1>6. \A k \in Used : Distance(k)' = IF k > h THEN k - h ELSE k - h + n
  BY <1>1, <1>2, <1>4, <1>5 DEF Distance
<1>7. \A k \in Used : Distance(k) = IF q >= n THEN k + 1 ELSE IF k > q THEN k - q ELSE k - q + n
  BY <1>2, <1>3 DEF Distance
<1>8. ASSUME NEW k \in Used, NEW l \in Used, Distance(h) < Distance(k), Distance(k) < Distance(l)
      PROVE  Distance(k)' < Distance(l)'
  <2>1. h \in Used
    BY <1>5
  <2>2. PICK dh, dk, dl \in Int :
           /\ dh = IF q >= n THEN h + 1 ELSE IF h > q THEN h - q ELSE h - q + n
           /\ dk = IF q >= n THEN k + 1 ELSE IF k > q THEN k - q ELSE k - q + n
           /\ dl = IF q >= n THEN l + 1 ELSE IF l > q THEN l - q ELSE l - q + n
           /\ dh < dk /\ dk < dl
    <3>1. /\ Distance(h) = IF q >= n THEN h + 1 ELSE IF h > q THEN h - q ELSE h - q + n
          /\ Distance(k) = IF q >= n THEN k + 1 ELSE IF k > q THEN k - q ELSE k - q + n
          /\ Distance(l) = IF q >= n THEN l + 1 ELSE IF l > q THEN l - q ELSE l - q + n
      BY <1>7, <2>1
    <3>2. Distance(h) \in Int /\ Distance(k) \in Int /\ Distance(l) \in Int
      BY <1>5, <3>1
    <3> QED BY <1>8, <3>1, <3>2
  <2>3. (IF k > h THEN k - h ELSE k - h + n) < (IF l > h THEN l - h ELSE l - h + n)
    <3>1. n \in Int /\ q \in Int /\ h \in 0 .. n - 1 /\ k \in 0 .. n - 1 /\ l \in 0 .. n - 1
      BY <1>1, <1>2, <1>5
    <3>2. CASE q >= n
      <4>1. h < k /\ k < l
        BY <2>2, <3>1, <3>2
      <4> QED
        BY <3>1, <4>1
    <3>3. CASE ~(q >= n)
      <4>1. CASE k > h /\ l > h
        BY <2>2, <3>1, <3>3, <4>1
      <4>2. CASE ~(k > h) /\ ~(l > h)
        BY <2>2, <3>1, <3>3, <4>2
      <4>3. CASE k > h /\ ~(l > h)
        BY <3>1, <4>3
      <4>4. CASE ~(k > h) /\ l > h
        BY <2>2, <3>1, <3>3, <4>4
      <4> QED
        BY <4>1, <4>2, <4>3, <4>4
    <3> QED
      BY <3>2, <3>3
  <2>4. /\ Distance(k)' = IF k > h THEN k - h ELSE k - h + n
        /\ Distance(l)' = IF l > h THEN l - h ELSE l - h + n
    BY <1>6
  <2> QED BY <2>3, <2>4
<1>9. Distance(h)' = n /\ \A k \in Used : k # h => Distance(k)' < n
  BY <1>5, <1>6
<1> QED BY <1>1, <1>2, <1>4, <1>5, <1>8, <1>9

LEMMA InTurnHolds ==
    ASSUME IInv, ScanInv, NEW s \in Sessions, pc[s] = "claim", NEW k \in Used, SpdDomeCam[k] \in freeAtLock
    PROVE  Distance(j[s]) <= Distance(k)
<1>1. Distance(j[s]) = i[s] + 1 /\ Distance(k) > i[s]
  BY DEF ScanInv, AtStep, Seen
<1>2. Distance(k) \in Nat /\ i[s] \in Nat
  BY DistanceBound DEF IInv, TypeOK, Slots
<1> QED BY <1>1, <1>2

\* Whoever is FREE when the scan claims another is after that one, or has been
\* overtaken by nobody.
LEMMA ClaimPasses ==
    ASSUME IInv, ScanInv, FairInv, NEW s \in Sessions, Claim(s), NEW h, h = j[s],
           NEW k \in Used, k # h, isUsing[SpdDomeCam[k]] = "FREE"
    PROVE  overtakers[SpdDomeCam[k]] = {} \/ Distance(h) < Distance(k)
<1>1. h \in Used /\ pc[s] = "claim" /\ TypeOK /\ SpdDomeCam[k] \in Listed
  BY DEF IInv, ClaimsFree, Claim, ClaimAs, Listed
<1>2. CASE SpdDomeCam[k] \in freeAtLock
  <2>1. Distance(h) <= Distance(k)
    BY <1>1, <1>2, InTurnHolds
  <2>2. Distance(h) # Distance(k)
    BY <1>1, DistanceInjective
  <2>3. Distance(h) \in 1 .. totalSpdDomeCam /\ Distance(k) \in 1 .. totalSpdDomeCam
    BY <1>1, DistanceBound
  <2> QED BY <2>1, <2>2, <2>3
<1>3. CASE SpdDomeCam[k] \notin freeAtLock
  BY <1>1, <1>3 DEF FairInv, FreedSince
<1> QED BY <1>2, <1>3

LEMMA ClaimFair ==
    ASSUME IInv, ScanInv, FairInv, NEW s \in Sessions, Claim(s), Overtake(SpdDomeCam[j[s]])
    PROVE  /\ FairInv'
           /\ \A c \in Listed : isUsing[c] = "FREE" /\ SpdDomeCam[j[s]] # c =>
                 SpdDomeCam[j[s]] \notin overtakers[c]
<1>1. PICK h : h = j[s]
  OBVIOUS
<1>2. /\ Used' = Used /\ Listed' = Listed /\ h \in Used
      /\ Distance(h)' = totalSpdDomeCam
      /\ \A k \in Used : k # h => Distance(k)' < totalSpdDomeCam
      /\ \A k, l \in Used : Distance(h) < Distance(k) /\ Distance(k) < Distance(l)
                               => Distance(k)' < Distance(l)'
  BY <1>1, ClaimTurns
<1>3. /\ TypeOK /\ SlotsMatchTotal /\ SpdDomeCam' = SpdDomeCam
      /\ isUsing' = [isUsing EXCEPT ![SpdDomeCam[h]] = "BUSY"]
      /\ pc' = [pc EXCEPT ![s] = "idle"] /\ \A t \in Sessions : t # s => pc[t] = "idle"
  BY <1>1 DEF IInv, Claim, ClaimAs, Unlock, list, Guarded
<1>4. PICK g \in Cameras : g = SpdDomeCam[h]
  BY <1>2, <1>3, UsedSlot
<1>5. /\ overtakers' \in [Cameras -> SUBSET Cameras] /\ g \in Listed
      /\ \A c \in Cameras : overtakers'[c] = IF c = g THEN {} ELSE overtakers[c] \cup {g}
  BY <1>1, <1>2, <1>4 DEF Overtake, FairInv, Listed
<1>6. \A c \in Cameras : overtakers'[c] \subseteq Listed'
  BY <1>2, <1>5 DEF FairInv
<1>7. FreedSince'
  BY <1>3 DEF FreedSince, TypeOK
<1>8. \A k \in Used : SpdDomeCam[k] \in Cameras /\ (k # h => SpdDomeCam[k] # g)
  BY <1>2, <1>3, <1>4, UsedSlot DEF SlotsMatchTotal
<1>9. Behind'
  <2> SUFFICES ASSUME NEW k \in Used, NEW l \in Used, isUsing'[SpdDomeCam[k]] = "FREE",
                      SpdDomeCam[l] \in overtakers'[SpdDomeCam[k]]
               PROVE  Distance(k)' < Distance(l)'
    BY <1>2, <1>3 DEF Behind
  <2>1. k # h /\ SpdDomeCam[k] # g /\ isUsing[SpdDomeCam[k]] = "FREE"
    BY <1>3, <1>4, <1>5, <1>8 DEF TypeOK
  <2>2. CASE l = h
    BY <1>2, <2>1, <2>2
  <2>3. CASE l # h
    <3>1. SpdDomeCam[l] \in overtakers[SpdDomeCam[k]]
      BY <1>5, <1>8, <2>1, <2>3
    <3>2. Distance(h) < Distance(k)
      BY <1>1, <2>1, <3>1, ClaimPasses
    <3>3. Distance(k) < Distance(l)
      BY <2>1, <3>1 DEF FairInv, Behind
    <3> QED BY <1>2, <3>2, <3>3
  <2> QED BY <2>2, <2>3
<1>10. ASSUME NEW c \in Listed, isUsing[c] = "FREE", g # c, g \in overtakers[c]
       PROVE  FALSE
  <2>1. PICK k \in Used : SpdDomeCam[k] = c
    BY DEF Listed
  <2>2. Distance(h) < Distance(k)
    BY <1>1, <1>4, <1>10, <2>1, ClaimPasses
  <2>3. Distance(k) < Distance(h)
    BY <1>2, <1>4, <1>10, <2>1 DEF FairInv, Behind
  <2>4. Distance(h) \in 1 .. totalSpdDomeCam /\ Distance(k) \in 1 .. totalSpdDomeCam
    BY <1>2, <1>3, DistanceBound
  <2> QED BY <2>2, <2>3, <2>4
<1> QED BY <1>1, <1>4, <1>5, <1>6, <1>7, <1>9, <1>10 DEF FairInv

LEMMA ReleaseFair ==
    ASSUME IInv, FairInv, NEW s \in Sessions, Release(s), overtakers' = [overtakers EXCEPT ![ptr[s]] = {}]
    PROVE  FairInv'
<1>1. PICK p \in Cameras : p = ptr[s]
  BY DEF IInv, Holding, Release
<1>2. /\ Used' = Used /\ Listed' = Listed /\ SpdDomeCam' = SpdDomeCam
      /\ \A k \in Used : Distance(k)' = Distance(k)
      /\ isUsing' = [isUsing EXCEPT ![p] = "FREE"] /\ pc' = pc /\ freeAtLock' = freeAtLock
  BY <1>1 DEF Release, list, locals, Used, Listed, Distance
<1>3. /\ overtakers' \in [Cameras -> SUBSET Cameras] /\ overtakers'[p] = {}
      /\ \A c \in Cameras : c # p => overtakers'[c] = overtakers[c] /\ isUsing'[c] = isUsing[c]
  BY <1>1, <1>2 DEF FairInv, IInv, TypeOK
<1>4. \A k \in Used : SpdDomeCam[k] \in Cameras
  BY UsedSlot DEF IInv
<1>5. Behind'
  BY <1>2, <1>3, <1>4 DEF FairInv, Behind
<1>6. FreedSince'
  <2>1. Listed \subseteq Cameras
    BY <1>4 DEF Listed
  <2> QED BY <1>2, <1>3, <2>1 DEF FairInv, FreedSince
<1> QED BY <1>2, <1>3, <1>5, <1>6 DEF FairInv

LEMMA ScanFair ==
    ASSUME IInv, FairInv, UNCHANGED overtakers,
           NEW s \in Sessions, Lock(s) \/ ExamineBusy(s) \/ ExamineFree(s) \/ Refuse(s)
    PROVE  FairInv'
<1>1. /\ Used' = Used /\ Listed' = Listed /\ SpdDomeCam' = SpdDomeCam /\ isUsing' = isUsing
      /\ \A k \in Used : Distance(k)' = Distance(k)
  BY DEF Lock, StartScan, ExamineBusy, ExamineFree, Refuse, list, Used, Listed, Distance
<1>2. Behind'
  BY <1>1 DEF FairInv, Behind
<1>3. CASE Lock(s)
  <2>1. freeAtLock' = {c \in Listed : isUsing[c] = "FREE"}
    BY <1>3 DEF Lock, StartScan
  <2> QED BY <1>1, <1>2, <2>1 DEF FairInv, FreedSince
<1>4. CASE ExamineBusy(s) \/ ExamineFree(s)
  <2>1. freeAtLock' = freeAtLock /\ pc[s] # "idle" /\ \A t \in Sessions : pc'[t] # "idle" => pc[t] # "idle"
    BY <1>4 DEF ExamineBusy, ExamineFree, IInv, TypeOK
  <2> QED BY <1>1, <1>2, <2>1 DEF FairInv, FreedSince
<1>5. CASE Refuse(s)
  <2>1. \A t \in Sessions : pc'[t] = "idle"
    BY <1>5 DEF IInv, Guarded, TypeOK, Refuse, Unlock
  <2> QED BY <1>1, <1>2, <2>1 DEF FairInv, FreedSince
<1> QED BY <1>3, <1>4, <1>5

\* The history variable only looks on.
LEMMA FairIsPool == FairSpec => Spec
<1>1. FairInit => Init
  BY DEF FairInit
<1>2. [FairNext]_fairVars => [Next]_vars
  BY DEF FairNext, Next, getFreeSDC, fairVars
<1> QED BY <1>1, <1>2, PTL DEF FairSpec, Spec

LEMMA StepFair ==
    ASSUME IInv, ScanInv, FairInv, [FairNext]_fairVars
    PROVE  FairInv'
<1>1. CASE UNCHANGED fairVars
  BY <1>1 DEF fairVars, vars, list, locals, FairInv, Behind, FreedSince, Used, Listed, Distance
<1> QED BY <1>1, AddFair, RemoveFair, ClaimFair, ReleaseFair, ScanFair DEF FairNext

LEMMA FairInvariance == FairSpec => [](IInv /\ ScanInv /\ FairInv)
<1>1. FairSpec => [](IInv /\ ScanInv)
  BY FairIsPool, SpecIInv, SpecScanInv, PTL
<1>2. ASSUME FairInit, TypeOK PROVE FairInv
  <2>1. Listed \subseteq Cameras \cup {NULL} /\ \A c \in Cameras : overtakers[c] = {}
    BY <1>2 DEF FairInit, Init, Listed, Used
  <2>2. Used = {}
    BY <1>2 DEF FairInit, Init, Used
  <2> QED BY <1>2, <2>1, <2>2 DEF FairInit, Init, FairInv, Behind, FreedSince
<1>3. FairInit /\ IInv => FairInv
  BY <1>2 DEF IInv
<1>4. IInv /\ ScanInv /\ FairInv /\ [FairNext]_fairVars => FairInv'
  BY StepFair
<1> QED BY <1>1, <1>3, <1>4, PTL DEF FairSpec

\* While a camera stays listed and FREE no other is granted twice, for any
\* number of cameras and sessions, and with releases in the middle of scans.
THEOREM NobodyOvertakesTwice == FairSpec => NoOvertaking
<1>1. ASSUME IInv, ScanInv, FairInv, [FairNext]_fairVars,
             NEW c \in Listed, NEW s \in Sessions,
             isUsing[c] = "FREE", ~holds[s], holds'[s], ptr'[s] # c
      PROVE  ptr'[s] \notin overtakers[c]
  <2>1. ASSUME UNCHANGED holds PROVE FALSE
    BY <1>1, <2>1
  <2>2. PICK t \in Sessions : Claim(t) /\ Overtake(SpdDomeCam[j[t]])
    <3>1. ASSUME NEW t \in Sessions, Release(t) PROVE FALSE
      BY <1>1, <3>1 DEF Release, IInv, TypeOK
    <3> QED BY <1>1, <2>1, <3>1
            DEF FairNext, fairVars, vars, addSDC, removeSDC, Lock, StartScan, ExamineBusy,
                ExamineFree, Refuse
  <2>3. t = s /\ ptr'[s] = SpdDomeCam[j[s]]
    BY <1>1, <2>2 DEF Claim, ClaimAs, IInv, TypeOK
  <2> QED BY <1>1, <2>2, <2>3, ClaimFair
<1>2. IInv /\ ScanInv /\ FairInv /\ [FairNext]_fairVars =>
         [\A c \in Listed, s \in Sessions :
              /\ isUsing[c] = "FREE"
              /\ ~holds[s] /\ holds'[s] /\ ptr'[s] # c
              => ptr'[s] \notin overtakers[c]]_fairVars
  BY <1>1
<1> QED BY FairInvariance, <1>2, PTL DEF FairSpec, NoOvertaking
=============================================================================
