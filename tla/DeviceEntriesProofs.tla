------------------------ MODULE DeviceEntriesProofs ------------------------
(***************************************************************************)
(* Proofs about DeviceEntries, for any devices, sessions, clients, cameras *)
(* and missions.                                                           *)
(*                                                                         *)
(* The strengthening: an array is dense (Dense), a device has one entry,   *)
(* or two while it is moved, in different lists (Unique), so that no array *)
(* outgrows the number of devices; and a session that was granted a camera *)
(* knows its device (Known).                                               *)
(***************************************************************************)
EXTENDS DeviceEntries, FiniteSetTheorems, TLAPS

Dense ==
    \A l \in Lists, i \in Slots :
        capDev[l][i].devNum \in (IF i <= total[l] THEN Devices ELSE {NULL})

Unique ==
    \A l, m \in Lists : \A i \in 1 .. total[l], j \in 1 .. total[m] :
        capDev[l][i].devNum = capDev[m][j].devNum =>
            \/ l = m /\ i = j
            \/ l # m /\ leaving.dev = capDev[l][i].devNum /\ leaving.from \in {l, m}

Known ==
    \A s \in Sessions : session[s].pc # "off" =>
        session[s].dev \in Devices /\ session[s].cam \in Cameras

IInv == OwnCameraShown /\ ShownUntilRegrouped /\ Dense /\ Unique /\ Known

-----------------------------------------------------------------------------

\* The slots of an array are 1 to one past what it can hold.
LEMMA SlotNumbers ==
    /\ Cardinality(Devices) \in Nat
    /\ \A i : i \in Slots <=> i \in Int /\ 1 <= i /\ i <= Cardinality(Devices) + 2
BY EntriesAssumption, FS_CardinalityType DEF Slots

\* A list without a device twice holds at most all of them.
LEMMA NeverFull ==
    ASSUME TypeOK, Dense, Unique, NEW l \in Lists
    PROVE  total[l] <= Cardinality(Devices)
<1> DEFINE f == [i \in 1 .. total[l] |-> capDev[l][i].devNum]
<1>1. total[l] \in Nat /\ total[l] <= Cardinality(Devices) + 1
  BY SlotNumbers DEF TypeOK
<1>2. \A i \in 1 .. total[l] : i \in Slots
  BY <1>1, SlotNumbers
<1>3. f \in Injection(1 .. total[l], Devices)
  BY <1>1, <1>2 DEF Dense, Unique, Injection, IsInjective
<1>4. Cardinality(1 .. total[l]) <= Cardinality(Devices)
  BY <1>3, FS_Injection, EntriesAssumption
<1>5. Cardinality(1 .. total[l]) = total[l]
  BY <1>1, FS_Interval
<1> QED
  BY <1>4, <1>5

\* What an entry is made of.
LEMMA EntryParts ==
    ASSUME TypeOK, NEW l \in Lists, NEW i \in Slots
    PROVE  /\ capDev[l][i] \in Entry
           /\ capDev[l][i].devNum \in Devices \cup {NULL}
           /\ capDev[l][i].isOnline \in {0, 1}
           /\ capDev[l][i].curCamNum \in Cameras \cup NoCamera
BY DEF TypeOK, Entry

\* The slots in use are slots.
LEMMA InUse ==
    ASSUME TypeOK, NEW l \in Lists, NEW i \in 1 .. total[l]
    PROVE  i \in Slots
<1>1. total[l] \in 0 .. Cardinality(Devices) + 1
  BY DEF TypeOK
<1> QED
  BY <1>1, SlotNumbers

\* A session that goes on has the fields it had.
LEMMA SessionStep ==
    ASSUME TypeOK, NEW s \in Sessions, NEW pc \in {"off", "open", "granted"}, NEW l \in Lists,
           session' = [session EXCEPT ![s] = [@ EXCEPT !.pc = pc, !.l = l]]
    PROVE  /\ session' \in [Sessions -> [pc : {"off", "open", "granted"}, dev : Devices \cup {NULL},
                                         l : Lists, cam : Cameras \cup {Absent}]]
           /\ \A u \in Sessions : session'[u].dev = session[u].dev /\ session'[u].cam = session[u].cam
           /\ \A u \in Sessions : u # s => session'[u] = session[u]
<1> DEFINE r == session[s]
           n == [r EXCEPT !.pc = pc, !.l = l]
<1>1. r \in [pc : {"off", "open", "granted"}, dev : Devices \cup {NULL},
             l : Lists, cam : Cameras \cup {Absent}]
  BY DEF TypeOK
<1>2. n = [pc |-> pc, dev |-> r.dev, l |-> l, cam |-> r.cam]
  <2>1. r = [pc |-> r.pc, dev |-> r.dev, l |-> r.l, cam |-> r.cam]
    BY <1>1
  <2>2. [r EXCEPT !.pc = pc] = [pc |-> pc, dev |-> r.dev, l |-> r.l, cam |-> r.cam]
    BY <2>1
  <2>3. [[r EXCEPT !.pc = pc] EXCEPT !.l = l]
          = [pc |-> pc, dev |-> r.dev, l |-> l, cam |-> r.cam]
    <3>1. [[pc |-> pc, dev |-> r.dev, l |-> r.l, cam |-> r.cam] EXCEPT !.l = l]
            = [pc |-> pc, dev |-> r.dev, l |-> l, cam |-> r.cam]
      OBVIOUS
    <3> QED
      BY Zenon, <2>2, <3>1
  <2>4. n = [[r EXCEPT !.pc = pc] EXCEPT !.l = l]
    OBVIOUS
  <2> QED
    BY Zenon, <2>3, <2>4
<1>3. n \in [pc : {"off", "open", "granted"}, dev : Devices \cup {NULL},
             l : Lists, cam : Cameras \cup {Absent}] /\ n.dev = r.dev /\ n.cam = r.cam
  BY <1>1, <1>2
<1>4. session' = [session EXCEPT ![s] = n]
  OBVIOUS
<1> HIDE DEF n
<1> QED
  BY <1>3, <1>4 DEF TypeOK

LEMMA InitInv == Init => IInv
<1> SUFFICES ASSUME Init PROVE IInv
  OBVIOUS
<1> DEFINE N == Cardinality(Devices)
<1>1. PICK order \in [1 .. N -> Devices] :
        /\ \A i, j \in 1 .. N : order[i] = order[j] => i = j
        /\ capDev = [l \in Lists |-> [i \in Slots |->
                      IF l = Unstart /\ i <= N THEN [Empty EXCEPT !.devNum = order[i]] ELSE Empty]]
  BY DEF Init
<1>2. /\ total = [l \in Lists |-> IF l = Unstart THEN N ELSE 0]
      /\ leaving = NotMoving
      /\ session = [s \in Sessions |-> Off]
      /\ client = [k \in Clients |-> NoSlot]
      /\ granted = [d \in Devices |-> {}]
      /\ told = [d \in Devices |-> Absent]
      /\ fresh = {}
  BY DEF Init
<1>3. N \in Nat /\ Unstart \in Lists /\ 1 \in Slots
  BY SlotNumbers DEF Lists
<1>4. ASSUME NEW l \in Lists, NEW i \in Slots
      PROVE  /\ capDev[l][i] \in Entry
             /\ capDev[l][i].isOnline = 0 /\ capDev[l][i].curCamNum = Absent
             /\ i <= total[l] <=> l = Unstart /\ i <= N
             /\ i <= total[l] => capDev[l][i].devNum = order[i] /\ order[i] \in Devices
             /\ ~(i <= total[l]) => capDev[l][i].devNum = NULL
  <2>1. i <= total[l] <=> l = Unstart /\ i <= N
    BY <1>2, <1>3, <1>4, SlotNumbers
  <2>2. CASE l = Unstart /\ i <= N
    <3>1. capDev[l][i] = [devNum |-> order[i], isOnline |-> 0, curCamNum |-> Absent]
      BY <1>1, <1>4, <2>2 DEF Empty
    <3>2. order[i] \in Devices
      BY <1>1, <1>3, <1>4, <2>2, SlotNumbers
    <3> QED
      BY <2>1, <2>2, <3>1, <3>2 DEF Entry, NoCamera
  <2>3. CASE ~(l = Unstart /\ i <= N)
    <3>1. capDev[l][i] = [devNum |-> NULL, isOnline |-> 0, curCamNum |-> Absent]
      BY <1>1, <1>4, <2>3 DEF Empty
    <3> QED
      BY <2>1, <2>3, <3>1 DEF Entry, NoCamera
  <2> QED
    BY <2>2, <2>3
<1>5. TypeOK
  <2>1. capDev \in [Lists -> [Slots -> Entry]]
    <3>1. \A l \in Lists, i \in Slots : capDev[l][i] \in Entry
      BY <1>4
    <3> QED
      BY <1>1, <3>1
  <2>2. total \in [Lists -> 0 .. N + 1]
    BY <1>2, <1>3
  <2> QED
    BY <1>2, <1>3, <2>1, <2>2 DEF TypeOK, NotMoving, Off, NoSlot
<1>6. Dense
  BY <1>4 DEF Dense
<1>7. Unique
  <2>1. ASSUME NEW l \in Lists, NEW m \in Lists, NEW i \in 1 .. total[l], NEW j \in 1 .. total[m],
               capDev[l][i].devNum = capDev[m][j].devNum
        PROVE  l = m /\ i = j
    <3>1. l = Unstart /\ m = Unstart /\ i \in 1 .. N /\ j \in 1 .. N
      BY <1>2, <1>3, <2>1
    <3>2. i \in Slots /\ j \in Slots
      BY <1>3, <3>1, SlotNumbers
    <3> QED
      BY <1>1, <1>4, <2>1, <3>1, <3>2
  <2> QED
    BY <2>1 DEF Unique
<1>8. OwnCameraShown
  BY <1>4, <1>5 DEF OwnCameraShown, NoCamera
<1>9. ShownUntilRegrouped /\ Known
  BY <1>2 DEF ShownUntilRegrouped, Known, Off
<1> QED
  BY <1>6, <1>7, <1>8, <1>9 DEF IInv

-----------------------------------------------------------------------------
(* Regrouping.                                                             *)

\* The device that is added was not in the list, and what its slot had says nothing.
LEMMA RegroupAddInv ==
    ASSUME IInv, NEW d \in Devices, NEW from \in Lists, NEW to \in Lists, RegroupAdd(d, from, to)
    PROVE  IInv' /\ ShownOnline \subseteq ShownOnline'
<1> DEFINE n == total[to] + 1
           old == capDev[to][n]
<1>1. /\ TypeOK /\ Dense /\ Unique /\ Known /\ OwnCameraShown /\ ShownUntilRegrouped
      /\ leaving = NotMoving /\ from # to /\ Listed(from, d)
      /\ leaving' = [dev |-> d, from |-> from]
      /\ capDev' = [capDev EXCEPT ![to] = Added(@, total[to], d)]
      /\ total' = [total EXCEPT ![to] = @ + 1]
      /\ UNCHANGED <<session, client, granted, told, fresh>>
  BY DEF IInv, OwnCameraShown, RegroupAdd, addCapDev, ghosts
<1>2. /\ \A l \in Lists : total[l] \in Nat /\ \A i \in 1 .. total[l] : i \in Slots
      /\ n \in Slots /\ n \in Nat /\ n > total[to] /\ n <= Cardinality(Devices) + 1
      /\ \A i \in Int : i <= n <=> i <= total[to] \/ i = n
  <2>1. \A l \in Lists : total[l] \in Nat /\ total[l] <= Cardinality(Devices)
    BY <1>1, NeverFull, SlotNumbers DEF TypeOK
  <2> QED
    BY <2>1, SlotNumbers
<1>3. old \in Entry
  BY <1>1, <1>2, EntryParts
<1>4. Added(capDev[to], total[to], d) = [capDev[to] EXCEPT ![n] = [old EXCEPT !.devNum = d]]
  BY DEF Added
<1>5. /\ capDev'[to] = [capDev[to] EXCEPT ![n] = [old EXCEPT !.devNum = d]]
      /\ \A l \in Lists : l # to => capDev'[l] = capDev[l]
  BY <1>1, <1>4 DEF TypeOK
<1>6. /\ total'[to] = n
      /\ \A l \in Lists : l # to => total'[l] = total[l]
  BY <1>1 DEF TypeOK
<1>7. /\ capDev' \in [Lists -> [Slots -> Entry]]
      /\ total' \in [Lists -> 0 .. Cardinality(Devices) + 1]
  <2>1. [old EXCEPT !.devNum = d] \in Entry
    BY <1>3 DEF Entry
  <2>2. [capDev[to] EXCEPT ![n] = [old EXCEPT !.devNum = d]] \in [Slots -> Entry]
    BY <1>1, <2>1 DEF TypeOK
  <2>3. capDev' \in [Lists -> [Slots -> Entry]]
    BY <1>1, <1>4, <2>2 DEF TypeOK
  <2>4. n \in 0 .. Cardinality(Devices) + 1
    BY <1>2, SlotNumbers
  <2> QED
    BY <1>1, <2>3, <2>4 DEF TypeOK
<1>8. /\ capDev'[to][n].devNum = d
      /\ capDev'[to][n].isOnline = old.isOnline
      /\ capDev'[to][n].curCamNum = old.curCamNum
  <2>1. capDev'[to][n] = [old EXCEPT !.devNum = d]
    BY <1>1, <1>2, <1>5 DEF TypeOK
  <2> QED
    BY <1>3, <2>1 DEF Entry
<1>9. \A l \in Lists, i \in Slots : ~(l = to /\ i = n) => capDev'[l][i] = capDev[l][i]
  BY <1>1, <1>5 DEF TypeOK
<1>10. \A l \in Lists, i \in Slots :
           /\ i \in Int
           /\ i <= total'[l] <=> (i <= total[l] \/ (l = to /\ i = n))
  BY <1>2, <1>6, SlotNumbers
<1>11. ~(n <= total[to])
  BY <1>2
<1>12. \A l \in Lists : \A i \in 1 .. total'[l] :
           /\ i \in Slots
           /\ ~(l = to /\ i = n) => i \in 1 .. total[l]
  <2>1. \A l \in Lists : \A i \in 1 .. total'[l] : i \in Slots
    BY <1>7, SlotNumbers
  <2> QED
    BY <2>1, <1>2, <1>10
<1> HIDE DEF n, old
<1>13. TypeOK'
  BY <1>1, <1>7 DEF TypeOK
<1>14. Dense'
  <2>1. ASSUME NEW l \in Lists, NEW i \in Slots
        PROVE  capDev'[l][i].devNum \in (IF i <= total'[l] THEN Devices ELSE {NULL})
    <3>1. CASE l = to /\ i = n
      BY <1>8, <1>10, <3>1
    <3>2. CASE ~(l = to /\ i = n)
      BY <1>1, <1>9, <1>10, <3>2 DEF Dense
    <3> QED
      BY <3>1, <3>2
  <2> QED
    BY <2>1 DEF Dense
<1>15. Unique'
  <2>1. PICK k \in 1 .. total[from] : capDev[from][k].devNum = d
    BY <1>1 DEF Listed, IndexOf
  <2>2. leaving.dev = NULL
    BY <1>1 DEF NotMoving
  <2>3. \A l \in Lists : \A i \in 1 .. total[l] :
            capDev[l][i].devNum # NULL /\ (capDev[l][i].devNum = d => l = from)
    <3>1. \A l \in Lists : \A i \in 1 .. total[l] : capDev[l][i].devNum \in Devices
      BY <1>1, <1>2 DEF Dense
    <3> QED
      BY <1>1, <2>1, <2>2, <3>1, EntriesAssumption DEF Unique
  <2>4. ASSUME NEW l \in Lists, NEW m \in Lists, NEW i \in 1 .. total'[l], NEW j \in 1 .. total'[m],
               capDev'[l][i].devNum = capDev'[m][j].devNum
        PROVE  \/ l = m /\ i = j
               \/ l # m /\ leaving'.dev = capDev'[l][i].devNum /\ leaving'.from \in {l, m}
    <3>0. leaving'.dev = d /\ leaving'.from = from
      BY <1>1
    <3>1. CASE l = to /\ i = n /\ m = to /\ j = n
      BY <3>1
    <3>2. CASE (l = to /\ i = n) /\ ~(m = to /\ j = n)
      <4>1. j \in 1 .. total[m] /\ capDev[m][j].devNum = d /\ capDev'[l][i].devNum = d
        BY <1>8, <1>9, <1>12, <2>4, <3>2
      <4> QED
        BY <1>1, <2>3, <3>0, <3>2, <4>1
    <3>3. CASE ~(l = to /\ i = n) /\ (m = to /\ j = n)
      <4>1. i \in 1 .. total[l] /\ capDev[l][i].devNum = d /\ capDev'[l][i].devNum = d
        BY <1>8, <1>9, <1>12, <2>4, <3>3
      <4> QED
        BY <1>1, <2>3, <3>0, <3>3, <4>1
    <3>4. CASE ~(l = to /\ i = n) /\ ~(m = to /\ j = n)
      <4>1. i \in 1 .. total[l] /\ j \in 1 .. total[m] /\ capDev[l][i].devNum = capDev[m][j].devNum
        BY <1>9, <1>12, <2>4, <3>4
      <4> QED
        BY <1>1, <2>2, <2>3, <4>1 DEF Unique
    <3> QED
      BY <3>1, <3>2, <3>3, <3>4
  <2> QED
    BY <2>4 DEF Unique
<1>16. OwnCameraShown'
  <2>1. ASSUME NEW l \in Lists, NEW i \in Slots
        PROVE  LET e == capDev'[l][i] IN
               IF i <= total'[l] THEN e.curCamNum \in granted'[e.devNum] \cup NoCamera
               ELSE e.isOnline = 0 /\ e.curCamNum \in NoCamera
    <3>1. CASE l = to /\ i = n
      <4>1. old.curCamNum \in NoCamera
        BY <1>1, <1>2, <1>11 DEF OwnCameraShown, old
      <4> QED
        BY <1>8, <1>10, <3>1, <4>1
    <3>2. CASE ~(l = to /\ i = n)
      BY <1>1, <1>9, <1>10, <3>2 DEF OwnCameraShown
    <3> QED
      BY <3>1, <3>2
  <2> QED
    BY <1>13, <2>1 DEF OwnCameraShown
<1>17. ShownUntilRegrouped'
  <2> SUFFICES ASSUME NEW x \in fresh
               PROVE  \E l \in Lists : \E i \in 1 .. total'[l] :
                        /\ capDev'[l][i].devNum = x
                        /\ capDev'[l][i].isOnline = 1 /\ capDev'[l][i].curCamNum = told[x]
    BY <1>1 DEF ShownUntilRegrouped, IndexOf
  <2>1. PICK l \in Lists : \E i \in 1 .. total[l] :
            capDev[l][i].devNum = x /\ capDev[l][i].isOnline = 1 /\ capDev[l][i].curCamNum = told[x]
    BY <1>1 DEF ShownUntilRegrouped, IndexOf
  <2>2. PICK i \in 1 .. total[l] :
            capDev[l][i].devNum = x /\ capDev[l][i].isOnline = 1 /\ capDev[l][i].curCamNum = told[x]
    BY <2>1
  <2>3. i \in Slots /\ ~(l = to /\ i = n)
    BY <1>2, <1>11
  <2>4. i \in 1 .. total'[l]
    BY <1>2, <1>10, <1>7, <2>3
  <2> QED
    BY <1>9, <2>2, <2>3, <2>4
<1>18. Known'
  BY <1>1 DEF Known
<1>20. ASSUME NEW x \in ShownOnline
       PROVE  x \in ShownOnline'
  <2>1. PICK l \in Lists : \E j \in 1 .. total[l] :
            capDev[l][j].devNum = x /\ capDev[l][j].isOnline = 1
    BY DEF ShownOnline, IndexOf
  <2>2. PICK j \in 1 .. total[l] : capDev[l][j].devNum = x /\ capDev[l][j].isOnline = 1
    BY <2>1
  <2>3. j \in Slots
    BY <1>1, <2>2, InUse
  <2>4. j \in 1 .. total'[l] /\ ~(l = to /\ j = n)
    BY <1>2, <1>7, <1>10, <1>11, <2>2, <2>3
  <2> QED
    BY <1>9, <2>2, <2>3, <2>4 DEF ShownOnline, IndexOf
<1> QED
  BY <1>20, <1>14, <1>15, <1>16, <1>17, <1>18 DEF IInv

\* Only the device goes: each slot that stays was one of the list before, and
\* the entries keep their devices.
LEMMA RemoveCapDevInv ==
    ASSUME IInv, removeCapDev
    PROVE  IInv' /\ ShownOnline \ {leaving.dev} \subseteq ShownOnline'
<1> DEFINE f == leaving.from
           d == leaving.dev
           t == total[f]
<1>1. /\ TypeOK /\ Dense /\ Unique /\ Known /\ OwnCameraShown /\ ShownUntilRegrouped
      /\ leaving' = NotMoving
      /\ fresh' = fresh \ {d}
      /\ UNCHANGED <<session, client, granted, told>>
  BY DEF IInv, OwnCameraShown, removeCapDev
<1>2. PICK p \in IndexOf(f, d) :
          /\ capDev' = [capDev EXCEPT ![f] =
                           [j \in Slots |-> IF j \in p .. t THEN capDev[f][j + 1]
                                            ELSE capDev[f][j]]]
          /\ total' = [total EXCEPT ![f] = @ - 1]
  BY DEF removeCapDev
<1>3. /\ \A l \in Lists : total[l] \in Nat /\ \A i \in 1 .. total[l] : i \in Slots
      /\ f \in Lists /\ t \in Nat /\ p \in 1 .. t /\ p \in Slots
      /\ t <= Cardinality(Devices)
      /\ capDev[f][p].devNum = d
  <2>1. \A l \in Lists : total[l] \in Nat /\ total[l] <= Cardinality(Devices)
    BY <1>1, NeverFull, SlotNumbers DEF TypeOK
  <2>2. f \in Lists
    BY <1>1 DEF TypeOK
  <2> QED
    BY <1>2, <2>1, <2>2, SlotNumbers DEF IndexOf
<1> DEFINE src(j) == IF j \in p .. t THEN j + 1 ELSE j
<1>4. /\ \A j \in Slots : capDev'[f][j] = capDev[f][src(j)]
      /\ \A l \in Lists : l # f => capDev'[l] = capDev[l]
  BY <1>1, <1>2, <1>3 DEF TypeOK
<1>5. /\ total'[f] = t - 1
      /\ \A l \in Lists : l # f => total'[l] = total[l]
  BY <1>1, <1>2, <1>3 DEF TypeOK
<1>6. \A j \in Slots :
         /\ src(j) \in Slots /\ src(j) # p
         /\ j <= t - 1 <=> src(j) <= t
         /\ j \in 1 .. t - 1 => src(j) \in 1 .. t
         /\ j \in 1 .. t - 1 => \A k \in 1 .. t - 1 : src(j) = src(k) => j = k
  <2> SUFFICES ASSUME NEW j \in Slots
               PROVE  /\ src(j) \in Slots /\ src(j) # p
                      /\ j <= t - 1 <=> src(j) <= t
                      /\ j \in 1 .. t - 1 => src(j) \in 1 .. t
                      /\ j \in 1 .. t - 1 => \A k \in 1 .. t - 1 : src(j) = src(k) => j = k
    OBVIOUS
  <2>1. j \in Int /\ 1 <= j /\ j <= Cardinality(Devices) + 2
    BY SlotNumbers
  <2>2. src(j) \in Slots
    <3>1. j + 1 \in Slots \/ ~(j \in p .. t)
      BY <1>3, <2>1, SlotNumbers
    <3> QED
      BY <3>1
  <2>3. src(j) # p /\ (j <= t - 1 <=> src(j) <= t) /\ (j \in 1 .. t - 1 => src(j) \in 1 .. t)
    BY <1>3, <2>1
  <2>4. ASSUME j \in 1 .. t - 1, NEW k \in 1 .. t - 1, src(j) = src(k) PROVE j = k
    BY <1>3, <2>1, <2>4
  <2> QED
    BY <2>2, <2>3, <2>4
<1>7. \A k \in 1 .. t : k # p => \E j \in 1 .. t - 1 : src(j) = k
  <2> SUFFICES ASSUME NEW k \in 1 .. t, k # p
               PROVE  \E j \in 1 .. t - 1 : src(j) = k
    OBVIOUS
  <2>1. CASE k < p
    <3>1. k \in 1 .. t - 1 /\ src(k) = k
      BY <1>3, <2>1
    <3> QED
      BY <3>1
  <2>2. CASE k > p
    <3>1. k - 1 \in 1 .. t - 1 /\ src(k - 1) = k
      BY <1>3, <2>2
    <3> QED
      BY <3>1
  <2> QED
    BY <1>3, <2>1, <2>2
<1> HIDE DEF src
<1>8. TypeOK'
  <2>1. [j \in Slots |-> IF j \in p .. t THEN capDev[f][j + 1] ELSE capDev[f][j]] \in [Slots -> Entry]
    <3>1. \A j \in Slots : capDev[f][src(j)] \in Entry
      BY <1>1, <1>3, <1>6, EntryParts
    <3> QED
      BY <3>1 DEF src
  <2>2. capDev' \in [Lists -> [Slots -> Entry]]
    BY <1>1, <1>2, <2>1 DEF TypeOK
  <2>3. t - 1 \in 0 .. Cardinality(Devices) + 1
    BY <1>3, SlotNumbers
  <2>4. total' \in [Lists -> 0 .. Cardinality(Devices) + 1]
    BY <1>1, <1>2, <2>3 DEF TypeOK
  <2>5. leaving' \in [dev : Devices \cup {NULL}, from : Lists]
    BY <1>1 DEF NotMoving, Lists
  <2> QED
    BY <1>1, <2>2, <2>4, <2>5 DEF TypeOK
<1>9. Dense'
  <2>1. ASSUME NEW l \in Lists, NEW i \in Slots
        PROVE  capDev'[l][i].devNum \in (IF i <= total'[l] THEN Devices ELSE {NULL})
    <3>1. CASE l = f
      <4>1. src(i) \in Slots /\ (i <= t - 1 <=> src(i) <= t)
        BY <1>6
      <4>2. capDev'[l][i] = capDev[f][src(i)] /\ total'[l] = t - 1
        BY <1>4, <1>5, <3>1
      <4>3. capDev[f][src(i)].devNum \in (IF src(i) <= t THEN Devices ELSE {NULL})
        BY <1>1, <1>3, <4>1 DEF Dense
      <4> QED
        BY <4>1, <4>2, <4>3
    <3>2. CASE l # f
      BY <1>1, <1>4, <1>5, <3>2 DEF Dense
    <3> QED
      BY <3>1, <3>2
  <2> QED
    BY <2>1 DEF Dense
\* Where the entry of a slot was: no slot has the one that left.
<1>10. ASSUME NEW l \in Lists, NEW i \in 1 .. total'[l]
       PROVE  /\ (IF l = f THEN src(i) ELSE i) \in 1 .. total[l]
              /\ capDev'[l][i] = capDev[l][IF l = f THEN src(i) ELSE i]
              /\ i \in Slots
  <2>1. i \in Slots
    BY <1>8, SlotNumbers DEF TypeOK
  <2>2. CASE l = f
    BY <1>4, <1>5, <1>6, <1>10, <2>1, <2>2
  <2>3. CASE l # f
    BY <1>4, <1>5, <1>10, <2>1, <2>3
  <2> QED
    BY <2>2, <2>3
<1>11. Unique'
  <2>1. \A k \in 1 .. t : capDev[f][k].devNum = d => k = p
    BY <1>1, <1>3 DEF Unique
  <2>2. ASSUME NEW l \in Lists, NEW m \in Lists, NEW i \in 1 .. total'[l], NEW j \in 1 .. total'[m],
               capDev'[l][i].devNum = capDev'[m][j].devNum
        PROVE  l = m /\ i = j
    <3> DEFINE i0 == IF l = f THEN src(i) ELSE i
               j0 == IF m = f THEN src(j) ELSE j
    <3>1. /\ i0 \in 1 .. total[l] /\ j0 \in 1 .. total[m]
          /\ capDev[l][i0].devNum = capDev[m][j0].devNum
          /\ i \in Slots /\ j \in Slots
      <4>1. i0 \in 1 .. total[l] /\ capDev'[l][i] = capDev[l][i0] /\ i \in Slots
        BY <1>10
      <4>2. j0 \in 1 .. total[m] /\ capDev'[m][j] = capDev[m][j0] /\ j \in Slots
        BY <1>10
      <4> QED
        BY <2>2, <4>1, <4>2
    <3>2. (l = f => i0 # p) /\ (m = f => j0 # p)
      BY <1>6, <3>1
    <3> HIDE DEF i0, j0
    <3>3. l = m /\ i0 = j0
      BY <1>1, <2>1, <3>1, <3>2 DEF Unique
    <3>4. l = f => i \in 1 .. t - 1 /\ j \in 1 .. t - 1
      BY <1>5, <3>3
    <3> QED
      BY <1>6, <3>1, <3>3, <3>4 DEF i0, j0
  <2> QED
    BY <2>2 DEF Unique
<1>12. OwnCameraShown'
  <2>1. ASSUME NEW l \in Lists, NEW i \in Slots
        PROVE  LET e == capDev'[l][i] IN
               IF i <= total'[l] THEN e.curCamNum \in granted'[e.devNum] \cup NoCamera
               ELSE e.isOnline = 0 /\ e.curCamNum \in NoCamera
    <3>1. CASE l = f
      <4>1. capDev'[l][i] = capDev[f][src(i)] /\ src(i) \in Slots
        BY <1>4, <1>6, <3>1
      <4>2. i <= total'[l] <=> src(i) <= total[f]
        BY <1>5, <1>6, <3>1
      <4> QED
        BY <1>1, <1>3, <4>1, <4>2 DEF OwnCameraShown
    <3>2. CASE l # f
      BY <1>1, <1>4, <1>5, <3>2 DEF OwnCameraShown
    <3> QED
      BY <3>1, <3>2
  <2> QED
    BY <1>8, <2>1 DEF OwnCameraShown
<1>13. ShownUntilRegrouped'
  <2> SUFFICES ASSUME NEW x \in fresh, x # d
               PROVE  \E l \in Lists : \E i \in 1 .. total'[l] :
                        /\ capDev'[l][i].devNum = x
                        /\ capDev'[l][i].isOnline = 1 /\ capDev'[l][i].curCamNum = told[x]
    BY <1>1 DEF ShownUntilRegrouped, IndexOf
  <2>1. PICK l \in Lists : \E i \in 1 .. total[l] :
            capDev[l][i].devNum = x /\ capDev[l][i].isOnline = 1 /\ capDev[l][i].curCamNum = told[x]
    BY <1>1 DEF ShownUntilRegrouped, IndexOf
  <2>2. PICK i \in 1 .. total[l] :
            capDev[l][i].devNum = x /\ capDev[l][i].isOnline = 1 /\ capDev[l][i].curCamNum = told[x]
    BY <2>1
  <2>3. CASE l = f
    <3>1. i \in 1 .. t /\ i # p
      BY <1>3, <2>2, <2>3
    <3>2. PICK j \in 1 .. t - 1 : src(j) = i
      BY <1>7, <3>1
    <3>3. j \in Slots
      BY <1>3, <3>2, SlotNumbers
    <3>4. j \in 1 .. total'[f] /\ capDev'[f][j] = capDev[f][i]
      BY <1>4, <1>5, <3>2, <3>3
    <3> QED
      BY <2>2, <2>3, <3>4, <1>3
  <2>4. CASE l # f
    BY <1>4, <1>5, <2>2, <2>4
  <2> QED
    BY <2>3, <2>4
<1>14. Known'
  BY <1>1 DEF Known
<1>20. ASSUME NEW x \in ShownOnline, x # d
       PROVE  x \in ShownOnline'
  <2>1. PICK l \in Lists : \E j \in 1 .. total[l] :
            capDev[l][j].devNum = x /\ capDev[l][j].isOnline = 1
    BY DEF ShownOnline, IndexOf
  <2>2. PICK j \in 1 .. total[l] : capDev[l][j].devNum = x /\ capDev[l][j].isOnline = 1
    BY <2>1
  <2>3. j \in Slots
    BY <1>1, <2>2, InUse
  <2>4. CASE l = f
    <3>1. j \in 1 .. t /\ j # p
      BY <1>3, <1>20, <2>2, <2>4
    <3>2. PICK k \in 1 .. t - 1 : src(k) = j
      BY <1>7, <3>1
    <3>3. k \in Slots
      BY <1>3, <3>2, SlotNumbers
    <3>4. k \in 1 .. total'[f] /\ capDev'[f][k] = capDev[f][j]
      BY <1>4, <1>5, <3>2, <3>3
    <3> QED
      BY <1>3, <2>2, <2>4, <3>4 DEF ShownOnline, IndexOf
  <2>5. CASE l # f
    BY <1>4, <1>5, <2>2, <2>5 DEF ShownOnline, IndexOf
  <2> QED
    BY <2>4, <2>5
<1> QED
  BY <1>20, <1>9, <1>11, <1>12, <1>13, <1>14 DEF IInv

-----------------------------------------------------------------------------
(* Sessions and clients.                                                   *)

\* Writing one slot, but not whose it is, keeps the arrays dense and free of
\* duplicates.
LEMMA WriteSlot ==
    ASSUME TypeOK, Dense, Unique, NEW l \in Lists, NEW i \in Slots, NEW e \in Entry,
           e.devNum = capDev[l][i].devNum,
           capDev' = [capDev EXCEPT ![l] = [@ EXCEPT ![i] = e]],
           UNCHANGED <<total, leaving>>
    PROVE  /\ capDev' \in [Lists -> [Slots -> Entry]]
           /\ capDev'[l][i] = e
           /\ \A m \in Lists, j \in Slots : ~(m = l /\ j = i) => capDev'[m][j] = capDev[m][j]
           /\ \A m \in Lists, j \in Slots : capDev'[m][j].devNum = capDev[m][j].devNum
           /\ Dense' /\ Unique'
<1>1. capDev' \in [Lists -> [Slots -> Entry]]
  BY DEF TypeOK
<1>2. /\ capDev'[l][i] = e
      /\ \A m \in Lists, j \in Slots : ~(m = l /\ j = i) => capDev'[m][j] = capDev[m][j]
  BY DEF TypeOK
<1>3. \A m \in Lists, j \in Slots : capDev'[m][j].devNum = capDev[m][j].devNum
  BY <1>2
<1>4. Dense'
  BY <1>3 DEF Dense
<1>5. Unique'
  <2>1. \A m \in Lists : \A j \in 1 .. total[m] : j \in Slots
    BY SlotNumbers DEF TypeOK
  <2> QED
    BY <1>3, <2>1 DEF Unique
<1> QED
  BY <1>1, <1>2, <1>3, <1>4, <1>5

LEMMA GrantInv ==
    ASSUME IInv, NEW s \in Sessions, Grant(s)
    PROVE  IInv' /\ ShownOnline \subseteq ShownOnline'
<1>1. PICK d \in Devices \cup {NULL}, l \in Groups, c \in Cameras :
          /\ Listed(l, d)
          /\ session' = [session EXCEPT ![s] = [pc |-> "granted", dev |-> d, l |-> l, cam |-> c]]
  BY DEF Grant, IInv, OwnCameraShown, TypeOK
<1>2. /\ TypeOK /\ Dense /\ Known
      /\ UNCHANGED <<capDev, total, leaving, client, granted, told, fresh>>
  BY DEF IInv, OwnCameraShown, Grant, lists, ghosts
<1>3. d \in Devices /\ l \in Lists
  <2>1. l \in Lists
    BY DEF Lists
  <2>2. PICK i \in 1 .. total[l] : capDev[l][i].devNum = d
    BY <1>1 DEF Listed, IndexOf
  <2>3. i \in Slots /\ i <= total[l]
    BY <1>2, <2>1, InUse DEF TypeOK
  <2> QED
    BY <1>2, <2>1, <2>2, <2>3 DEF Dense
<1>4. TypeOK'
  BY <1>1, <1>2, <1>3 DEF TypeOK
<1>5. Known'
  BY <1>1, <1>2, <1>3 DEF Known, TypeOK
<1>6. OwnCameraShown' /\ ShownUntilRegrouped' /\ Dense' /\ Unique'
  BY <1>2, <1>4 DEF IInv, OwnCameraShown, ShownUntilRegrouped, IndexOf, Dense, Unique
<1>20. ShownOnline' = ShownOnline
  BY <1>2 DEF ShownOnline, IndexOf
<1> QED
  BY <1>20, <1>5, <1>6 DEF IInv

LEMMA RefusedInv ==
    ASSUME IInv, NEW s \in Sessions, Refused(s)
    PROVE  IInv' /\ ShownOnline \subseteq ShownOnline'
<1>1. PICK l \in Groups : session' = [session EXCEPT ![s] = [@ EXCEPT !.pc = "granted", !.l = l]]
  BY DEF Refused
<1>2. /\ TypeOK /\ Known /\ session[s].pc = "open" /\ l \in Lists
      /\ UNCHANGED <<capDev, total, leaving, client, granted, told, fresh>>
  BY DEF IInv, OwnCameraShown, Refused, lists, ghosts, Lists
<1>3. /\ \A u \in Sessions : u # s => session'[u] = session[u]
      /\ session'[s].dev = session[s].dev /\ session'[s].cam = session[s].cam
  BY <1>1, <1>2, SessionStep
<1>4. TypeOK'
  BY <1>1, <1>2, SessionStep DEF TypeOK
<1>5. Known'
  BY <1>2, <1>3 DEF Known
<1>6. OwnCameraShown' /\ ShownUntilRegrouped' /\ Dense' /\ Unique'
  BY <1>2, <1>4 DEF IInv, OwnCameraShown, ShownUntilRegrouped, IndexOf, Dense, Unique
<1>20. ShownOnline' = ShownOnline
  BY <1>2 DEF ShownOnline, IndexOf
<1> QED
  BY <1>20, <1>5, <1>6 DEF IInv

LEMMA DisconnectInv ==
    ASSUME IInv, NEW s \in Sessions, Disconnect(s)
    PROVE  IInv' /\ ShownOnline \subseteq ShownOnline'
<1>1. /\ TypeOK /\ Known /\ session' = [session EXCEPT ![s] = Off]
      /\ UNCHANGED <<capDev, total, leaving, client, granted, told, fresh>>
  BY DEF IInv, OwnCameraShown, Disconnect, lists, ghosts
<1>2. TypeOK'
  BY <1>1 DEF TypeOK, Off, Lists
<1>3. Known'
  BY <1>1 DEF Known, TypeOK, Off
<1>4. OwnCameraShown' /\ ShownUntilRegrouped' /\ Dense' /\ Unique'
  BY <1>1, <1>2 DEF IInv, OwnCameraShown, ShownUntilRegrouped, IndexOf, Dense, Unique
<1>20. ShownOnline' = ShownOnline
  BY <1>1 DEF ShownOnline, IndexOf
<1> QED
  BY <1>20, <1>3, <1>4 DEF IInv

\* The slot that is written is the device's own, in the mission the session was given.
LEMMA UpdateCapdevInv ==
    ASSUME IInv, NEW s \in Sessions, updateCapdev(s)
    PROVE  IInv' /\ ShownOnline \subseteq ShownOnline'
<1> DEFINE d == session[s].dev
           l == session[s].l
           cam == session[s].cam
<1>1. /\ TypeOK /\ Dense /\ Unique /\ Known /\ OwnCameraShown /\ ShownUntilRegrouped
      /\ session[s].pc = "granted"
      /\ session' = [session EXCEPT ![s].pc = "open"]
      /\ UNCHANGED <<total, leaving, client>>
  BY DEF IInv, OwnCameraShown, updateCapdev
<1>2. d \in Devices /\ cam \in Cameras /\ l \in Lists
  BY <1>1 DEF Known, TypeOK
<1>3. /\ session' \in [Sessions -> [pc : {"off", "open", "granted"}, dev : Devices \cup {NULL},
                                    l : Lists, cam : Cameras \cup {Absent}]]
      /\ \A u \in Sessions : session'[u].dev = session[u].dev /\ session'[u].cam = session[u].cam
      /\ \A u \in Sessions : u # s => session'[u] = session[u]
  <2>1. session' = [session EXCEPT ![s] = [@ EXCEPT !.pc = "open", !.l = l]]
    <3>1. session[s] \in [pc : {"off", "open", "granted"}, dev : Devices \cup {NULL},
                          l : Lists, cam : Cameras \cup {Absent}]
      BY <1>1 DEF TypeOK
    <3>2. [session[s] EXCEPT !.pc = "open"] = [session[s] EXCEPT !.pc = "open", !.l = l]
      BY <3>1
    <3> QED
      BY <1>1, <3>2 DEF TypeOK
  <2> QED
    BY <1>1, <1>2, <2>1, SessionStep
<1>4. Known'
  BY <1>1, <1>3 DEF Known
<1>5. CASE ~Listed(l, d)
  <2>1. UNCHANGED <<capDev, granted, told, fresh>>
    BY <1>5 DEF updateCapdev, ghosts
  <2>2. TypeOK'
    BY <1>1, <1>3, <2>1 DEF TypeOK
  <2>3. OwnCameraShown' /\ ShownUntilRegrouped' /\ Dense' /\ Unique'
    BY <1>1, <2>1, <2>2 DEF OwnCameraShown, ShownUntilRegrouped, IndexOf, Dense, Unique
  <2>4. ShownOnline' = ShownOnline
    BY <1>1, <2>1 DEF ShownOnline, IndexOf
  <2> QED
    BY <1>4, <2>3, <2>4 DEF IInv
<1>6. CASE Listed(l, d)
  <2>1. PICK i \in IndexOf(l, d) :
            capDev' = [capDev EXCEPT ![l][i].isOnline = 1, ![l][i].curCamNum = cam]
    BY <1>6 DEF updateCapdev
  <2>2. /\ granted' = [granted EXCEPT ![d] = @ \cup {cam}]
        /\ told' = [told EXCEPT ![d] = cam]
        /\ fresh' = fresh \cup {d}
    BY <1>6 DEF updateCapdev
  <2>3. i \in Slots /\ i \in 1 .. total[l] /\ capDev[l][i].devNum = d
    BY <1>1, <1>2, <2>1, SlotNumbers DEF IndexOf, TypeOK
  <2> DEFINE e == [devNum |-> d, isOnline |-> 1, curCamNum |-> cam]
  <2>4. e \in Entry
    BY <1>2 DEF Entry
  <2>5. capDev' = [capDev EXCEPT ![l] = [@ EXCEPT ![i] = e]]
    <3>1. capDev[l][i] \in Entry /\ capDev[l] \in [Slots -> Entry]
      BY <1>1, <1>2, <2>3 DEF TypeOK
    <3>2. [capDev[l][i] EXCEPT !.isOnline = 1, !.curCamNum = cam] = e
      <4>1. \A old \in Entry : [old EXCEPT !.isOnline = 1, !.curCamNum = cam]
                                 = [devNum |-> old.devNum, isOnline |-> 1, curCamNum |-> cam]
        <5> TAKE old \in Entry
        <5>1. old = [devNum |-> old.devNum, isOnline |-> old.isOnline, curCamNum |-> old.curCamNum]
          BY DEF Entry
        <5>2. [old EXCEPT !.isOnline = 1]
                = [devNum |-> old.devNum, isOnline |-> 1, curCamNum |-> old.curCamNum]
          BY <5>1
        <5>3. [old EXCEPT !.isOnline = 1, !.curCamNum = cam]
                = [[old EXCEPT !.isOnline = 1] EXCEPT !.curCamNum = cam]
          OBVIOUS
        <5>4. [[old EXCEPT !.isOnline = 1] EXCEPT !.curCamNum = cam]
                = [devNum |-> old.devNum, isOnline |-> 1, curCamNum |-> cam]
          <6>1. [[devNum |-> old.devNum, isOnline |-> 1, curCamNum |-> old.curCamNum] EXCEPT !.curCamNum = cam]
                  = [devNum |-> old.devNum, isOnline |-> 1, curCamNum |-> cam]
            OBVIOUS
          <6> QED
            BY Zenon, <5>2, <6>1
        <5> QED
          BY Zenon, <5>3, <5>4
      <4> QED
        BY <2>3, <3>1, <4>1
    <3> QED
      BY <1>1, <1>2, <2>1, <2>3, <3>1, <3>2 DEF TypeOK
  <2>6. /\ capDev' \in [Lists -> [Slots -> Entry]]
        /\ capDev'[l][i] = e
        /\ \A m \in Lists, j \in Slots : ~(m = l /\ j = i) => capDev'[m][j] = capDev[m][j]
        /\ \A m \in Lists, j \in Slots : capDev'[m][j].devNum = capDev[m][j].devNum
        /\ Dense' /\ Unique'
    BY <1>1, <1>2, <2>3, <2>4, <2>5, WriteSlot
  <2>7. TypeOK'
    <3>1. granted' \in [Devices -> SUBSET Cameras] /\ told' \in [Devices -> Cameras \cup {Absent}]
          /\ fresh' \in SUBSET Devices
      BY <1>1, <1>2, <2>2 DEF TypeOK
    <3> QED
      BY <1>1, <1>3, <2>6, <3>1 DEF TypeOK
  <2>8. /\ cam \in granted'[d] /\ told'[d] = cam
        /\ \A x \in Devices : granted[x] \subseteq granted'[x] /\ (x # d => told'[x] = told[x])
    BY <1>1, <1>2, <2>2 DEF TypeOK
  <2>9. OwnCameraShown'
    <3>1. ASSUME NEW m \in Lists, NEW j \in Slots
          PROVE  LET x == capDev'[m][j] IN
                 IF j <= total'[m] THEN x.curCamNum \in granted'[x.devNum] \cup NoCamera
                 ELSE x.isOnline = 0 /\ x.curCamNum \in NoCamera
      <4>1. CASE m = l /\ j = i
        <5>1. j <= total'[m]
          BY <1>1, <1>2, <2>3, <4>1 DEF TypeOK
        <5> QED
          BY <2>6, <2>8, <4>1, <5>1
      <4>2. CASE ~(m = l /\ j = i)
        <5>1. j <= total[m] => capDev[m][j].devNum \in Devices
          BY <1>1 DEF Dense
        <5> QED
          BY <1>1, <2>6, <2>8, <4>2, <5>1 DEF OwnCameraShown
      <4> QED
        BY <4>1, <4>2
    <3> QED
      BY <2>7, <3>1 DEF OwnCameraShown
  <2>10. ShownUntilRegrouped'
    <3> SUFFICES ASSUME NEW x \in fresh \cup {d}
                 PROVE  \E m \in Lists : \E j \in 1 .. total[m] :
                          /\ capDev'[m][j].devNum = x
                          /\ capDev'[m][j].isOnline = 1 /\ capDev'[m][j].curCamNum = told'[x]
      BY <1>1, <2>2 DEF ShownUntilRegrouped, IndexOf
    <3>1. CASE x = d
      BY <1>2, <2>3, <2>6, <2>8, <3>1
    <3>2. CASE x # d
      <4>1. PICK m \in Lists : \E j \in 1 .. total[m] :
                capDev[m][j].devNum = x /\ capDev[m][j].isOnline = 1 /\ capDev[m][j].curCamNum = told[x]
        BY <1>1, <3>2 DEF ShownUntilRegrouped, IndexOf
      <4>2. PICK j \in 1 .. total[m] :
                capDev[m][j].devNum = x /\ capDev[m][j].isOnline = 1 /\ capDev[m][j].curCamNum = told[x]
        BY <4>1
      <4>3. j \in Slots /\ x \in Devices
        BY <1>1, <1>2, <4>2, SlotNumbers DEF TypeOK
      <4> QED
        BY <2>3, <2>6, <2>8, <3>2, <4>2, <4>3
    <3> QED
      BY <3>1, <3>2
  <2>11. ASSUME NEW x \in ShownOnline
         PROVE  x \in ShownOnline'
    <3>1. PICK m \in Lists : \E j \in 1 .. total[m] :
              capDev[m][j].devNum = x /\ capDev[m][j].isOnline = 1
      BY DEF ShownOnline, IndexOf
    <3>2. PICK j \in 1 .. total[m] : capDev[m][j].devNum = x /\ capDev[m][j].isOnline = 1
      BY <3>1
    <3>3. j \in Slots
      BY <1>1, <3>2, InUse
    <3>4. capDev'[m][j].devNum = x /\ capDev'[m][j].isOnline = 1
      BY <2>6, <3>2, <3>3
    <3> QED
      BY <1>1, <3>2, <3>4 DEF ShownOnline, IndexOf
  <2> QED
    BY <1>4, <2>6, <2>9, <2>10, <2>11 DEF IInv
<1> QED
  BY <1>5, <1>6

LEMMA PackTestInv ==
    ASSUME IInv, NEW k \in Clients, PackTest(k)
    PROVE  IInv' /\ ShownOnline \subseteq ShownOnline'
<1>1. /\ TypeOK
      /\ UNCHANGED <<capDev, total, leaving, session, granted, told, fresh>>
  BY DEF IInv, OwnCameraShown, PackTest, lists, ghosts
<1>2. PICK l \in Lists : \E i \in 1 .. total[l] :
          client' = [client EXCEPT ![k] = [at |-> TRUE, l |-> l, i |-> i]]
  BY DEF PackTest
<1>3. PICK i \in 1 .. total[l] : client' = [client EXCEPT ![k] = [at |-> TRUE, l |-> l, i |-> i]]
  BY <1>2
<1>4. i \in Slots
  BY <1>1, InUse
<1>5. TypeOK'
  BY <1>1, <1>3, <1>4 DEF TypeOK
<1>20. ShownOnline' = ShownOnline
  BY <1>1 DEF ShownOnline, IndexOf
<1> QED
  BY <1>20, <1>1, <1>5 DEF IInv, OwnCameraShown, ShownUntilRegrouped, IndexOf, Dense, Unique, Known

\* Whatever the slot holds by now, no camera is shown in it from then on.
LEMMA PackWriteInv ==
    ASSUME IInv, NEW k \in Clients, PackWrite(k)
    PROVE  IInv' /\ ShownOnline \subseteq ShownOnline'
<1>0. TypeOK
  BY DEF IInv, OwnCameraShown
<1>2. PICK l \in Lists, i \in Slots : l = client[k].l /\ i = client[k].i
  BY <1>0 DEF TypeOK
<1>3. PICK old \in Entry : old = capDev[l][i]
  BY <1>0, EntryParts
<1>1. /\ TypeOK /\ Dense /\ Unique /\ Known /\ OwnCameraShown /\ ShownUntilRegrouped
      /\ capDev' = [capDev EXCEPT ![l][i].curCamNum = Minus1]
      /\ fresh' = fresh \ {old.devNum}
      /\ client' = [client EXCEPT ![k] = NoSlot]
      /\ UNCHANGED <<total, leaving, session, granted, told>>
  BY <1>2, <1>3 DEF IInv, OwnCameraShown, PackWrite
<1> DEFINE e == [devNum |-> old.devNum, isOnline |-> old.isOnline, curCamNum |-> Minus1]
<1>4. e \in Entry /\ e.devNum = capDev[l][i].devNum
  BY <1>3 DEF Entry, NoCamera
<1>5. capDev' = [capDev EXCEPT ![l] = [@ EXCEPT ![i] = e]]
  <2>1. [old EXCEPT !.curCamNum = Minus1] = e
    BY <1>3 DEF Entry
  <2> QED
    BY <1>1, <1>3, <2>1 DEF TypeOK
<1> HIDE DEF e
<1>6. /\ capDev' \in [Lists -> [Slots -> Entry]]
      /\ capDev'[l][i] = e
      /\ \A m \in Lists, j \in Slots : ~(m = l /\ j = i) => capDev'[m][j] = capDev[m][j]
      /\ Dense' /\ Unique'
  <2>1. TypeOK /\ Dense /\ Unique /\ UNCHANGED <<total, leaving>>
    BY <1>1
  <2>2. /\ capDev' \in [Lists -> [Slots -> Entry]]
        /\ capDev'[l][i] = e
        /\ \A m \in Lists, j \in Slots : ~(m = l /\ j = i) => capDev'[m][j] = capDev[m][j]
    <3>1. capDev \in [Lists -> [Slots -> Entry]]
      BY <2>1 DEF TypeOK
    <3> QED
      BY <1>4, <1>5, <3>1
  <2>3. Dense' /\ Unique'
    BY <1>4, <1>5, <2>1, WriteSlot
  <2> QED
    BY <2>2, <2>3
<1>6a. e.curCamNum = Minus1 /\ e.isOnline = old.isOnline
  BY DEF e
<1>7. TypeOK'
  <2>1. client' \in [Clients -> [at : BOOLEAN, l : Lists, i : Slots]]
    <3>1. NoSlot \in [at : BOOLEAN, l : Lists, i : Slots]
      BY SlotNumbers DEF NoSlot, Lists
    <3> QED
      BY <1>1, <3>1 DEF TypeOK
  <2> QED
    BY <1>1, <1>6, <2>1 DEF TypeOK
<1>8. OwnCameraShown'
  <2>1. ASSUME NEW m \in Lists, NEW j \in Slots
        PROVE  LET x == capDev'[m][j] IN
               IF j <= total'[m] THEN x.curCamNum \in granted'[x.devNum] \cup NoCamera
               ELSE x.isOnline = 0 /\ x.curCamNum \in NoCamera
    <3>1. CASE m = l /\ j = i
      <4>1. /\ capDev'[m][j].isOnline = capDev[m][j].isOnline
            /\ capDev'[m][j].curCamNum \in NoCamera
        BY <1>3, <1>6, <1>6a, <3>1 DEF NoCamera
      <4> QED
        BY <1>1, <4>1 DEF OwnCameraShown
    <3>2. CASE ~(m = l /\ j = i)
      BY <1>1, <1>6, <3>2 DEF OwnCameraShown
    <3> QED
      BY <3>1, <3>2
  <2> QED
    BY <1>7, <2>1 DEF OwnCameraShown
<1>9. ShownUntilRegrouped'
  <2> SUFFICES ASSUME NEW x \in fresh, x # old.devNum
               PROVE  \E m \in Lists : \E j \in 1 .. total[m] :
                        /\ capDev'[m][j].devNum = x
                        /\ capDev'[m][j].isOnline = 1 /\ capDev'[m][j].curCamNum = told[x]
    BY <1>1 DEF ShownUntilRegrouped, IndexOf
  <2>1. PICK m \in Lists : \E j \in 1 .. total[m] :
            capDev[m][j].devNum = x /\ capDev[m][j].isOnline = 1 /\ capDev[m][j].curCamNum = told[x]
    BY <1>1 DEF ShownUntilRegrouped, IndexOf
  <2>2. PICK j \in 1 .. total[m] :
            capDev[m][j].devNum = x /\ capDev[m][j].isOnline = 1 /\ capDev[m][j].curCamNum = told[x]
    BY <2>1
  <2>3. j \in Slots
    BY <1>1, <2>2, SlotNumbers DEF TypeOK
  <2> QED
    BY <1>3, <1>6, <2>2, <2>3
<1>10. Known'
  BY <1>1 DEF Known
<1>20. ASSUME NEW x \in ShownOnline
       PROVE  x \in ShownOnline'
  <2>1. PICK m \in Lists : \E j \in 1 .. total[m] :
            capDev[m][j].devNum = x /\ capDev[m][j].isOnline = 1
    BY DEF ShownOnline, IndexOf
  <2>2. PICK j \in 1 .. total[m] : capDev[m][j].devNum = x /\ capDev[m][j].isOnline = 1
    BY <2>1
  <2>3. j \in Slots
    BY <1>1, <2>2, InUse
  <2>4. capDev'[m][j].devNum = x /\ capDev'[m][j].isOnline = 1
    BY <1>3, <1>4, <1>6, <1>6a, <2>2, <2>3
  <2> QED
    BY <1>1, <2>2, <2>4 DEF ShownOnline, IndexOf
<1> QED
  BY <1>20, <1>6, <1>8, <1>9, <1>10 DEF IInv

-----------------------------------------------------------------------------

\* Every step keeps the invariant, and whom it shows no longer it has just removed.
LEMMA NextInv ==
    ASSUME IInv, [Next]_vars
    PROVE  /\ IInv'
           /\ \A d \in ShownOnline \ ShownOnline' : leaving.dev = d /\ leaving' = NotMoving
<1>1. ASSUME NEW d \in Devices, NEW from \in Lists, NEW to \in Lists, RegroupAdd(d, from, to)
      PROVE  IInv' /\ ShownOnline \subseteq ShownOnline'
  BY <1>1, RegroupAddInv
<1>2. CASE removeCapDev
  <2>1. leaving' = NotMoving
    BY <1>2 DEF removeCapDev
  <2> QED
    BY <1>2, <2>1, RemoveCapDevInv
<1>3. ASSUME NEW s \in Sessions, Grant(s) \/ Refused(s) \/ updateCapdev(s) \/ Disconnect(s)
      PROVE  IInv' /\ ShownOnline \subseteq ShownOnline'
  BY <1>3, GrantInv, RefusedInv, UpdateCapdevInv, DisconnectInv
<1>4. ASSUME NEW k \in Clients, PackTest(k) \/ PackWrite(k)
      PROVE  IInv' /\ ShownOnline \subseteq ShownOnline'
  BY <1>4, PackTestInv, PackWriteInv
<1>5. CASE UNCHANGED vars
  BY <1>5 DEF vars, IInv, OwnCameraShown, TypeOK, ShownUntilRegrouped, IndexOf, Dense, Unique,
              Known, ShownOnline
<1> QED
  BY <1>1, <1>2, <1>3, <1>4, <1>5 DEF Next

LEMMA Invariant == Spec => []IInv
<1>1. IInv /\ [Next]_vars => IInv'
  BY NextInv
<1> QED
  BY <1>1, InitInv, PTL DEF Spec

\* For any devices, sessions, clients and missions: no client is ever told that a
\* device has a camera it was not granted, in spite of the shifted and reused slots
\* of the arrays and the numbers clients write into slots they looked at before.
\* (CMission::addCapDev, removeCapDev, updateCapdev; packageCapDevinfo)
THEOREM OwnCamerasOnly == Spec => []OwnCameraShown
<1>1. IInv => OwnCameraShown
  BY DEF IInv
<1> QED
  BY <1>1, Invariant, PTL

\* What a grant wrote for a device stays there whatever happens to the others, for
\* removeCapDev moves every entry that stays along with its device.
\* (CMission::updateCapdev, removeCapDev)
THEOREM GrantsStayShown == Spec => []ShownUntilRegrouped
<1>1. IInv => ShownUntilRegrouped
  BY DEF IInv
<1> QED
  BY <1>1, Invariant, PTL

\* A device once shown online is shown offline by its own removal from a list only:
\* no disconnection and no step for another device does it.
\* (CMission::removeCapDev; session.h:203)
THEOREM OfflineByRemovalOnly == Spec => OfflineOnlyByRegrouping
<1>1. IInv /\ [Next]_vars =>
          [\A d \in ShownOnline \ ShownOnline' : leaving.dev = d /\ leaving' = NotMoving]_vars
  BY NextInv
<1> QED
  BY <1>1, Invariant, PTL DEF Spec, OfflineOnlyByRegrouping
=============================================================================
