---------------------------- MODULE DeviceEntries ----------------------------
(***************************************************************************)
(* What clients are told of a capture device: the entries of the missions' *)
(* capDev arrays, as sessions, regroupings and the updates of clients      *)
(* change them (CMission::addCapDev, removeCapDev, updateCapdev,           *)
(* CProtocolClientCfg::packageCapDevinfo).                                 *)
(*                                                                         *)
(* An entry is a CCaptureDevice that no session has: only a grant writes   *)
(* to it who is online with which camera, nothing clears it, and an entry  *)
(* for a regrouped device is a new one.  packageCapDevinfo fills in a      *)
(* missing camera number in the entry itself, without a lock.              *)
(*                                                                         *)
(* The shift of an array and the search of updateCapdev are one step each  *)
(* (both hold mu_SDC; a client that reads in between: ConfigWalk); which   *)
(* slot a client is at is left open.                                       *)
(***************************************************************************)
EXTENDS Integers, FiniteSets

CONSTANTS Devices,    \* numbers of devices with an entry
          Sessions,   \* their connections; a device may have several
          Clients,    \* configuration clients whose update() walks the lists
          Cameras,
          Groups,     \* mission numbers
          Unstart,    \* the list of the ungrouped
          NULL,       \* no device
          Absent,     \* curCamNum = ""
          Minus1      \* curCamNum = "-1"

ASSUME EntriesAssumption ==
    /\ IsFiniteSet(Devices)
    /\ Unstart \notin Groups
    /\ NULL \notin Devices
    /\ Absent # Minus1 /\ {Absent, Minus1} \cap Cameras = {}

Lists == Groups \cup {Unstart}
Slots == 1 .. Cardinality(Devices) + 2  \* an array never gets full (600)
NoCamera == {Absent, Minus1}

VARIABLES capDev,    \* per list, the slots of its array
          total,     \* per list, totalCapDev
          leaving,   \* mu is held: the device to remove from a list next
          session,   \* what each session is about to do, and for whom
          client,    \* the slot each client has found without a camera number
          granted,   \* ghost: cameras a device was granted and updateCapdev wrote
          told,      \* ghost: the camera last written for a device; Absent: none
          fresh      \* ghost: told is of the entry that is there now

vars == <<capDev, total, leaving, session, client, granted, told, fresh>>
lists == <<capDev, total, leaving>>
ghosts == <<granted, told, fresh>>

Entry == [devNum : Devices \cup {NULL}, isOnline : {0, 1}, curCamNum : Cameras \cup NoCamera]

\* What the constructor leaves, but for what nothing here looks at.
Empty == [devNum |-> NULL, isOnline |-> 0, curCamNum |-> Absent]

NotMoving == [dev |-> NULL, from |-> Unstart]
Off == [pc |-> "off", dev |-> NULL, l |-> Unstart, cam |-> Absent]
NoSlot == [at |-> FALSE, l |-> Unstart, i |-> 1]

TypeOK ==
    /\ capDev \in [Lists -> [Slots -> Entry]]
    /\ total \in [Lists -> 0 .. Cardinality(Devices) + 1]
    /\ leaving \in [dev : Devices \cup {NULL}, from : Lists]
    /\ session \in [Sessions -> [pc : {"off", "open", "granted"}, dev : Devices \cup {NULL},
                                 l : Lists, cam : Cameras \cup {Absent}]]
    /\ client \in [Clients -> [at : BOOLEAN, l : Lists, i : Slots]]
    /\ granted \in [Devices -> SUBSET Cameras]
    /\ told \in [Devices -> Cameras \cup {Absent}]
    /\ fresh \in SUBSET Devices

Added(array, n, d) == [array EXCEPT ![n + 1].devNum = d]

\* All devices begin where the database has them: here among the ungrouped.
Init ==
    /\ \E order \in {f \in [1 .. Cardinality(Devices) -> Devices] :
                        \A i, j \in 1 .. Cardinality(Devices) : f[i] = f[j] => i = j} :
          capDev = [l \in Lists |-> [i \in Slots |->
                      IF l = Unstart /\ i <= Cardinality(Devices)
                         THEN [Empty EXCEPT !.devNum = order[i]] ELSE Empty]]
    /\ total = [l \in Lists |-> IF l = Unstart THEN Cardinality(Devices) ELSE 0]
    /\ leaving = NotMoving
    /\ session = [s \in Sessions |-> Off]
    /\ client = [k \in Clients |-> NoSlot]
    /\ granted = [d \in Devices |-> {}]
    /\ told = [d \in Devices |-> Absent]
    /\ fresh = {}

-----------------------------------------------------------------------------
(* Regrouping.  It holds mu from its lookup to the end of the removal.     *)

IndexOf(l, d) == {i \in 1 .. total[l] : capDev[l][i].devNum = d}
Listed(l, d) == IndexOf(l, d) # {}

\* The slot past the end gets the device; isOnline and curCamNum are what it has.
addCapDev(to, d) ==
    /\ capDev' = [capDev EXCEPT ![to] = Added(@, total[to], d)]
    /\ total' = [total EXCEPT ![to] = @ + 1]

RegroupAdd(d, from, to) ==
    /\ leaving = NotMoving
    /\ from # to /\ Unstart \in {from, to}
    /\ Listed(from, d)
    /\ leaving' = [dev |-> d, from |-> from]
    /\ addCapDev(to, d)
    /\ UNCHANGED <<session, client, ghosts>>

\* Mutant: the last slot stays as it is.
MutRemoveCapDev ==
    /\ leaving # NotMoving
    /\ LET l == leaving.from IN
       \E i \in IndexOf(l, leaving.dev) :
          /\ capDev' = [capDev EXCEPT ![l] =
                           [j \in Slots |-> IF j \in i .. total[l] - 1 THEN capDev[l][j + 1]
                                            ELSE capDev[l][j]]]
          /\ total' = [total EXCEPT ![l] = @ - 1]
    /\ leaving' = NotMoving
    /\ fresh' = fresh \ {leaving.dev}
    /\ UNCHANGED <<session, client, granted, told>>

\* Every slot from the device's to the last takes what the next one has.
removeCapDev ==
    /\ leaving # NotMoving
    /\ LET l == leaving.from IN
       \E i \in IndexOf(l, leaving.dev) :
          /\ capDev' = [capDev EXCEPT ![l] =
                           [j \in Slots |-> IF j \in i .. total[l] THEN capDev[l][j + 1]
                                            ELSE capDev[l][j]]]
          /\ total' = [total EXCEPT ![l] = @ - 1]
    /\ leaving' = NotMoving
    /\ fresh' = fresh \ {leaving.dev}
    /\ UNCHANGED <<session, client, granted, told>>

-----------------------------------------------------------------------------
(* Sessions.                                                               *)

\* A login, or a heartbeat that finds no mission yet or the last one over:
\* MissionMatch, and a camera of the mission (SDCPool says which).
Grant(s) ==
    /\ leaving = NotMoving
    /\ session[s].pc # "granted"
    /\ \E d \in IF session[s].pc = "off" THEN Devices ELSE {session[s].dev},
          l \in Groups, c \in Cameras :
          /\ Listed(l, d)
          /\ session' = [session EXCEPT ![s] = [pc |-> "granted", dev |-> d, l |-> l, cam |-> c]]
    /\ UNCHANGED <<lists, client, ghosts>>

\* A heartbeat after a mission that is refused a camera keeps the last one, and
\* updates the entry all the same.
Refused(s) ==
    /\ leaving = NotMoving
    /\ session[s].pc = "open"
    /\ \E l \in Groups :
          /\ Listed(l, session[s].dev)
          /\ session' = [session EXCEPT ![s].pc = "granted", ![s].l = l]
    /\ UNCHANGED <<lists, client, ghosts>>

\* Mutant: the first entry is updated, whose ever it is.
MutUpdateCapdev(s) ==
    LET d == session[s].dev
        l == session[s].l
    IN /\ session[s].pc = "granted"
       /\ capDev' = IF Listed(l, d)
                       THEN [capDev EXCEPT ![l][1].isOnline = 1,
                                           ![l][1].curCamNum = session[s].cam]
                       ELSE capDev
       /\ IF Listed(l, d)
             THEN /\ granted' = [granted EXCEPT ![d] = @ \cup {session[s].cam}]
                  /\ told' = [told EXCEPT ![d] = session[s].cam]
                  /\ fresh' = fresh \cup {d}
             ELSE UNCHANGED ghosts
       /\ session' = [session EXCEPT ![s].pc = "open"]
       /\ UNCHANGED <<total, leaving, client>>

\* updateCapdev of the mission the device was found in, which it may have left:
\* then nothing is written.  In the middle of a regrouping the entry written may be
\* the one that is about to go.
updateCapdev(s) ==
    LET d == session[s].dev
        l == session[s].l
    IN /\ session[s].pc = "granted"
       /\ IF Listed(l, d)
             THEN /\ \E i \in IndexOf(l, d) :
                        capDev' = [capDev EXCEPT ![l][i].isOnline = 1,
                                                 ![l][i].curCamNum = session[s].cam]
                  /\ granted' = [granted EXCEPT ![d] = @ \cup {session[s].cam}]
                  /\ told' = [told EXCEPT ![d] = session[s].cam]
                  /\ fresh' = fresh \cup {d}
             ELSE UNCHANGED <<capDev, ghosts>>
       /\ session' = [session EXCEPT ![s].pc = "open"]
       /\ UNCHANGED <<total, leaving, client>>

\* Mutant: the entry is told.
MutDisconnect(s) ==
    /\ session[s].pc = "open"
    /\ capDev' = [l \in Lists |-> [i \in Slots |->
                     IF capDev[l][i].devNum = session[s].dev
                        THEN [capDev[l][i] EXCEPT !.isOnline = 0] ELSE capDev[l][i]]]
    /\ session' = [session EXCEPT ![s] = Off]
    /\ UNCHANGED <<total, leaving, client, ghosts>>

Disconnect(s) ==
    /\ session[s].pc = "open"
    /\ session' = [session EXCEPT ![s] = Off]
    /\ UNCHANGED <<lists, client, ghosts>>

-----------------------------------------------------------------------------
(* update() of a client packs the slot of some list.                       *)

\* The slot has no camera number.  (One that has is only read.)
PackTest(k) ==
    /\ ~client[k].at
    /\ \E l \in Lists : \E i \in 1 .. total[l] :
          /\ capDev[l][i].curCamNum = Absent
          /\ client' = [client EXCEPT ![k] = [at |-> TRUE, l |-> l, i |-> i]]
    /\ UNCHANGED <<lists, session, ghosts>>

\* curCamNum = "-1", in the slot that was tested, whatever it holds by now.
PackWrite(k) ==
    /\ client[k].at
    /\ LET l == client[k].l
           i == client[k].i
       IN /\ capDev' = [capDev EXCEPT ![l][i].curCamNum = Minus1]
          /\ fresh' = fresh \ {capDev[l][i].devNum}
    /\ client' = [client EXCEPT ![k] = NoSlot]
    /\ UNCHANGED <<total, leaving, session, granted, told>>

Next ==
    \/ \E d \in Devices, from, to \in Lists : RegroupAdd(d, from, to)
    \/ removeCapDev
    \/ \E s \in Sessions : Grant(s) \/ Refused(s) \/ updateCapdev(s) \/ Disconnect(s)
    \/ \E k \in Clients : PackTest(k) \/ PackWrite(k)

Spec == Init /\ [][Next]_vars

-----------------------------------------------------------------------------
(* Properties.                                                             *)

\* Clients are never told of a device that it has a camera it was not granted,
\* in spite of slots that change hands under a client.  Nor does a slot no device
\* is in say online or name a camera: addCapDev, which leaves these fields of the
\* slot alone, shows no device with what another left there.
OwnCameraShown ==
    /\ TypeOK
    /\ \A l \in Lists, i \in Slots : LET e == capDev[l][i] IN
          IF i <= total[l] THEN e.curCamNum \in granted[e.devNum] \cup NoCamera
          ELSE e.isOnline = 0 /\ e.curCamNum \in NoCamera

\* What a grant told is shown until the device is regrouped, or a client that
\* had found no camera there overwrites it: another device's grant, regrouping
\* or disconnection changes nothing.  (mission.cpp:342-372)
ShownUntilRegrouped ==
    \A d \in fresh : \E l \in Lists : \E i \in IndexOf(l, d) :
        capDev[l][i].isOnline = 1 /\ capDev[l][i].curCamNum = told[d]

ShownOnline == {d \in Devices : \E l \in Lists : \E i \in IndexOf(l, d) : capDev[l][i].isOnline = 1}

\* A device that was shown online stays so, connected or not, until it is
\* regrouped, and then it is shown offline, connected or not.  (session.h:203)
OfflineOnlyByRegrouping ==
    [][\A d \in ShownOnline \ ShownOnline' : leaving.dev = d /\ leaving' = NotMoving]_vars
=============================================================================
