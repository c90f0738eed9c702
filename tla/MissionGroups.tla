---------------------------- MODULE MissionGroups ----------------------------
(***************************************************************************)
(* Which mission a camera or capture device belongs to, kept three times:  *)
(* in the database (missionID of its row), by the list that holds its      *)
(* object (a CMission of G_MissionMap or G_missionUnstart), and in the     *)
(* object itself (missionNum, which is what clients are told).             *)
(* Configuration clients add and edit cameras, regroup cameras and devices *)
(* and add missions; every request is a statement on the database and one  *)
(* or two steps on the lists, and the process can end between any two.     *)
(*                                                                         *)
(* A list is known by its number, G_missionUnstart as NoGroup.  Objects    *)
(* with the same number in one list stand in the order they were added;    *)
(* of each only the missionNum is kept.  Cameras and devices have separate *)
(* lists and tables and never meet, so one function holds both.            *)
(*                                                                         *)
(* getSDC and getCapDev return no value when nothing matches.  Of what the *)
(* caller may then find, the model has NULL, and the end of the process,   *)
(* which is possible at any time (Restart).                                *)
(***************************************************************************)
EXTENDS Integers, Sequences

CONSTANTS Cams,     \* camera numbers
          CapDevs,  \* device numbers
          Groups,   \* mission numbers
          Clients,  \* sessions of configuration clients
          NULL      \* an unlocked mutex, no item

NoGroup == -1

Items == Cams \cup CapDevs
Lists == Groups \cup {NoGroup}

\* No row in the database.
NoRow == -2

ASSUME GroupsAssumption ==
    /\ Groups \subseteq Nat
    /\ NULL \notin Clients \cup Items

VARIABLES db,          \* missionID in the row of each item
          dbMissions,  \* rows of the table missions
          missions,    \* keys of G_MissionMap
          objs,        \* per list and item, the missionNum of the objects
          mu, cfg_mtx, \* the mutexes: the client whose handler holds them
          pc, req,     \* the step each client's handler is at, its request
          stray        \* ghost: items touched by one of the known events

disk   == <<db, dbMissions>>
memory == <<missions, objs>>
locks  == <<mu, cfg_mtx>>
vars   == <<disk, memory, locks, pc, req, stray>>

NoReq == [item |-> NULL, ori |-> NoGroup, dts |-> NoGroup]

TypeOK ==
    /\ db \in [Items -> Lists \cup {NoRow}]
    /\ dbMissions \in SUBSET Groups
    /\ missions \in SUBSET Groups
    /\ objs \in [Lists -> [Items -> Seq(Lists)]]
    /\ mu \in Clients \cup {NULL}
    /\ cfg_mtx \in Clients \cup {NULL}
    /\ pc \in [Clients -> {"idle", "addMem", "editList", "editUnstart",
                           "regroupAdd", "regroupRemove", "groupDb"}]
    /\ req \in [Clients -> [item : Items \cup {NULL}, ori : Lists, dts : Lists]]
    /\ stray \in SUBSET Items

\* The list an item belongs in by its row, when the missions are ms.
Home(n, ms) == IF db[n] \in ms THEN db[n] ELSE NoGroup

\* Mutant: a row whose mission is unknown is passed over.
MutLoad(ms) ==
    [l \in Lists |-> [n \in Items |-> IF db[n] = l /\ l \in ms THEN <<l>> ELSE <<>>]]

\* Loading: a row whose mission is unknown makes an ungrouped object.
Load(ms) ==
    [l \in Lists |-> [n \in Items |->
        IF db[n] # NoRow /\ l = Home(n, ms) THEN <<l>> ELSE <<>>]]

Init ==
    /\ db \in [Items -> Lists \cup {NoRow}]
    /\ dbMissions \in SUBSET Groups
    /\ missions = dbMissions
    /\ objs = Load(dbMissions)
    /\ mu = NULL
    /\ cfg_mtx = NULL
    /\ pc = [k \in Clients |-> "idle"]
    /\ req = [k \in Clients |-> NoReq]
    /\ stray = {}

-----------------------------------------------------------------------------
(* The lists.                                                              *)

addSDC(o, l, n, f) == [o EXCEPT ![l][n] = Append(@, f)]

removeSDC(o, l, n) == [o EXCEPT ![l][n] = IF @ = <<>> THEN @ ELSE Tail(@)]

\* The missionNum of the first object numbered n is set.
Relabel(o, l, n, f) ==
    [o EXCEPT ![l][n] = IF @ = <<>> THEN @ ELSE <<f>> \o Tail(@)]

\* The fields are copied into the first match; with missionNum -1 the object is
\* then taken off its list, and put on no other.
updateSDC(o, l, n, f) ==
    IF f = NoGroup THEN removeSDC(o, l, n) ELSE Relabel(o, l, n, f)

InList(l, n) == objs[l][n] # <<>>

\* No handler is at work on item n.
Quiet(n) == \A k \in Clients : req[k].item # n

-----------------------------------------------------------------------------
(* Requests.  The first step of each is its statement on the database; a   *)
(* failing statement is logged and the handler goes on.                    *)

\* Item n is stray from here on unless its request is of the expected kind.
Receive(k, step, n, ori, dts, expected) ==
    /\ pc[k] = "idle"
    /\ pc' = [pc EXCEPT ![k] = step]
    /\ req' = [req EXCEPT ![k] = [item |-> n, ori |-> ori, dts |-> dts]]
    /\ stray' = IF expected /\ Quiet(n) THEN stray ELSE stray \cup {n}

\* UPDATE ... WHERE: without a row nothing changes.
SetRow(n, g, ok) ==
    db' = IF ok /\ db[n] # NoRow THEN [db EXCEPT ![n] = g] ELSE db

\* Type 6.  camNum is the primary key: for a known number the INSERT fails.
AddCam(k, n, g, ok) ==
    /\ Receive(k, "addMem", n, NoGroup, g,
               ok /\ g = NoGroup /\ db[n] = NoRow /\ \A l \in Lists : ~InList(l, n))
    /\ db' = IF ok /\ db[n] = NoRow THEN [db EXCEPT ![n] = g] ELSE db
    /\ UNCHANGED <<dbMissions, memory, locks>>

Finish(k) ==
    /\ pc' = [pc EXCEPT ![k] = "idle"]
    /\ req' = [req EXCEPT ![k] = NoReq]

\* The new object is ungrouped whatever missionNum the request gave it.
AddCamMem(k) ==
    /\ pc[k] = "addMem"
    /\ cfg_mtx = NULL
    /\ objs' = addSDC(objs, NoGroup, req[k].item, req[k].dts)
    /\ Finish(k)
    /\ UNCHANGED <<disk, missions, locks, stray>>

\* Type 7, with the missionNum g among the fields edited.
EditCam(k, n, g, ok) ==
    /\ Receive(k, "editList", n, NoGroup, g, ok /\ g # NoGroup /\ g = Home(n, missions))
    /\ SetRow(n, g, ok)
    /\ UNCHANGED <<dbMissions, memory, locks>>

\* MissionUpdateSDC: the camera is added where it is not found.
MissionUpdateSDC(o, n, g) ==
    IF g \notin missions THEN o
    ELSE IF o[g][n] = <<>> THEN addSDC(o, g, n, g)
    ELSE updateSDC(o, g, n, g)

EditCamList(k) ==
    /\ pc[k] = "editList"
    /\ cfg_mtx = NULL
    /\ cfg_mtx' = k
    /\ LET n == req[k].item
           g == req[k].dts
       IN IF g = NoGroup
             THEN /\ objs' = updateSDC(objs, NoGroup, n, NoGroup)
             ELSE /\ mu = NULL
                  /\ objs' = MissionUpdateSDC(objs, n, g)
    /\ pc' = [pc EXCEPT ![k] = "editUnstart"]
    /\ UNCHANGED <<disk, missions, mu, req, stray>>

\* G_missionUnstart is updated in any case.
EditCamUnstart(k) ==
    /\ pc[k] = "editUnstart"
    /\ objs' = updateSDC(objs, NoGroup, req[k].item, req[k].dts)
    /\ cfg_mtx' = NULL
    /\ Finish(k)
    /\ UNCHANGED <<disk, missions, mu, stray>>

\* Type 8.  Expected: from the ungrouped to a mission, or from the mission the
\* item is in to the ungrouped.
Regroup(k, n, ori, dts, ok) ==
    /\ ori # dts
    /\ Receive(k, "regroupAdd", n, ori, dts,
               ok /\ ori = Home(n, missions) /\ (ori = NoGroup \/ dts = NoGroup))
    /\ SetRow(n, dts, ok)
    /\ UNCHANGED <<dbMissions, memory, locks>>

\* The list a regrouped item is put on: whatever dts is, an item that was in a
\* mission goes to the ungrouped.
Target(r) == IF r.ori = NoGroup THEN r.dts ELSE NoGroup

Regroupable(r) ==
    /\ (IF r.ori = NoGroup THEN r.dts ELSE r.ori) \in missions
    /\ InList(r.ori, r.item)

\* Mutant: the copy is made before missionNum is set.
MutRegroupAdd(k) ==
    /\ pc[k] = "regroupAdd"
    /\ mu = NULL
    /\ LET r == req[k] IN
       /\ Regroupable(r)
       /\ objs' = addSDC(objs, Target(r), r.item, Head(objs[r.ori][r.item]))
    /\ mu' = k
    /\ pc' = [pc EXCEPT ![k] = "regroupRemove"]
    /\ UNCHANGED <<disk, missions, cfg_mtx, req, stray>>

\* getSDC, the new missionNum and addSDC.  Only a second request on the same
\* item, which makes it stray, could come between them.
RegroupAdd(k) ==
    /\ pc[k] = "regroupAdd"
    /\ mu = NULL
    /\ LET r == req[k] IN
       \/ /\ Regroupable(r)
          /\ objs' = addSDC(Relabel(objs, r.ori, r.item, r.dts), Target(r), r.item, r.dts)
          /\ mu' = k
          /\ pc' = [pc EXCEPT ![k] = "regroupRemove"]
          /\ UNCHANGED req
       \/ /\ ~Regroupable(r)
          /\ Finish(k)
          /\ UNCHANGED <<objs, mu>>
    /\ UNCHANGED <<disk, missions, cfg_mtx, stray>>

RegroupRemove(k) ==
    /\ pc[k] = "regroupRemove"
    /\ objs' = removeSDC(objs, req[k].ori, req[k].item)
    /\ mu' = NULL
    /\ Finish(k)
    /\ UNCHANGED <<disk, missions, cfg_mtx, stray>>

\* Type 9: the map first, the table second.  Items whose rows already name the
\* new mission stay among the ungrouped.
AddGroup(k, g) ==
    /\ pc[k] = "idle"
    /\ mu = NULL
    /\ missions' = missions \cup {g}
    /\ pc' = [pc EXCEPT ![k] = "groupDb"]
    /\ req' = [req EXCEPT ![k] = [NoReq EXCEPT !.dts = g]]
    /\ stray' = stray \cup {n \in Items : g \notin missions /\ db[n] = g}
    /\ UNCHANGED <<disk, objs, locks>>

AddGroupDb(k, ok) ==
    /\ pc[k] = "groupDb"
    /\ dbMissions' = IF ok THEN dbMissions \cup {req[k].dts} ELSE dbMissions
    /\ Finish(k)
    /\ UNCHANGED <<db, memory, locks, stray>>

\* The process ends, at any point, and is started again on the same database.
Restart ==
    /\ missions' = dbMissions
    /\ objs' = Load(dbMissions)
    /\ mu' = NULL
    /\ cfg_mtx' = NULL
    /\ pc' = [k \in Clients |-> "idle"]
    /\ req' = [k \in Clients |-> NoReq]
    /\ stray' = {}
    /\ UNCHANGED disk

Handler(k) ==
    \/ AddCamMem(k) \/ EditCamList(k) \/ EditCamUnstart(k)
    \/ RegroupAdd(k) \/ RegroupRemove(k)

Next ==
    \/ Restart
    \/ \E k \in Clients :
          \/ Handler(k)
          \/ \E ok \in BOOLEAN :
                \/ AddGroupDb(k, ok)
                \/ \E n \in Cams, g \in Lists : AddCam(k, n, g, ok) \/ EditCam(k, n, g, ok)
                \/ \E n \in Items, ori, dts \in Lists : Regroup(k, n, ori, dts, ok)
          \/ \E g \in Groups : AddGroup(k, g)

Spec == Init /\ [][Next]_vars

-----------------------------------------------------------------------------
(* Properties.                                                             *)

\* While nobody is at work on an item, its row, the list it is on and the
\* missionNum of its one object agree, wherever the process ended meanwhile,
\* except for stray items until the next start.
AgreeUnlessStray ==
    \A n \in Items \ stray : Quiet(n) =>
        \A l \in Lists :
            objs[l][n] = IF db[n] # NoRow /\ l = Home(n, missions) THEN <<l>> ELSE <<>>

\* An item with a row is on some list at every moment, also while it is moved
\* from one to another: MissionMatch and getFreeSDC never miss it.
ListedUnlessStray ==
    \A n \in Items \ stray :
        db[n] # NoRow /\ (\A k \in Clients : pc[k] = "addMem" => req[k].item # n)
        => \E l \in Lists : InList(l, n)

\* A restart moves nothing: every item comes back on the list it was on, with
\* the same label, if all missions had reached the database.
RestartMovesNothing ==
    [][Restart /\ missions = dbMissions =>
          \A n \in Items \ stray : Quiet(n) =>
              \A l \in Lists : objs'[l][n] = objs[l][n]]_vars
=============================================================================
