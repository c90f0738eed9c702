------------------------- MODULE MissionGroupsProofs -------------------------
(***************************************************************************)
(* Proofs about MissionGroups, for any cameras, devices, missions and      *)
(* clients: an item that is not stray is where its row says whenever       *)
(* nobody is at work on it, is on some list at every moment, and is        *)
(* brought back there by a restart.  The strengthening says, step by step, *)
(* where the objects of an item are while one request is at work on it     *)
(* (Underway), and that no second request is (Alone).                      *)
(*                                                                         *)
(* Then about PresetRows, for any presets and any width of presetTotal:    *)
(* the objects of a camera have the presets of its rows, and a start loads *)
(* all rows.  Strengthened by what an add has inserted so far (Stored,     *)
(* RowsFit), which the next INSERT and the new object continue.            *)
(***************************************************************************)
EXTENDS PresetRows, SequenceTheorems, TLAPS

\* An item is where its row says.
Placed(n) ==
    \A l \in Lists :
        objs[l][n] = IF db[n] # NoRow /\ l = Home(n, missions) THEN <<l>> ELSE <<>>

\* What a handler has in hand: no item between two requests and while it adds a
\* mission, one otherwise.
InHand ==
    \A k \in Clients :
        /\ pc[k] \in {"idle", "groupDb"} => req[k].item = NULL
        /\ pc[k] \notin {"idle", "groupDb"} => req[k].item \in Items
        /\ pc[k] = "groupDb" => req[k].dts \in Groups

AddUnderway(n, r) ==
    /\ r.dts = NoGroup
    /\ db[n] = NoGroup
    /\ \A l \in Lists : objs[l][n] = <<>>

EditUnderway(n, r) ==
    /\ r.dts # NoGroup
    /\ r.dts = Home(n, missions)
    /\ Placed(n)

Between(n, r) ==
    /\ db[n] \in {r.dts, NoRow}
    /\ r.ori # NoGroup => r.ori \in missions
    /\ (r.ori = NoGroup) # (r.dts = NoGroup)

MoveUnderway(n, r) ==
    /\ Between(n, r)
    /\ \A l \in Lists :
          objs[l][n] = IF db[n] # NoRow /\ l = r.ori THEN <<l>> ELSE <<>>

MoveHalfDone(n, r) ==
    /\ Between(n, r)
    /\ db[n] = r.dts
    /\ r.ori = NoGroup => r.dts \in missions
    /\ \A l \in Lists :
          objs[l][n] = IF l \in {r.ori, r.dts} THEN <<r.dts>> ELSE <<>>

Underway(n, k) ==
    /\ pc[k] = "addMem" => AddUnderway(n, req[k])
    /\ pc[k] \in {"editList", "editUnstart"} => EditUnderway(n, req[k])
    /\ pc[k] = "regroupAdd" => MoveUnderway(n, req[k])
    /\ pc[k] = "regroupRemove" => MoveHalfDone(n, req[k])

Alone(n) == \A k1, k2 \in Clients : req[k1].item = n /\ req[k2].item = n => k1 = k2

ItemInv(n) ==
    /\ Quiet(n) => Placed(n)
    /\ Alone(n)
    /\ \A k \in Clients : req[k].item = n => Underway(n, k)

GInv == TypeOK /\ InHand /\ \A n \in Items \ stray : ItemInv(n)

USE GroupsAssumption

-----------------------------------------------------------------------------
(* The operators on the lists.                                             *)

LEMMA PlaceTypes ==
    ASSUME NEW o \in [Lists -> [Items -> Seq(Lists)]],
           NEW l \in Lists, NEW n \in Items, NEW f \in Lists
    PROVE  /\ addSDC(o, l, n, f) \in [Lists -> [Items -> Seq(Lists)]]
           /\ removeSDC(o, l, n) \in [Lists -> [Items -> Seq(Lists)]]
           /\ Relabel(o, l, n, f) \in [Lists -> [Items -> Seq(Lists)]]
<1> DEFINE q == o[l][n]
<1>1. q \in Seq(Lists)
  OBVIOUS
<1>2. Append(q, f) \in Seq(Lists) /\ <<f>> \in Seq(Lists)
  BY <1>1
<1>3. q # <<>> => Tail(q) \in Seq(Lists)
  BY <1>1
<1>4. q # <<>> => <<f>> \o Tail(q) \in Seq(Lists)
  BY <1>2, <1>3
<1>5. addSDC(o, l, n, f) \in [Lists -> [Items -> Seq(Lists)]]
  BY <1>2 DEF addSDC
<1>6. removeSDC(o, l, n) \in [Lists -> [Items -> Seq(Lists)]]
  BY <1>1, <1>3 DEF removeSDC
<1>7. Relabel(o, l, n, f) \in [Lists -> [Items -> Seq(Lists)]]
  BY <1>1, <1>4 DEF Relabel
<1> QED BY <1>5, <1>6, <1>7

\* An edit changes no place of another item and keeps the type.
LEMMA EditOperators ==
    ASSUME NEW o \in [Lists -> [Items -> Seq(Lists)]],
           NEW l \in Lists, NEW n \in Items, NEW f \in Lists, missions \in SUBSET Groups
    PROVE  /\ updateSDC(o, l, n, f) \in [Lists -> [Items -> Seq(Lists)]]
           /\ f \in Groups => MissionUpdateSDC(o, n, f) \in [Lists -> [Items -> Seq(Lists)]]
           /\ \A l2 \in Lists, n2 \in Items : n2 # n =>
                 /\ updateSDC(o, l, n, f)[l2][n2] = o[l2][n2]
                 /\ f \in Groups => MissionUpdateSDC(o, n, f)[l2][n2] = o[l2][n2]
<1>1. f \in Groups => f \in Lists
  BY DEF Lists
<1>2. updateSDC(o, l, n, f) \in [Lists -> [Items -> Seq(Lists)]]
  BY PlaceTypes DEF updateSDC
<1>3. ASSUME f \in Groups PROVE MissionUpdateSDC(o, n, f) \in [Lists -> [Items -> Seq(Lists)]]
  BY <1>1, <1>3, PlaceTypes DEF updateSDC, MissionUpdateSDC
<1>4. ASSUME NEW l2 \in Lists, NEW n2 \in Items, n2 # n
      PROVE  updateSDC(o, l, n, f)[l2][n2] = o[l2][n2]
  <2>1. /\ removeSDC(o, l, n)[l2][n2] = o[l2][n2]
        /\ Relabel(o, l, n, f)[l2][n2] = o[l2][n2]
    BY <1>4 DEF removeSDC, Relabel
  <2> QED BY <2>1 DEF updateSDC
<1>5. ASSUME NEW l2 \in Lists, NEW n2 \in Items, n2 # n, f \in Groups
      PROVE  MissionUpdateSDC(o, n, f)[l2][n2] = o[l2][n2]
  <2>1. /\ addSDC(o, f, n, f)[l2][n2] = o[l2][n2]
        /\ removeSDC(o, f, n)[l2][n2] = o[l2][n2]
        /\ Relabel(o, f, n, f)[l2][n2] = o[l2][n2]
    BY <1>1, <1>5 DEF addSDC, removeSDC, Relabel
  <2> QED BY <2>1 DEF updateSDC, MissionUpdateSDC
<1> QED BY <1>2, <1>3, <1>4, <1>5

LEMMA NotNoRow == NoRow \notin Lists /\ NoGroup \in Lists /\ NoGroup \notin Groups /\ Groups \subseteq Lists
BY DEF NoRow, NoGroup, Lists

LEMMA HomeType ==
    ASSUME TypeOK, NEW n \in Items
    PROVE  Home(n, missions) \in Lists /\ Home(n, dbMissions) \in Lists
BY NotNoRow DEF TypeOK, Home

-----------------------------------------------------------------------------
(* Type correctness.                                                       *)

LEMMA LoadType == ASSUME db \in [Items -> Lists \cup {NoRow}]
                  PROVE  Load(dbMissions) \in [Lists -> [Items -> Seq(Lists)]]
<1>1. \A l \in Lists : <<l>> \in Seq(Lists) /\ <<>> \in Seq(Lists)
  OBVIOUS
<1> QED BY <1>1 DEF Load

LEMMA InitGInv == Init => GInv
<1> SUFFICES ASSUME Init PROVE GInv
  OBVIOUS
<1> USE DEF Init
<1>1. NoReq \in [item : Items \cup {NULL}, ori : Lists, dts : Lists] /\ NoReq.item = NULL
  BY NotNoRow DEF NoReq
<1>2. TypeOK
  BY <1>1, LoadType DEF TypeOK
<1>3. \A k \in Clients : req[k].item \notin Items
  BY <1>1
<1>4. \A n \in Items : Placed(n)
  BY DEF Placed, Load, Home
<1> QED BY <1>1, <1>2, <1>3, <1>4 DEF GInv, InHand, ItemInv, Alone

\* What a step does not touch keeps its invariant.
LEMMA Untouched ==
    ASSUME NEW n \in Items, ItemInv(n),
           db'[n] = db[n],
           \A l \in Lists : objs'[l][n] = objs[l][n],
           missions \subseteq missions',
           Home(n, missions)' = Home(n, missions),
           \A k \in Clients : req[k].item = n \/ req'[k].item = n =>
               req'[k] = req[k] /\ pc'[k] = pc[k]
    PROVE  ItemInv(n)'
<1>1. Quiet(n)' => Quiet(n)
  BY DEF Quiet
<1>2. Placed(n)' <=> Placed(n)
  BY DEF Placed
<1>3. Alone(n)'
  BY DEF ItemInv, Alone
<1>4. ASSUME NEW k \in Clients, req'[k].item = n
      PROVE  Underway(n, k)'
  <2>1. Underway(n, k) /\ req'[k] = req[k] /\ pc'[k] = pc[k]
    BY <1>4 DEF ItemInv
  <2>2. AddUnderway(n, req[k]) => AddUnderway(n, req[k])'
    BY <2>1 DEF AddUnderway
  <2>3. EditUnderway(n, req[k]) => EditUnderway(n, req[k])'
    BY <2>1, <1>2 DEF EditUnderway
  <2>4. MoveUnderway(n, req[k]) => MoveUnderway(n, req[k])'
    BY <2>1 DEF MoveUnderway, Between
  <2>5. MoveHalfDone(n, req[k]) => MoveHalfDone(n, req[k])'
    BY <2>1 DEF MoveHalfDone, Between
  <2> QED BY <2>1, <2>2, <2>3, <2>4, <2>5 DEF Underway
<1> QED BY <1>1, <1>2, <1>3, <1>4 DEF ItemInv

\* Every step keeps the types, and what the handlers have in hand.
Types == TypeOK /\ InHand

LEMMA ReceiveTypes ==
    ASSUME Types, NEW k \in Clients, NEW n \in Items, NEW ori \in Lists, NEW dts \in Lists,
           NEW step \in {"addMem", "editList", "regroupAdd"}, NEW e \in BOOLEAN,
           Receive(k, step, n, ori, dts, e),
           db' \in [Items -> Lists \cup {NoRow}], UNCHANGED <<dbMissions, memory, locks>>
    PROVE  Types'
BY DEF Types, TypeOK, InHand, Receive, memory, locks

LEMMA FinishTypes ==
    ASSUME Types, NEW k \in Clients, Finish(k),
           objs' \in [Lists -> [Items -> Seq(Lists)]],
           dbMissions' \in SUBSET Groups,
           mu' \in Clients \cup {NULL}, cfg_mtx' \in Clients \cup {NULL},
           UNCHANGED <<db, missions, stray>>
    PROVE  Types'
<1>1. NoReq \in [item : Items \cup {NULL}, ori : Lists, dts : Lists] /\ NoReq.item = NULL
  BY NotNoRow DEF NoReq
<1> QED BY <1>1 DEF Types, TypeOK, InHand, Finish

LEMMA StepTypes == ASSUME Types, [Next]_vars PROVE Types'
<1>1. CASE Restart
  <2>1. NoReq \in [item : Items \cup {NULL}, ori : Lists, dts : Lists] /\ NoReq.item = NULL
    BY NotNoRow DEF NoReq
  <2> QED BY <1>1, <2>1, LoadType DEF Restart, Types, TypeOK, InHand, disk
<1>2. ASSUME NEW k \in Clients, NEW ok \in BOOLEAN, NEW n \in Cams, NEW g \in Lists, AddCam(k, n, g, ok)
      PROVE  Types'
  <2>1. n \in Items /\ NoGroup \in Lists
    BY NotNoRow DEF Items
  <2>2. db' \in [Items -> Lists \cup {NoRow}]
    BY <1>2, <2>1 DEF AddCam, Types, TypeOK
  <2> QED BY <1>2, <2>1, <2>2, ReceiveTypes DEF AddCam
<1>3. ASSUME NEW k \in Clients, NEW ok \in BOOLEAN, NEW n \in Cams, NEW g \in Lists, EditCam(k, n, g, ok)
      PROVE  Types'
  <2>1. n \in Items /\ NoGroup \in Lists
    BY NotNoRow DEF Items
  <2>2. db' \in [Items -> Lists \cup {NoRow}]
    BY <1>3, <2>1 DEF EditCam, SetRow, Types, TypeOK
  <2> QED BY <1>3, <2>1, <2>2, ReceiveTypes DEF EditCam
<1>4. ASSUME NEW k \in Clients, NEW ok \in BOOLEAN, NEW n \in Items, NEW ori \in Lists, NEW dts \in Lists,
             Regroup(k, n, ori, dts, ok)
      PROVE  Types'
  <2>1. db' \in [Items -> Lists \cup {NoRow}]
    BY <1>4 DEF Regroup, SetRow, Types, TypeOK
  <2> QED BY <1>4, <2>1, ReceiveTypes DEF Regroup
<1>5. ASSUME NEW k \in Clients, AddCamMem(k) PROVE Types'
  <2>1. objs' \in [Lists -> [Items -> Seq(Lists)]]
    BY <1>5, NotNoRow, PlaceTypes DEF AddCamMem, Types, TypeOK, InHand
  <2> QED BY <1>5, <2>1, FinishTypes DEF AddCamMem, Types, TypeOK, disk, locks
<1>6. ASSUME NEW k \in Clients, EditCamList(k) PROVE Types'
  <2>1. req[k].item \in Items /\ req[k].dts \in Lists /\ (req[k].dts # NoGroup => req[k].dts \in Groups)
    BY <1>6 DEF EditCamList, Types, TypeOK, InHand, Lists
  <2>2. objs' \in [Lists -> [Items -> Seq(Lists)]]
    <3>1. objs \in [Lists -> [Items -> Seq(Lists)]] /\ missions \in SUBSET Groups
      BY DEF Types, TypeOK
    <3>2. updateSDC(objs, NoGroup, req[k].item, NoGroup) \in [Lists -> [Items -> Seq(Lists)]]
      BY <2>1, <3>1, NotNoRow, EditOperators
    <3>3. req[k].dts # NoGroup
             => MissionUpdateSDC(objs, req[k].item, req[k].dts) \in [Lists -> [Items -> Seq(Lists)]]
      BY <2>1, <3>1, EditOperators
    <3> QED BY <1>6, <3>2, <3>3 DEF EditCamList
  <2> QED BY <1>6, <2>2 DEF EditCamList, Types, TypeOK, InHand, disk
<1>7. ASSUME NEW k \in Clients, EditCamUnstart(k) PROVE Types'
  <2>1. req[k].item \in Items /\ req[k].dts \in Lists
    BY <1>7 DEF EditCamUnstart, Types, TypeOK, InHand
  <2>2. objs' \in [Lists -> [Items -> Seq(Lists)]]
    BY <1>7, <2>1, NotNoRow, EditOperators DEF EditCamUnstart, Types, TypeOK
  <2> QED BY <1>7, <2>2, FinishTypes DEF EditCamUnstart, Types, TypeOK, disk
<1>8. ASSUME NEW k \in Clients, RegroupAdd(k) PROVE Types'
  <2>1. req[k].item \in Items /\ req[k].dts \in Lists /\ req[k].ori \in Lists /\ Target(req[k]) \in Lists
    BY <1>8, NotNoRow DEF RegroupAdd, Types, TypeOK, InHand, Target
  <2>2. objs \in [Lists -> [Items -> Seq(Lists)]]
    BY DEF Types, TypeOK
  <2>3. Relabel(objs, req[k].ori, req[k].item, req[k].dts) \in [Lists -> [Items -> Seq(Lists)]]
    BY <2>1, <2>2, PlaceTypes
  <2>4. addSDC(Relabel(objs, req[k].ori, req[k].item, req[k].dts), Target(req[k]), req[k].item, req[k].dts)
          \in [Lists -> [Items -> Seq(Lists)]]
    BY <2>1, <2>3, PlaceTypes
  <2>5. CASE Regroupable(req[k])
    BY <1>8, <2>4, <2>5 DEF RegroupAdd, Types, TypeOK, InHand, disk
  <2>6. CASE ~Regroupable(req[k])
    BY <1>8, <2>6, <2>2, FinishTypes DEF RegroupAdd, Types, TypeOK, disk
  <2> QED BY <2>5, <2>6
<1>9. ASSUME NEW k \in Clients, RegroupRemove(k) PROVE Types'
  <2>1. objs' \in [Lists -> [Items -> Seq(Lists)]]
    BY <1>9, NotNoRow, PlaceTypes DEF RegroupRemove, Types, TypeOK, InHand
  <2> QED BY <1>9, <2>1, FinishTypes DEF RegroupRemove, Types, TypeOK, disk
<1>10. ASSUME NEW k \in Clients, NEW g \in Groups, AddGroup(k, g) PROVE Types'
  <2>1. [NoReq EXCEPT !.dts = g] \in [item : Items \cup {NULL}, ori : Lists, dts : Lists]
    BY NotNoRow DEF NoReq
  <2>2. [NoReq EXCEPT !.dts = g].item = NULL /\ [NoReq EXCEPT !.dts = g].dts = g
    BY DEF NoReq
  <2> QED BY <1>10, <2>1, <2>2 DEF AddGroup, Types, TypeOK, InHand, disk, locks
<1>11. ASSUME NEW k \in Clients, NEW ok \in BOOLEAN, AddGroupDb(k, ok) PROVE Types'
  <2>1. req[k].dts \in Groups
    BY <1>11 DEF AddGroupDb, Types, InHand
  <2> QED BY <1>11, <2>1, FinishTypes DEF AddGroupDb, Types, TypeOK, memory, locks
<1>12. CASE UNCHANGED vars
  BY <1>12 DEF Types, TypeOK, InHand, vars, disk, memory, locks
<1> QED BY <1>1, <1>2, <1>3, <1>4, <1>5, <1>6, <1>7, <1>8, <1>9, <1>10, <1>11, <1>12
        DEF Next, Handler

-----------------------------------------------------------------------------
(* Where the objects are.                                                  *)

\* Receiving a request: the item is stray or was quiet and is as expected.
LEMMA ReceiveKeeps ==
    ASSUME GInv, NEW k \in Clients, NEW n \in Items, NEW ori \in Lists, NEW dts \in Lists,
           NEW step \in {"addMem", "editList", "regroupAdd"}, NEW e \in BOOLEAN,
           Receive(k, step, n, ori, dts, e),
           UNCHANGED <<dbMissions, memory, locks>>,
           \A m \in Items : m # n => db'[m] = db[m],
           n \notin stray /\ e /\ Placed(n) /\ Quiet(n) => Underway(n, k)'
    PROVE  \A m \in Items \ stray' : ItemInv(m)'
<1> SUFFICES ASSUME NEW m \in Items, m \notin stray' PROVE ItemInv(m)'
  OBVIOUS
<1>1. m \notin stray /\ ItemInv(m)
  BY DEF Receive, GInv
<1>2. req[k].item = NULL /\ req'[k].item = n /\ NULL \notin Items
  BY DEF Receive, GInv, TypeOK, InHand
<1>3. \A k2 \in Clients : k2 # k => req'[k2] = req[k2] /\ pc'[k2] = pc[k2]
  BY DEF Receive, GInv, TypeOK
<1>4. CASE m # n
  <2>1. \A k2 \in Clients : req[k2].item = m \/ req'[k2].item = m =>
               req'[k2] = req[k2] /\ pc'[k2] = pc[k2]
    BY <1>2, <1>3, <1>4
  <2>2. db'[m] = db[m] /\ objs' = objs /\ missions' = missions
    BY <1>4 DEF memory
  <2>3. Home(m, missions)' = Home(m, missions)
    BY <2>2 DEF Home
  <2> QED BY <1>1, <2>1, <2>2, <2>3, Untouched
<1>5. CASE m = n
  <2>1. e /\ Quiet(n) /\ Placed(n)
    BY <1>1, <1>5 DEF Receive, ItemInv
  <2>2. Underway(n, k)'
    BY <1>1, <1>5, <2>1
  <2>3. \A k2 \in Clients : req'[k2].item = n => k2 = k
    BY <1>3, <2>1 DEF Quiet
  <2>4. ~Quiet(n)' /\ Alone(n)'
    BY <1>2, <2>3 DEF Quiet, Alone
  <2> QED BY <1>5, <2>2, <2>3, <2>4 DEF ItemInv
<1> QED BY <1>4, <1>5

\* A step of a handler: the objects of its item only.
LEMMA HandlerKeeps ==
    ASSUME GInv, NEW k \in Clients, NEW n \in Items, req[k].item = n,
           UNCHANGED <<disk, missions, stray>>,
           \A l \in Lists, m \in Items : m # n => objs'[l][m] = objs[l][m],
           \A k2 \in Clients : k2 # k => req'[k2] = req[k2] /\ pc'[k2] = pc[k2],
           \/ /\ req'[k] = NoReq
              /\ n \notin stray /\ Underway(n, k) => Placed(n)'
           \/ /\ req'[k] = req[k]
              /\ n \notin stray /\ Underway(n, k) => Underway(n, k)'
    PROVE  \A m \in Items \ stray' : ItemInv(m)'
<1> SUFFICES ASSUME NEW m \in Items, m \notin stray' PROVE ItemInv(m)'
  OBVIOUS
<1>1. m \notin stray /\ ItemInv(m)
  BY DEF GInv
<1>2. NoReq.item \notin Items
  BY DEF NoReq
<1>3. CASE m # n
  <2>1. \A k2 \in Clients : req[k2].item = m \/ req'[k2].item = m =>
               req'[k2] = req[k2] /\ pc'[k2] = pc[k2]
    BY <1>2, <1>3
  <2>2. db'[m] = db[m] /\ missions' = missions /\ \A l \in Lists : objs'[l][m] = objs[l][m]
    BY <1>3 DEF disk
  <2>3. Home(m, missions)' = Home(m, missions)
    BY <2>2 DEF Home
  <2> QED BY <1>1, <2>1, <2>2, <2>3, Untouched
<1>4. CASE m = n
  <2>1. Underway(m, k) /\ \A k2 \in Clients : req[k2].item = m => k2 = k
    BY <1>1, <1>4 DEF ItemInv, Alone
  <2>2. \A k2 \in Clients : req'[k2].item = m => k2 = k /\ req'[k] = req[k]
    BY <1>2, <2>1
  <2>3. Alone(m)'
    BY <2>2 DEF Alone
  <2>4. CASE req'[k] = NoReq
    <3>1. Placed(m)'
      BY <1>1, <1>2, <1>4, <2>1, <2>4
    <3> QED BY <1>2, <2>2, <2>3, <2>4, <3>1 DEF ItemInv
  <2>5. CASE req'[k] = req[k] /\ Underway(m, k)'
    BY <1>4, <2>2, <2>3, <2>5 DEF ItemInv, Quiet
  <2> QED BY <1>1, <1>4, <2>1, <2>4, <2>5
<1> QED BY <1>3, <1>4

LEMMA AddCamKeeps ==
    ASSUME GInv, NEW k \in Clients, NEW ok \in BOOLEAN, NEW n \in Items, NEW g \in Lists,
           AddCam(k, n, g, ok)
    PROVE  \A m \in Items \ stray' : ItemInv(m)'
<1> DEFINE e == ok /\ g = NoGroup /\ db[n] = NoRow /\ \A l \in Lists : ~InList(l, n)
<1>1. TypeOK
  BY DEF GInv
<1>2. Receive(k, "addMem", n, NoGroup, g, e) /\ UNCHANGED <<dbMissions, memory, locks>>
  BY DEF AddCam
<1>3. \A m \in Items : m # n => db'[m] = db[m]
  BY <1>1 DEF AddCam, TypeOK
<1>4. ASSUME e PROVE Underway(n, k)'
  <2>1. pc'[k] = "addMem" /\ req'[k].dts = NoGroup
    BY <1>1, <1>2, <1>4 DEF Receive, TypeOK
  <2>2. db'[n] = NoGroup
    BY <1>1, <1>4 DEF AddCam, TypeOK
  <2>3. \A l \in Lists : objs'[l][n] = <<>>
    BY <1>2, <1>4 DEF InList, memory
  <2> QED BY <2>1, <2>2, <2>3 DEF Underway, AddUnderway
<1>5. e \in BOOLEAN /\ NoGroup \in Lists
  BY NotNoRow
<1> HIDE DEF e
<1> QED BY <1>2, <1>3, <1>4, <1>5, ReceiveKeeps

LEMMA EditCamKeeps ==
    ASSUME GInv, NEW k \in Clients, NEW ok \in BOOLEAN, NEW n \in Items, NEW g \in Lists,
           EditCam(k, n, g, ok)
    PROVE  \A m \in Items \ stray' : ItemInv(m)'
<1> DEFINE e == ok /\ g # NoGroup /\ g = Home(n, missions)
<1>1. TypeOK
  BY DEF GInv
<1>2. Receive(k, "editList", n, NoGroup, g, e) /\ UNCHANGED <<dbMissions, memory, locks>>
  BY DEF EditCam
<1>3. \A m \in Items : m # n => db'[m] = db[m]
  BY <1>1 DEF EditCam, SetRow, TypeOK
<1>4. ASSUME e, Placed(n) PROVE Underway(n, k)'
  <2>1. pc'[k] = "editList" /\ req'[k].dts = g
    BY <1>1, <1>2, <1>4 DEF Receive, TypeOK
  <2>2. db[n] = g /\ g \in missions
    BY <1>4 DEF Home
  <2>3. db'[n] = g
    BY <1>1, <2>2 DEF EditCam, SetRow, TypeOK
  <2>4. missions' = missions /\ objs' = objs
    BY <1>2 DEF memory
  <2>5. Home(n, missions)' = g
    BY <2>2, <2>3, <2>4 DEF Home
  <2>6. Placed(n)'
    BY <1>4, <2>2, <2>3, <2>4, <2>5 DEF Placed
  <2> QED BY <1>4, <2>1, <2>5, <2>6 DEF Underway, EditUnderway
<1>5. e \in BOOLEAN /\ NoGroup \in Lists
  BY NotNoRow
<1> HIDE DEF e
<1> QED BY <1>2, <1>3, <1>4, <1>5, ReceiveKeeps

LEMMA RegroupKeeps ==
    ASSUME GInv, NEW k \in Clients, NEW ok \in BOOLEAN, NEW n \in Items,
           NEW ori \in Lists, NEW dts \in Lists, Regroup(k, n, ori, dts, ok)
    PROVE  \A m \in Items \ stray' : ItemInv(m)'
<1> DEFINE e == ok /\ ori = Home(n, missions) /\ (ori = NoGroup \/ dts = NoGroup)
<1>1. TypeOK
  BY DEF GInv
<1>2. Receive(k, "regroupAdd", n, ori, dts, e) /\ UNCHANGED <<dbMissions, memory, locks>>
  BY DEF Regroup
<1>3. \A m \in Items : m # n => db'[m] = db[m]
  BY <1>1 DEF Regroup, SetRow, TypeOK
<1>4. ASSUME e, Placed(n) PROVE Underway(n, k)'
  <2>1. pc'[k] = "regroupAdd" /\ req'[k].ori = ori /\ req'[k].dts = dts
    BY <1>1, <1>2, <1>4 DEF Receive, TypeOK
  <2>2. missions' = missions /\ objs' = objs
    BY <1>2 DEF memory
  <2>3. db'[n] = IF db[n] = NoRow THEN NoRow ELSE dts
    BY <1>1, <1>4 DEF Regroup, SetRow, TypeOK
  <2>4. (ori = NoGroup) # (dts = NoGroup)
    BY <1>4 DEF Regroup
  <2>5. ori # NoGroup => ori \in missions
    BY <1>4 DEF Home
  <2>6. \A l \in Lists :
           objs'[l][n] = IF db'[n] # NoRow /\ l = ori THEN <<l>> ELSE <<>>
    BY <1>4, <2>2, <2>3, NotNoRow DEF Placed
  <2>7. Between(n, req[k])'
    BY <2>1, <2>2, <2>3, <2>4, <2>5 DEF Between
  <2> QED BY <2>1, <2>6, <2>7 DEF Underway, MoveUnderway
<1>5. e \in BOOLEAN
  OBVIOUS
<1> HIDE DEF e
<1> QED BY <1>2, <1>3, <1>4, <1>5, ReceiveKeeps

LEMMA AddCamMemKeeps ==
    ASSUME GInv, NEW k \in Clients, AddCamMem(k)
    PROVE  \A m \in Items \ stray' : ItemInv(m)'
<1> DEFINE n == req[k].item
           r == req[k]
<1>1. TypeOK /\ n \in Items /\ NoGroup \in Lists
  BY NotNoRow DEF GInv, InHand, AddCamMem
<1>2. objs' = addSDC(objs, NoGroup, n, r.dts)
  BY DEF AddCamMem
<1>3. \A l \in Lists, m \in Items : m # n => objs'[l][m] = objs[l][m]
  BY <1>1, <1>2 DEF addSDC, TypeOK
<1>4. UNCHANGED <<disk, missions, stray>>
  BY DEF AddCamMem
<1>5. req'[k] = NoReq /\ \A k2 \in Clients : k2 # k => req'[k2] = req[k2] /\ pc'[k2] = pc[k2]
  BY <1>1 DEF AddCamMem, Finish, TypeOK
<1>6. ASSUME NEW i \in Items, i = n, Underway(i, k) PROVE Placed(i)'
  <2>1. AddUnderway(i, r)
    BY <1>6 DEF AddCamMem, Underway
  <2>2. objs[NoGroup][i] = <<>> /\ r.dts = NoGroup
    BY <1>1, <2>1 DEF AddUnderway
  <2>3. objs'[NoGroup][i] = <<NoGroup>>
    BY <1>1, <1>2, <1>6, <2>2 DEF addSDC, TypeOK
  <2>4. \A l \in Lists : l # NoGroup => objs'[l][i] = <<>>
    BY <1>1, <1>2, <2>1 DEF AddUnderway, addSDC, TypeOK
  <2>5. db'[i] = NoGroup /\ Home(i, missions)' = NoGroup /\ NoGroup # NoRow
    BY <1>4, <2>1, NotNoRow DEF disk, AddUnderway, Home
  <2> QED BY <2>3, <2>4, <2>5 DEF Placed
<1> QED BY <1>1, <1>3, <1>4, <1>5, <1>6, HandlerKeeps

\* An edit of an item that stays where it is changes no object of the item.
LEMMA EditCamListKeeps ==
    ASSUME GInv, NEW k \in Clients, EditCamList(k)
    PROVE  \A m \in Items \ stray' : ItemInv(m)'
<1> DEFINE n == req[k].item
           g == req[k].dts
<1>1. /\ TypeOK /\ n \in Items /\ NoGroup \in Lists /\ g \in Lists
      /\ g # NoGroup => g \in Groups
  BY NotNoRow DEF GInv, InHand, EditCamList, TypeOK, Lists
<1>2. /\ objs \in [Lists -> [Items -> Seq(Lists)]] /\ missions \in SUBSET Groups
      /\ objs' = IF g = NoGroup THEN updateSDC(objs, NoGroup, n, NoGroup)
                                ELSE MissionUpdateSDC(objs, n, g)
  BY <1>1 DEF EditCamList, TypeOK
<1>3. \A l \in Lists, m \in Items : m # n => objs'[l][m] = objs[l][m]
  BY <1>1, <1>2 DEF updateSDC, MissionUpdateSDC, addSDC, removeSDC, Relabel
<1>4. UNCHANGED <<disk, missions, stray>>
  BY DEF EditCamList
<1>5. /\ req' = req /\ pc'[k] = "editUnstart"
      /\ \A k2 \in Clients : k2 # k => req'[k2] = req[k2] /\ pc'[k2] = pc[k2]
  BY <1>1 DEF EditCamList, TypeOK
<1>6. ASSUME NEW i \in Items, i = n, Underway(i, k) PROVE Underway(i, k)'
  <2>1. EditUnderway(i, req[k])
    BY <1>6 DEF EditCamList, Underway
  <2>2. g # NoGroup /\ g \in missions /\ db[i] = g /\ objs[g][i] = <<g>>
    BY <1>1, <2>1, NotNoRow DEF EditUnderway, Placed, Home
  <2>3. objs[g][n] # <<>>
    BY <1>6, <2>2
  <2>4. objs' = Relabel(objs, g, i, g)
    BY <1>2, <1>6, <2>2, <2>3 DEF MissionUpdateSDC, updateSDC
  <2>5. objs'[g][i] = <<g>>
    <3>1. <<g>> \o Tail(<<g>>) = <<g>> /\ <<g>> # <<>>
      BY <1>1
    <3> QED BY <1>1, <1>2, <2>2, <2>4, <3>1 DEF Relabel
  <2>6. \A l \in Lists : l # g => objs'[l][i] = objs[l][i]
    BY <1>1, <1>2, <2>4 DEF Relabel
  <2>7. \A l \in Lists : objs'[l][i] = objs[l][i]
    BY <2>2, <2>5, <2>6
  <2>8. Placed(i)' /\ Home(i, missions)' = Home(i, missions)
    BY <1>4, <2>1, <2>7 DEF disk, EditUnderway, Placed, Home
  <2> QED BY <1>5, <2>1, <2>8 DEF EditUnderway, Underway
<1> QED BY <1>1, <1>3, <1>4, <1>5, <1>6, HandlerKeeps

LEMMA EditCamUnstartKeeps ==
    ASSUME GInv, NEW k \in Clients, EditCamUnstart(k)
    PROVE  \A m \in Items \ stray' : ItemInv(m)'
<1> DEFINE n == req[k].item
           g == req[k].dts
<1>1. TypeOK /\ n \in Items /\ NoGroup \in Lists /\ g \in Lists
  BY NotNoRow DEF GInv, InHand, EditCamUnstart, TypeOK
<1>2. /\ objs \in [Lists -> [Items -> Seq(Lists)]] /\ missions \in SUBSET Groups
      /\ objs' = updateSDC(objs, NoGroup, n, g)
  BY <1>1 DEF EditCamUnstart, TypeOK
<1>3. \A l \in Lists, m \in Items : m # n => objs'[l][m] = objs[l][m]
  BY <1>1, <1>2 DEF updateSDC, MissionUpdateSDC, addSDC, removeSDC, Relabel
<1>4. UNCHANGED <<disk, missions, stray>>
  BY DEF EditCamUnstart
<1>5. req'[k] = NoReq /\ \A k2 \in Clients : k2 # k => req'[k2] = req[k2] /\ pc'[k2] = pc[k2]
  BY <1>1 DEF EditCamUnstart, Finish, TypeOK
<1>6. ASSUME NEW i \in Items, i = n, Underway(i, k) PROVE Placed(i)'
  <2>1. EditUnderway(i, req[k])
    BY <1>6 DEF EditCamUnstart, Underway
  <2>2. g # NoGroup /\ objs[NoGroup][i] = <<>>
    BY <1>1, <2>1 DEF EditUnderway, Placed
  <2>3. objs' = Relabel(objs, NoGroup, i, g)
    BY <1>2, <1>6, <2>2 DEF updateSDC
  <2>4. objs'[NoGroup][i] = <<>>
    BY <1>1, <1>2, <2>2, <2>3 DEF Relabel
  <2>5. \A l \in Lists : l # NoGroup => objs'[l][i] = objs[l][i]
    BY <1>1, <1>2, <2>3 DEF Relabel
  <2>6. \A l \in Lists : objs'[l][i] = objs[l][i]
    BY <2>2, <2>4, <2>5
  <2> QED BY <1>4, <2>1, <2>6 DEF disk, EditUnderway, Placed, Home
<1> QED BY <1>1, <1>3, <1>4, <1>5, <1>6, HandlerKeeps

LEMMA RegroupAddKeeps ==
    ASSUME GInv, NEW k \in Clients, RegroupAdd(k)
    PROVE  \A m \in Items \ stray' : ItemInv(m)'
<1> DEFINE n == req[k].item
           ori == req[k].ori
           dts == req[k].dts
<1>1. /\ TypeOK /\ n \in Items /\ NoGroup \in Lists /\ ori \in Lists /\ dts \in Lists
      /\ Target(req[k]) \in Lists
  BY NotNoRow DEF GInv, InHand, RegroupAdd, TypeOK, Target
<1>2. objs \in [Lists -> [Items -> Seq(Lists)]] /\ missions \in SUBSET Groups
  BY <1>1 DEF TypeOK
<1>3. UNCHANGED <<disk, missions, stray>>
  BY DEF RegroupAdd
<1>4. \A k2 \in Clients : k2 # k => req'[k2] = req[k2] /\ pc'[k2] = pc[k2]
  BY <1>1 DEF RegroupAdd, Finish, TypeOK
<1>5. CASE Regroupable(req[k])
  <2>1. /\ objs' = addSDC(Relabel(objs, ori, n, dts), Target(req[k]), n, dts)
        /\ pc'[k] = "regroupRemove" /\ req' = req
    BY <1>1, <1>5 DEF RegroupAdd, TypeOK
  <2>2. \A l \in Lists, m \in Items : m # n => objs'[l][m] = objs[l][m]
    BY <1>1, <1>2, <2>1 DEF addSDC, Relabel
  <2>3. ASSUME NEW i \in Items, i = n, Underway(i, k) PROVE Underway(i, k)'
    <3>1. MoveUnderway(i, req[k]) /\ objs[ori][i] # <<>>
      BY <1>5, <2>3 DEF RegroupAdd, Regroupable, InList, Underway
    <3>2. /\ db[i] = dts /\ ori # dts /\ objs[ori][i] = <<ori>>
          /\ \A l \in Lists : l # ori => objs[l][i] = <<>>
      BY <1>1, <3>1 DEF MoveUnderway, Between
    <3>3. Target(req[k]) = dts /\ (ori = NoGroup => dts \in missions)
      BY <1>5, <3>1 DEF Target, Regroupable, MoveUnderway, Between
    <3>4. Relabel(objs, ori, i, dts)[ori][i] = <<dts>>
      <4>1. <<dts>> \o Tail(<<ori>>) = <<dts>> /\ <<ori>> # <<>>
        BY <1>1
      <4> QED BY <1>1, <1>2, <3>2, <4>1 DEF Relabel
    <3>5. \A l \in Lists : l # ori => Relabel(objs, ori, i, dts)[l][i] = <<>>
      BY <1>1, <1>2, <3>2 DEF Relabel
    <3>6. Relabel(objs, ori, i, dts) \in [Lists -> [Items -> Seq(Lists)]]
      BY <1>1, <1>2, PlaceTypes
    <3> DEFINE o == Relabel(objs, ori, i, dts)
    <3>7. objs' = addSDC(o, dts, i, dts)
      BY <2>1, <2>3, <3>3
    <3> HIDE DEF o
    <3>8. objs'[dts][i] = <<dts>>
      <4>1. o[dts][i] = <<>>
        BY <1>1, <3>2, <3>5 DEF o
      <4>2. objs'[dts][i] = Append(o[dts][i], dts)
        BY <1>1, <3>6, <3>7 DEF o, addSDC
      <4> QED BY <1>1, <4>1, <4>2
    <3>9. objs'[ori][i] = <<dts>> /\ \A l \in Lists : l # ori /\ l # dts => objs'[l][i] = <<>>
      BY <1>1, <3>2, <3>4, <3>5, <3>6, <3>7 DEF o, addSDC
    <3>10. MoveHalfDone(i, req[k])'
      BY <1>3, <2>1, <3>1, <3>2, <3>3, <3>8, <3>9 DEF MoveHalfDone, MoveUnderway, Between, disk
    <3> QED BY <2>1, <3>10 DEF Underway
  <2> QED BY <1>1, <1>3, <1>4, <2>1, <2>2, <2>3, HandlerKeeps
\* Given up: the item has no row, or the mission it should join does not exist.
<1>6. CASE ~Regroupable(req[k])
  <2>1. objs' = objs /\ req'[k] = NoReq
    BY <1>1, <1>6 DEF RegroupAdd, Finish, TypeOK
  <2>2. ASSUME NEW i \in Items, i = n, Underway(i, k) PROVE Placed(i)'
    <3>1. MoveUnderway(i, req[k])
      BY <2>2 DEF RegroupAdd, Underway
    <3>2. CASE db[i] = NoRow
      BY <1>3, <2>1, <3>1, <3>2 DEF MoveUnderway, Placed, disk
    <3>3. CASE db[i] # NoRow
      <4>1. objs[ori][i] = <<ori>> /\ <<ori>> # <<>>
        BY <1>1, <3>1, <3>3 DEF MoveUnderway
      <4>2. ori = NoGroup /\ db[i] = dts /\ dts \notin missions
        BY <1>6, <2>2, <3>1, <3>3, <4>1 DEF Regroupable, InList, MoveUnderway, Between
      <4>3. Home(i, missions)' = NoGroup
        BY <1>3, <4>2 DEF Home, disk
      <4> QED BY <1>3, <2>1, <3>1, <3>3, <4>2, <4>3 DEF MoveUnderway, Placed, disk
    <3> QED BY <3>2, <3>3
  <2> QED BY <1>1, <1>3, <1>4, <2>1, <2>2, HandlerKeeps
<1> QED BY <1>5, <1>6

LEMMA RegroupRemoveKeeps ==
    ASSUME GInv, NEW k \in Clients, RegroupRemove(k)
    PROVE  \A m \in Items \ stray' : ItemInv(m)'
<1> DEFINE n == req[k].item
           ori == req[k].ori
           dts == req[k].dts
<1>1. TypeOK /\ n \in Items /\ NoGroup \in Lists /\ ori \in Lists /\ dts \in Lists
  BY NotNoRow DEF GInv, InHand, RegroupRemove, TypeOK
<1>2. objs \in [Lists -> [Items -> Seq(Lists)]] /\ missions \in SUBSET Groups
  BY <1>1 DEF TypeOK
<1>3. UNCHANGED <<disk, missions, stray>> /\ objs' = removeSDC(objs, ori, n)
  BY DEF RegroupRemove
<1>4. req'[k] = NoReq /\ \A k2 \in Clients : k2 # k => req'[k2] = req[k2] /\ pc'[k2] = pc[k2]
  BY <1>1 DEF RegroupRemove, Finish, TypeOK
<1>5. \A l \in Lists, m \in Items : m # n => objs'[l][m] = objs[l][m]
  BY <1>1, <1>2, <1>3 DEF removeSDC
<1>6. ASSUME NEW i \in Items, i = n, Underway(i, k) PROVE Placed(i)'
  <2>1. MoveHalfDone(i, req[k])
    BY <1>6 DEF RegroupRemove, Underway
  <2>2. /\ db[i] = dts /\ ori # dts /\ objs[ori][i] = <<dts>>
        /\ \A l \in Lists : l # ori => objs[l][i] = IF l = dts THEN <<l>> ELSE <<>>
    BY <1>1, <2>1 DEF MoveHalfDone, Between
  <2>3. Tail(<<dts>>) = <<>> /\ <<dts>> # <<>>
    BY <1>1
  <2>4. objs'[ori][i] = <<>>
    BY <1>1, <1>2, <1>3, <1>6, <2>2, <2>3 DEF removeSDC
  <2>5. \A l \in Lists : l # ori => objs'[l][i] = objs[l][i]
    BY <1>1, <1>2, <1>3 DEF removeSDC
  <2>6. Home(i, missions)' = dts
    BY <1>3, <2>1, <2>2 DEF Home, disk, MoveHalfDone, Between
  <2>7. db'[i] # NoRow
    BY <1>1, <1>3, <2>2, NotNoRow DEF disk
  <2> QED BY <2>2, <2>4, <2>5, <2>6, <2>7 DEF Placed
<1> QED BY <1>1, <1>3, <1>4, <1>5, <1>6, HandlerKeeps

LEMMA AddGroupKeeps ==
    ASSUME GInv, NEW k \in Clients, NEW g \in Groups, AddGroup(k, g)
    PROVE  \A m \in Items \ stray' : ItemInv(m)'
<1> SUFFICES ASSUME NEW m \in Items, m \notin stray' PROVE ItemInv(m)'
  OBVIOUS
<1>1. TypeOK /\ InHand /\ m \notin stray /\ ItemInv(m) /\ (g \in missions \/ db[m] # g)
  BY DEF GInv, AddGroup
<1>2. /\ missions' = missions \cup {g} /\ UNCHANGED <<db, objs>>
  BY DEF AddGroup, disk
<1>3. Home(m, missions)' = Home(m, missions)
  BY <1>1, <1>2 DEF Home
<1>4. \A k2 \in Clients : req[k2].item = m \/ req'[k2].item = m =>
             req'[k2] = req[k2] /\ pc'[k2] = pc[k2]
  <2>1. [NoReq EXCEPT !.dts = g].item = NULL
    BY DEF NoReq
  <2>2. req[k].item # m /\ req'[k].item # m
    BY <1>1, <2>1 DEF AddGroup, InHand, TypeOK
  <2> QED BY <1>1, <2>2 DEF AddGroup, TypeOK
<1> QED BY <1>1, <1>2, <1>3, <1>4, Untouched

LEMMA AddGroupDbKeeps ==
    ASSUME GInv, NEW k \in Clients, NEW ok \in BOOLEAN, AddGroupDb(k, ok)
    PROVE  \A m \in Items \ stray' : ItemInv(m)'
<1> SUFFICES ASSUME NEW m \in Items, m \notin stray' PROVE ItemInv(m)'
  OBVIOUS
<1>1. TypeOK /\ InHand /\ m \notin stray /\ ItemInv(m)
  BY DEF GInv, AddGroupDb
<1>2. UNCHANGED <<db, missions, objs>>
  BY DEF AddGroupDb, memory
<1>3. Home(m, missions)' = Home(m, missions)
  BY <1>2 DEF Home
<1>4. \A k2 \in Clients : req[k2].item = m \/ req'[k2].item = m =>
             req'[k2] = req[k2] /\ pc'[k2] = pc[k2]
  <2>1. req[k].item # m /\ req'[k].item # m
    BY <1>1 DEF AddGroupDb, Finish, InHand, TypeOK, NoReq
  <2> QED BY <1>1, <2>1 DEF AddGroupDb, Finish, TypeOK
<1> QED BY <1>1, <1>2, <1>3, <1>4, Untouched

LEMMA RestartKeeps ==
    ASSUME TypeOK, Restart
    PROVE  \A m \in Items : ItemInv(m)'
<1>1. \A k \in Clients : req'[k].item \notin Items
  BY DEF Restart, NoReq
<1>2. \A m \in Items : Placed(m)'
  <2>1. db' = db /\ missions' = dbMissions /\ objs' = Load(dbMissions)
    BY DEF Restart, disk
  <2>2. \A m \in Items : Home(m, missions)' = Home(m, dbMissions)
    BY <2>1 DEF Home
  <2> QED BY <2>1, <2>2 DEF Placed, Load
<1> QED BY <1>1, <1>2 DEF ItemInv, Alone

LEMMA StepGInv == ASSUME GInv, [Next]_vars PROVE GInv'
<1> DEFINE ItemsKept == \A m \in Items \ stray' : ItemInv(m)'
<1>1. Types'
  BY StepTypes DEF GInv, Types
<1>2. ItemsKept
  <2>1. CASE Restart
    BY <2>1, RestartKeeps DEF GInv
  <2>2. ASSUME NEW k \in Clients, Handler(k) PROVE ItemsKept
    BY <2>2, AddCamMemKeeps, EditCamListKeeps, EditCamUnstartKeeps, RegroupAddKeeps,
       RegroupRemoveKeeps DEF Handler
  <2>3. ASSUME NEW k \in Clients, NEW g \in Groups, AddGroup(k, g) PROVE ItemsKept
    BY <2>3, AddGroupKeeps
  <2>4. ASSUME NEW k \in Clients, NEW ok \in BOOLEAN, AddGroupDb(k, ok) PROVE ItemsKept
    BY <2>4, AddGroupDbKeeps
  <2>5. ASSUME NEW k \in Clients, NEW ok \in BOOLEAN, NEW n \in Cams, NEW g \in Lists,
               AddCam(k, n, g, ok) \/ EditCam(k, n, g, ok)
        PROVE  ItemsKept
    <3>1. n \in Items
      BY DEF Items
    <3> QED BY <2>5, <3>1, AddCamKeeps, EditCamKeeps
  <2>6. ASSUME NEW k \in Clients, NEW ok \in BOOLEAN, NEW n \in Items,
               NEW ori \in Lists, NEW dts \in Lists, Regroup(k, n, ori, dts, ok)
        PROVE  ItemsKept
    BY <2>6, RegroupKeeps
  <2>7. CASE UNCHANGED vars
    BY <2>7 DEF GInv, ItemInv, Quiet, Placed, Home, Alone, Underway, AddUnderway, EditUnderway,
                MoveUnderway, MoveHalfDone, Between, vars, disk, memory, locks
  <2> QED BY <2>1, <2>2, <2>3, <2>4, <2>5, <2>6, <2>7 DEF Next
<1> QED BY <1>1, <1>2 DEF GInv, Types

-----------------------------------------------------------------------------
(* Theorems.                                                               *)

LEMMA Invariance == Spec => []GInv
BY InitGInv, StepGInv, PTL DEF Spec

\* Every variable keeps its type, however the requests of the clients overlap.
THEOREM TypeCorrect == Spec => []TypeOK
<1>1. GInv => TypeOK
  BY DEF GInv
<1> QED BY <1>1, Invariance, PTL

\* Row, list and label of an item that is not stray agree whenever no handler
\* is at work on it, whatever the other clients do and wherever a crash fell.
THEOREM AgreementHolds == Spec => []AgreeUnlessStray
<1>1. GInv => AgreeUnlessStray
  BY DEF GInv, ItemInv, Placed, AgreeUnlessStray
<1> QED BY <1>1, Invariance, PTL

\* Moving an item never leaves it off every list: the copy is put on the new
\* list before the old object is taken away.
THEOREM AlwaysListed == Spec => []ListedUnlessStray
<1>1. ASSUME GInv, NEW n \in Items \ stray, db[n] # NoRow,
             \A k \in Clients : pc[k] = "addMem" => req[k].item # n
      PROVE  \E l \in Lists : InList(l, n)
  <2>1. TypeOK /\ InHand /\ ItemInv(n) /\ \A f \in Lists : <<f>> # <<>>
    BY <1>1 DEF GInv
  <2>2. ASSUME Placed(n) PROVE \E l \in Lists : InList(l, n)
    <3>1. Home(n, missions) \in Lists
      BY <2>1, HomeType
    <3>2. objs[Home(n, missions)][n] = <<Home(n, missions)>>
      BY <1>1, <2>2, <3>1 DEF Placed
    <3> QED BY <2>1, <3>1, <3>2 DEF InList
  <2>3. ASSUME NEW k \in Clients, req[k].item = n PROVE \E l \in Lists : InList(l, n)
    <3>1. /\ pc[k] \in {"editList", "editUnstart", "regroupAdd", "regroupRemove"}
          /\ req[k].ori \in Lists /\ req[k].dts \in Lists /\ Underway(n, k)
      BY <1>1, <2>1, <2>3 DEF TypeOK, InHand, ItemInv
    <3>2. CASE pc[k] \in {"editList", "editUnstart"}
      BY <2>2, <3>1, <3>2 DEF Underway, EditUnderway
    <3>3. CASE pc[k] = "regroupAdd"
      <4>1. objs[req[k].ori][n] = <<req[k].ori>>
        BY <1>1, <3>1, <3>3 DEF Underway, MoveUnderway
      <4> QED BY <2>1, <3>1, <4>1 DEF InList
    <3>4. CASE pc[k] = "regroupRemove"
      <4>1. objs[req[k].ori][n] = <<req[k].dts>>
        BY <3>1, <3>4 DEF Underway, MoveHalfDone
      <4> QED BY <2>1, <3>1, <4>1 DEF InList
    <3> QED BY <3>1, <3>2, <3>3, <3>4
  <2> QED BY <2>1, <2>2, <2>3 DEF ItemInv, Quiet
<1>2. GInv => ListedUnlessStray
  BY <1>1 DEF ListedUnlessStray
<1> QED BY <1>2, Invariance, PTL

\* A restart puts every quiet item back on the list it was on.
THEOREM NothingMoves == Spec => RestartMovesNothing
<1>1. ASSUME GInv, Restart, missions = dbMissions, NEW n \in Items \ stray, Quiet(n),
             NEW l \in Lists
      PROVE  objs'[l][n] = objs[l][n]
  BY <1>1 DEF GInv, ItemInv, Placed, Restart, Load
<1>2. GInv /\ [Next]_vars =>
         [Restart /\ missions = dbMissions =>
             \A n \in Items \ stray : Quiet(n) =>
                 \A l \in Lists : objs'[l][n] = objs[l][n]]_vars
  BY <1>1
<1> QED BY <1>2, Invariance, PTL DEF Spec, RestartMovesNothing

-----------------------------------------------------------------------------
(* The presets of the cameras (module PresetRows).                         *)

\* Cameras are added and edited; what is regrouped may be a device.
CamsInHand ==
    \A k \in Clients :
        /\ pc[k] \in {"addMem", "editList", "editUnstart"} => req[k].item \in Cams
        /\ pc[k] \in {"regroupAdd", "regroupRemove"} => req[k].item \in Items

\* A camera being edited is recorded.
EditsKnown ==
    \A k \in Clients : pc[k] \in {"editList", "editUnstart"} => req[k].item \in edited

\* presetTotal counts the presets of any message; the loop is at one of them or
\* has done them all.
MessagesFit ==
    \A k \in Clients : Len(sdcCfg[k]) < Width /\ next[k] <= Len(sdcCfg[k]) + 1

\* The rows of a camera added once: as many as its message had, or as the one
\* client that adds it has come to.
RowsFit(n) ==
    /\ Len(rows[n]) < Width
    /\ \A k \in Clients : pc[k] = "addMem" /\ req[k].item = n =>
          /\ Len(rows[n]) < next[k]
          /\ \A j \in Clients : pc[j] = "addMem" /\ req[j].item = n => j = k

\* While it is added, the rows are the part of the message already inserted.
Stored(n) ==
    \A k \in Clients : pc[k] = "addMem" /\ req[k].item = n =>
        rows[n] = SubSeq(sdcCfg[k], 1, next[k] - 1)

\* All its objects have the presets of the rows (it has none while it is added).
Agree(n) == \A l \in Lists : \A i \in 1 .. Len(presets[l][n]) : presets[l][n][i] = rows[n]

PInv ==
    /\ GInv
    /\ PresetTypeOK
    /\ CamsInHand /\ EditsKnown /\ MessagesFit
    /\ \A n \in Cams \ again : RowsFit(n)
    /\ \A n \in Cams \ (stray \cup again) : Stored(n)
    /\ \A n \in Cams \ (stray \cup edited \cup again) : Agree(n)

LEMMA LoadedAll ==
    ASSUME NEW r \in Seq(Preset), Len(r) < Width
    PROVE  Loaded(r) = r
<1> DEFINE n == Len(r)
<1>1. n \in Nat /\ Width \in Nat /\ n < Width
  BY WidthAssumption
<1>2. n % Width = n
  <2> HIDE DEF n
  <2> QED BY <1>1
<1>3. Loaded(r) = SubSeq(r, 1, n)
  BY <1>1, <1>2 DEF Loaded
<1> QED BY <1>3, SubSeqFull

LEMMA LoadedType ==
    ASSUME NEW r \in Seq(Preset)
    PROVE  Loaded(r) \in Seq(Preset)
<1> DEFINE n == Len(r)
           m == n % Width
<1>1. n \in Nat /\ m \in Nat /\ m <= n
  <2>1. n \in Nat /\ Width \in Nat /\ Width # 0
    BY WidthAssumption
  <2> HIDE DEF n
  <2>2. m \in 0 .. Width - 1
    BY <2>1
  <2>3. CASE n < Width
    BY <2>1, <2>3
  <2>4. CASE n >= Width
    BY <2>1, <2>2, <2>4
  <2> QED BY <2>1, <2>2, <2>3, <2>4
<1> HIDE DEF m
<1>2. \A i \in n - m + 1 .. n : i \in 1 .. Len(r)
  BY <1>1
<1>3. SubSeq(r, n - m + 1, n) \in Seq(Preset)
  BY <1>1, <1>2, SubSeqProperties
<1> QED BY <1>3 DEF Loaded, m

\* Taking the first off a sequence, and putting another in its place.
LEMMA FirstGone ==
    ASSUME NEW S, NEW q \in Seq(S), q # <<>>
    PROVE  /\ Tail(q) \in Seq(S) /\ Len(Tail(q)) = Len(q) - 1
           /\ \A i \in 1 .. Len(Tail(q)) : i + 1 \in 1 .. Len(q) /\ Tail(q)[i] = q[i + 1]
<1>1. Tail(q) \in Seq(S) /\ Len(Tail(q)) = Len(q) - 1
  BY HeadTailProperties
<1>2. Len(q) \in Nat
  OBVIOUS
<1>3. \A i \in 1 .. Len(Tail(q)) : Tail(q)[i] = q[i + 1]
  BY HeadTailProperties
<1>4. \A i \in 1 .. Len(Tail(q)) : i + 1 \in 1 .. Len(q)
  BY <1>1, <1>2
<1> QED BY <1>1, <1>3, <1>4

LEMMA FirstReplaced ==
    ASSUME NEW S, NEW q \in Seq(S), q # <<>>, NEW x \in S
    PROVE  <<x>> \o Tail(q) \in Seq(S) /\ Len(<<x>> \o Tail(q)) = Len(q)
<1>1. <<x>> \in Seq(S) /\ Len(<<x>>) = 1 /\ Len(q) \in Nat
  OBVIOUS
<1>2. <<x>> \o Tail(q) \in Seq(S) /\ Len(<<x>> \o Tail(q)) = 1 + Len(Tail(q))
  BY <1>1, FirstGone, ConcatProperties
<1> QED BY <1>1, <1>2, FirstGone

LEMMA OneMore ==
    ASSUME NEW S, NEW q \in Seq(S), NEW x \in S
    PROVE  /\ Append(q, x) \in Seq(S) /\ Len(Append(q, x)) = Len(q) + 1
           /\ \A i \in 1 .. Len(Append(q, x)) :
                 Append(q, x)[i] = x \/ (i \in 1 .. Len(q) /\ Append(q, x)[i] = q[i])
<1>1. /\ Append(q, x) \in Seq(S) /\ Len(Append(q, x)) = Len(q) + 1 /\ Len(q) \in Nat
      /\ \A i \in 1 .. Len(q) : Append(q, x)[i] = q[i]
      /\ Append(q, x)[Len(q) + 1] = x
  BY AppendProperties
<1>2. \A i \in 1 .. Len(q) + 1 : i \in 1 .. Len(q) \/ i = Len(q) + 1
  BY <1>1
<1> QED BY <1>1, <1>2

\* What a client sends fits, and so does what an insert makes of it.
LEMMA MessageFacts ==
    ASSUME NEW m \in Messages
    PROVE  /\ m \in Seq(Preset) /\ Len(m) < Width
           /\ [i \in DOMAIN m |-> [m[i] EXCEPT !.own = FALSE]] \in Seq(Preset)
           /\ Len([i \in DOMAIN m |-> [m[i] EXCEPT !.own = FALSE]]) < Width
<1>1. PICK t \in 0 .. Width - 1 : m \in [1 .. t -> [num : PresetNums, own : {TRUE}]]
  BY DEF Messages
<1>2. t \in Nat /\ t < Width
  BY <1>1, WidthAssumption
<1> DEFINE f == [i \in 1 .. t |-> [m[i] EXCEPT !.own = FALSE]]
<1>3. \A i \in 1 .. t : m[i] \in Preset /\ [m[i] EXCEPT !.own = FALSE] \in Preset
  BY <1>1 DEF Preset
<1>4. m \in [1 .. t -> Preset] /\ f \in [1 .. t -> Preset]
  BY <1>1, <1>3
<1>5. m \in Seq(Preset) /\ f \in Seq(Preset)
  BY <1>2, <1>4, SeqDef
<1>6. Len(m) = t /\ Len(f) = t
  BY <1>2, <1>4, <1>5, LenProperties
<1>7. DOMAIN m = 1 .. t
  BY <1>1
<1> QED BY <1>2, <1>5, <1>6, <1>7

LEMMA EmptyMessage == <<>> \in Seq(Preset) /\ Len(<<>>) = 0 /\ Len(<<>>) < Width
BY WidthAssumption

\* The request's message is kept, and the loop over it begins at its first preset.
LEMMA ParsedFacts ==
    ASSUME PresetTypeOK, MessagesFit, NEW k \in Clients, NEW m \in Seq(Preset), Len(m) < Width,
           Parsed(k, m)
    PROVE  /\ sdcCfg' \in [Clients -> Seq(Preset)] /\ next' \in [Clients -> 1 .. Width]
           /\ sdcCfg'[k] = m /\ next'[k] = 1
           /\ \A j \in Clients : j # k => sdcCfg'[j] = sdcCfg[j] /\ next'[j] = next[j]
           /\ MessagesFit'
<1>1. 1 \in 1 .. Width /\ Len(m) \in Nat
  BY WidthAssumption
<1>2. /\ sdcCfg' \in [Clients -> Seq(Preset)] /\ next' \in [Clients -> 1 .. Width]
      /\ sdcCfg'[k] = m /\ next'[k] = 1
      /\ \A j \in Clients : j # k => sdcCfg'[j] = sdcCfg[j] /\ next'[j] = next[j]
  BY <1>1 DEF Parsed, PresetTypeOK
<1>3. MessagesFit'
  <2> SUFFICES ASSUME NEW j \in Clients
               PROVE  Len(sdcCfg'[j]) < Width /\ next'[j] <= Len(sdcCfg'[j]) + 1
    BY DEF MessagesFit
  <2> QED BY <1>1, <1>2 DEF MessagesFit
<1> QED BY <1>2, <1>3

\* Apart from an INSERT of a preset, the steps are those of MissionGroups.
LEMMA PresetStepGInv ==
    ASSUME PInv, [PresetNext]_allVars
    PROVE  GInv'
<1>1. \A n \in Cams : n \in Items
  BY DEF Items
<1>2. ASSUME NEW k \in Clients, NEW ok \in BOOLEAN, InsertPreset(k, ok)
      PROVE  GInv'
  <2>1. req[k].item \in Items
    BY <1>2 DEF InsertPreset, PInv, GInv, InHand
  <2>2. UNCHANGED <<db, dbMissions, missions, objs, mu, cfg_mtx, pc, req>>
        /\ stray \subseteq stray' /\ stray' \in SUBSET Items
    BY <1>2, <2>1 DEF InsertPreset, disk, memory, locks, PInv, GInv, TypeOK
  <2>3. TypeOK' /\ InHand'
    BY <2>2 DEF PInv, GInv, TypeOK, InHand
  <2>4. \A n \in Items : ItemInv(n) => ItemInv(n)'
    <3> TAKE n \in Items
    <3>1. Home(n, missions)' = Home(n, missions)
      BY <2>2 DEF Home
    <3> QED BY <2>2, <3>1, Untouched
  <2> QED BY <2>2, <2>3, <2>4 DEF PInv, GInv
<1>3. CASE Start
  BY <1>3, StepGInv DEF PInv, Start, Next
<1>4. ASSUME NEW k \in Clients,
             AddObject(k) \/ UpdateList(k) \/ UpdateUnstart(k) \/ CopyPresets(k) \/ DropPresets(k)
      PROVE  GInv'
  <2>1. Handler(k)
    BY <1>4 DEF AddObject, UpdateList, UpdateUnstart, CopyPresets, DropPresets, Handler
  <2>2. Next
    BY <2>1 DEF Next
  <2> QED BY <2>2, StepGInv DEF PInv
<1>5. ASSUME NEW k \in Clients, OtherRequest(k) PROVE GInv'
  <2>1. Next
    BY <1>1, <1>5 DEF OtherRequest, Next
  <2> QED BY <2>1, StepGInv DEF PInv
<1>6. ASSUME NEW k \in Clients, NEW ok \in BOOLEAN, NEW n \in Cams, NEW g \in Lists, NEW m \in Messages,
             InsertCam(k, n, g, ok, m) \/ UpdateCam(k, n, g, ok, m)
      PROVE  GInv'
  <2>1. Next
    BY <1>6 DEF InsertCam, UpdateCam, Next
  <2> QED BY <2>1, StepGInv DEF PInv
<1>7. CASE UNCHANGED allVars
  BY <1>7, StepGInv DEF allVars, PInv
<1> QED BY <1>2, <1>3, <1>4, <1>5, <1>6, <1>7 DEF PresetNext

\* What receiving a request does to the handlers, and to the item if it is not stray.
LEMMA Received ==
    ASSUME GInv, NEW k \in Clients, NEW step \in {"addMem", "editList", "regroupAdd"},
           NEW n \in Items, NEW ori, NEW dts, NEW e, Receive(k, step, n, ori, dts, e)
    PROVE  /\ pc[k] = "idle" /\ pc'[k] = step /\ req'[k].item = n
           /\ \A j \in Clients : j # k => pc'[j] = pc[j] /\ req'[j] = req[j]
           /\ stray \subseteq stray'
           /\ n \notin stray' => e /\ Quiet(n)
<1>1. req' = [req EXCEPT ![k] = [item |-> n, ori |-> ori, dts |-> dts]]
  BY DEF Receive
<1>2. DOMAIN req = Clients /\ DOMAIN pc = Clients
  BY DEF GInv, TypeOK
<1>3. req'[k] = [item |-> n, ori |-> ori, dts |-> dts]
  BY <1>1, <1>2
<1> QED BY <1>1, <1>2, <1>3 DEF Receive, GInv, TypeOK

\* A step that inserts nothing: who adds what can only have ended.
LEMMA NoInsert ==
    ASSUME PInv, UNCHANGED <<rows, again>>, stray \subseteq stray',
           \A k \in Clients : pc'[k] = "addMem" =>
               pc[k] = "addMem" /\ req'[k] = req[k] /\ sdcCfg'[k] = sdcCfg[k] /\ next'[k] = next[k]
    PROVE  /\ \A n \in Cams \ again' : RowsFit(n)'
           /\ \A n \in Cams \ (stray' \cup again') : Stored(n)'
<1>1. \A n \in Cams \ again' : RowsFit(n)'
  BY DEF PInv, RowsFit
<1>2. \A n \in Cams \ (stray' \cup again') : Stored(n)'
  BY DEF PInv, Stored
<1> QED BY <1>1, <1>2

\* Each object has its presets.
Paired(p, o) ==
    /\ p \in [Lists -> [Cams -> Seq(Seq(Preset))]]
    /\ \A l \in Lists, n \in Cams : Len(p[l][n]) = Len(o[l][n])

\* A start gives every object the presets its rows make.
LEMMA LoadPresetsFacts ==
    ASSUME rows \in [Cams -> Seq(Preset)]
    PROVE  /\ Paired(LoadPresets(dbMissions), Load(dbMissions))
           /\ \A l \in Lists, n \in Cams : \A i \in 1 .. Len(LoadPresets(dbMissions)[l][n]) :
                 LoadPresets(dbMissions)[l][n][i] = Loaded(rows[n])
<1> DEFINE p == LoadPresets(dbMissions)
           o == Load(dbMissions)
<1>1. p \in [Lists -> [Cams -> Seq(Seq(Preset))]]
  <2>1. \A n \in Cams : Loaded(rows[n]) \in Seq(Preset)
    BY LoadedType
  <2>2. \A n \in Cams : <<Loaded(rows[n])>> \in Seq(Seq(Preset))
    <3>1. \A q \in Seq(Preset) : <<q>> \in Seq(Seq(Preset))
      OBVIOUS
    <3> QED BY <2>1, <3>1
  <2>3. <<>> \in Seq(Seq(Preset))
    OBVIOUS
  <2> QED BY <2>2, <2>3 DEF LoadPresets
<1>2. ASSUME NEW l \in Lists, NEW n \in Cams
      PROVE  /\ Len(p[l][n]) = Len(o[l][n])
             /\ \A i \in 1 .. Len(p[l][n]) : p[l][n][i] = Loaded(rows[n])
  <2> DEFINE here == db[n] # NoRow /\ l = Home(n, dbMissions)
             r == Loaded(rows[n])
  <2>1. n \in Items
    BY DEF Items
  <2>2. /\ p[l][n] = IF here THEN <<r>> ELSE <<>>
        /\ o[l][n] = IF here THEN <<l>> ELSE <<>>
    BY <2>1 DEF LoadPresets, Load
  <2> HIDE DEF here, r, p, o
  <2>3. Len(<<r>>) = 1 /\ Len(<<l>>) = 1 /\ Len(<<>>) = 0 /\ \A i \in 1 .. 1 : <<r>>[i] = r
    OBVIOUS
  <2>4. \A i \in 1 .. 0 : FALSE
    OBVIOUS
  <2> QED BY <2>2, <2>3, <2>4 DEF r
<1> QED BY <1>1, <1>2 DEF Paired

LEMMA PresetInitInv == PresetInit => PInv
<1> SUFFICES ASSUME PresetInit PROVE PInv
  OBVIOUS
<1> USE DEF PresetInit
<1>1. GInv
  BY InitGInv
<1>2. rows \in [Cams -> Seq(Preset)] /\ \A n \in Cams : rows[n] = <<>> /\ Loaded(rows[n]) = <<>>
  BY EmptyMessage, LoadedAll
<1>3. objs = Load(dbMissions) /\ presets = LoadPresets(dbMissions)
  BY DEF Init
<1>4. Paired(presets, objs)
  BY <1>2, <1>3, LoadPresetsFacts
<1>5. PresetTypeOK
  <2>1. <<>> \in Seq(Preset) /\ 1 \in 1 .. Width
    BY WidthAssumption
  <2> QED BY <1>2, <1>4, <2>1 DEF PresetTypeOK, Paired
<1>6. CamsInHand /\ EditsKnown
  BY DEF Init, CamsInHand, EditsKnown
<1>7. MessagesFit
  BY EmptyMessage DEF MessagesFit
<1>8. \A n \in Cams : RowsFit(n) /\ Stored(n)
  BY <1>2, EmptyMessage DEF Init, RowsFit, Stored
<1>9. \A n \in Cams : Agree(n)
  BY <1>2, <1>3, LoadPresetsFacts DEF Agree
<1> QED BY <1>1, <1>5, <1>6, <1>7, <1>8, <1>9 DEF PInv

-----------------------------------------------------------------------------
(* The steps of an add.                                                    *)

LEMMA InsertCamPInv ==
    ASSUME PInv, GInv', NEW k \in Clients, NEW ok \in BOOLEAN, NEW n \in Cams, NEW g \in Lists,
           NEW m \in Messages, InsertCam(k, n, g, ok, m)
    PROVE  PInv'
<1> DEFINE f == [i \in DOMAIN m |-> [m[i] EXCEPT !.own = FALSE]]
           e == ok /\ g = NoGroup /\ db[n] = NoRow /\ \A l \in Lists : ~InList(l, n)
<1>1. /\ Receive(k, "addMem", n, NoGroup, g, e) /\ Parsed(k, f)
      /\ UNCHANGED <<objs, rows, presets, edited>>
      /\ again' = IF db[n] # NoRow \/ rows[n] # <<>> \/ ~Quiet(n) THEN again \cup {n} ELSE again
      /\ n \in Items
  BY DEF InsertCam, AddCam, memory, Items
<1> HIDE DEF e
<1>2. /\ pc[k] = "idle" /\ pc'[k] = "addMem" /\ req'[k].item = n
      /\ \A j \in Clients : j # k => pc'[j] = pc[j] /\ req'[j] = req[j]
      /\ stray \subseteq stray'
  BY <1>1, Received DEF PInv
<1>3. /\ sdcCfg' \in [Clients -> Seq(Preset)] /\ next' \in [Clients -> 1 .. Width]
      /\ next'[k] = 1 /\ sdcCfg'[k] \in Seq(Preset)
      /\ \A j \in Clients : j # k => sdcCfg'[j] = sdcCfg[j] /\ next'[j] = next[j]
      /\ MessagesFit'
  <2>1. f \in Seq(Preset) /\ Len(f) < Width
    BY MessageFacts
  <2> HIDE DEF f
  <2> QED BY <1>1, <2>1, ParsedFacts DEF PInv
<1>4. PresetTypeOK'
  BY <1>1, <1>3 DEF PInv, PresetTypeOK
<1>5. CamsInHand' /\ EditsKnown'
  BY <1>1, <1>2 DEF PInv, CamsInHand, EditsKnown
<1>6. n \notin again' => rows[n] = <<>> /\ Quiet(n) /\ again' = again
  BY <1>1
<1>7. ASSUME NEW x \in Cams, x \notin again' PROVE RowsFit(x)'
  <2>1. x \notin again /\ rows'[x] = rows[x]
    BY <1>1, <1>7
  <2>2. CASE x # n
    <3>1. RowsFit(x)
      BY <2>1 DEF PInv
    <3>2. \A j \in Clients : pc'[j] = "addMem" /\ req'[j].item = x =>
              pc[j] = "addMem" /\ req[j].item = x /\ next'[j] = next[j]
      BY <1>2, <1>3, <2>2
    <3> QED BY <2>1, <3>1, <3>2 DEF RowsFit
  <2>3. CASE x = n
    <3>1. rows'[n] = <<>> /\ \A j \in Clients : req'[j].item = n => j = k
      BY <1>2, <1>6, <1>7, <2>1, <2>3 DEF Quiet
    <3>2. \A j \in Clients : j = k => Len(rows'[n]) < next'[j]
      BY <1>3, <3>1, EmptyMessage
    <3> QED BY <2>3, <3>1, <3>2, EmptyMessage DEF RowsFit
  <2> QED BY <2>2, <2>3
<1>8. ASSUME NEW x \in Cams, x \notin stray' \cup again' PROVE Stored(x)'
  <2>1. x \notin stray \cup again /\ rows'[x] = rows[x]
    BY <1>1, <1>2, <1>8
  <2>2. CASE x # n
    <3>1. Stored(x)
      BY <2>1 DEF PInv
    <3>2. \A j \in Clients : pc'[j] = "addMem" /\ req'[j].item = x =>
              pc[j] = "addMem" /\ req[j].item = x /\ next'[j] = next[j] /\ sdcCfg'[j] = sdcCfg[j]
      BY <1>2, <1>3, <2>2
    <3> QED BY <2>1, <3>1, <3>2 DEF Stored
  <2>3. CASE x = n
    <3>1. SubSeq(sdcCfg'[k], 1, next'[k] - 1) = <<>>
      BY <1>3, SubSeqEmpty
    <3>2. rows'[n] = <<>> /\ \A j \in Clients : req'[j].item = n => j = k
      BY <1>2, <1>6, <1>8, <2>1, <2>3 DEF Quiet
    <3> QED BY <2>3, <3>1, <3>2 DEF Stored
  <2> QED BY <2>2, <2>3
<1>9. ASSUME NEW x \in Cams, x \notin stray' \cup edited' \cup again' PROVE Agree(x)'
  BY <1>1, <1>2, <1>9 DEF PInv, Agree
<1> QED BY <1>3, <1>4, <1>5, <1>7, <1>8, <1>9 DEF PInv

\* The row the statement adds is the next of the message.
LEMMA InsertPresetPInv ==
    ASSUME PInv, GInv', NEW k \in Clients, NEW ok \in BOOLEAN, InsertPreset(k, ok)
    PROVE  PInv'
<1> DEFINE n == req[k].item
           p == sdcCfg[k][next[k]]
<1>1. /\ pc[k] = "addMem" /\ next[k] <= Len(sdcCfg[k])
      /\ rows' = IF ok THEN [rows EXCEPT ![n] = Append(@, p)] ELSE rows
      /\ stray' = IF ok THEN stray ELSE stray \cup {n}
      /\ next' = [next EXCEPT ![k] = @ + 1]
      /\ UNCHANGED <<objs, pc, req, presets, sdcCfg, edited, again>>
  BY DEF InsertPreset, memory
<1>2. /\ n \in Cams /\ stray \subseteq stray'
      /\ next[k] \in Nat /\ next[k] >= 1 /\ sdcCfg[k] \in Seq(Preset) /\ Len(sdcCfg[k]) < Width
      /\ rows[n] \in Seq(Preset) /\ Len(sdcCfg[k]) \in Nat /\ Len(rows[n]) \in Nat
  <2>1. n \in Cams
    BY <1>1 DEF PInv, CamsInHand
  <2>2. /\ next[k] \in 1 .. Width /\ sdcCfg[k] \in Seq(Preset) /\ Len(sdcCfg[k]) < Width
        /\ rows[n] \in Seq(Preset)
    BY <2>1 DEF PInv, PresetTypeOK, MessagesFit
  <2> QED BY <1>1, <2>1, <2>2, WidthAssumption
<1>3. p \in Preset
  BY <1>1, <1>2, ElementOfSeq
<1> HIDE DEF p
<1>4. /\ rows' \in [Cams -> Seq(Preset)]
      /\ \A x \in Cams : x # n => rows'[x] = rows[x]
      /\ rows'[n] = IF ok THEN Append(rows[n], p) ELSE rows[n]
      /\ Len(rows'[n]) <= Len(rows[n]) + 1 /\ Len(rows'[n]) \in Nat
  <2>1. Append(rows[n], p) \in Seq(Preset) /\ Len(Append(rows[n], p)) = Len(rows[n]) + 1
    BY <1>2, <1>3, OneMore
  <2>2. rows \in [Cams -> Seq(Preset)]
    BY DEF PInv, PresetTypeOK
  <2> HIDE DEF n
  <2>3. CASE ok
    <3>1. rows' = [rows EXCEPT ![n] = Append(rows[n], p)]
      BY <1>1, <2>3 DEF n
    <3>2. rows'[n] = Append(rows[n], p) /\ rows' \in [Cams -> Seq(Preset)]
          /\ \A x \in Cams : x # n => rows'[x] = rows[x]
      BY <1>2, <2>1, <2>2, <3>1
    <3> QED BY <1>2, <2>1, <2>3, <3>2
  <2>4. CASE ~ok
    <3>1. rows' = rows
      BY <1>1, <2>4
    <3> QED BY <1>2, <2>2, <2>4, <3>1
  <2> QED BY <2>3, <2>4
<1>5. /\ next' \in [Clients -> 1 .. Width] /\ next'[k] = next[k] + 1
      /\ \A j \in Clients : j # k => next'[j] = next[j]
  <2>1. next[k] + 1 \in 1 .. Width
    BY <1>1, <1>2, WidthAssumption
  <2> QED BY <1>1, <2>1 DEF PInv, PresetTypeOK
<1>6. PresetTypeOK'
  BY <1>1, <1>4, <1>5 DEF PInv, PresetTypeOK
<1>7. CamsInHand' /\ EditsKnown'
  BY <1>1 DEF PInv, CamsInHand, EditsKnown
<1>8. MessagesFit'
  <2> SUFFICES ASSUME NEW j \in Clients
               PROVE  Len(sdcCfg'[j]) < Width /\ next'[j] <= Len(sdcCfg'[j]) + 1
    BY DEF MessagesFit
  <2>1. CASE j = k
    BY <1>1, <1>2, <1>5, <2>1
  <2>2. CASE j # k
    BY <1>1, <1>5, <2>2 DEF PInv, MessagesFit
  <2> QED BY <2>1, <2>2
<1>9. ASSUME NEW x \in Cams, x \notin again' PROVE RowsFit(x)'
  <2>1. RowsFit(x)
    BY <1>1, <1>9 DEF PInv
  <2>2. CASE x # n
    <3>1. \A j \in Clients : req[j].item = x => next'[j] = next[j]
      BY <1>5, <2>2
    <3> QED BY <1>1, <1>4, <2>1, <2>2, <3>1 DEF RowsFit
  <2>3. CASE x = n
    <3>1. Len(rows[n]) < next[k] /\ \A j \in Clients : pc[j] = "addMem" /\ req[j].item = n => j = k
      BY <1>1, <2>1, <2>3 DEF RowsFit
    <3>2. Len(rows'[n]) < next'[k] /\ Len(rows'[n]) < Width
      BY <1>1, <1>2, <1>4, <1>5, <3>1, WidthAssumption
    <3> QED BY <1>1, <2>3, <3>1, <3>2 DEF RowsFit
  <2> QED BY <2>2, <2>3
<1>10. ASSUME NEW x \in Cams, x \notin stray' \cup again' PROVE Stored(x)'
  <2>1. Stored(x) /\ RowsFit(x)
    BY <1>1, <1>2, <1>10 DEF PInv
  <2>2. CASE x # n
    <3>1. \A j \in Clients : req[j].item = x => next'[j] = next[j]
      BY <1>5, <2>2
    <3> QED BY <1>1, <1>4, <2>1, <2>2, <3>1 DEF Stored
  <2>3. CASE x = n
    <3>1. rows[n] = SubSeq(sdcCfg[k], 1, next[k] - 1)
          /\ \A j \in Clients : pc[j] = "addMem" /\ req[j].item = n => j = k
      BY <1>1, <2>1, <2>3 DEF Stored, RowsFit
    <3>2. rows'[n] = Append(rows[n], p)
      BY <1>1, <1>4, <1>10, <2>3
    <3>3. SubSeq(sdcCfg[k], 1, next[k]) = SubSeq(sdcCfg[k], 1, next[k] - 1) \o <<p>>
      <4>1. 1 \in 1 .. Len(sdcCfg[k]) /\ next[k] \in 1 .. Len(sdcCfg[k]) /\ 1 <= next[k]
        BY <1>1, <1>2
      <4>2. p = sdcCfg[k][next[k]]
        BY DEF p
      <4> QED BY <1>2, <4>1, <4>2, SubSeqRecursiveSecond
    <3>4. Append(rows[n], p) = rows[n] \o <<p>>
      BY <1>2, <1>3, AppendIsConcat
    <3>5. rows'[n] = SubSeq(sdcCfg'[k], 1, next'[k] - 1)
      <4>1. next'[k] - 1 = next[k]
        BY <1>2, <1>5
      <4> QED BY <1>1, <3>1, <3>2, <3>3, <3>4, <4>1
    <3> QED BY <1>1, <2>3, <3>1, <3>5 DEF Stored
  <2> QED BY <2>2, <2>3
\* The camera that is added has no object yet.
<1>11. ASSUME NEW x \in Cams, x \notin stray' \cup edited' \cup again' PROVE Agree(x)'
  <2>1. Agree(x) /\ x \notin stray
    BY <1>1, <1>2, <1>11 DEF PInv
  <2>2. CASE x # n
    BY <1>1, <1>4, <2>1, <2>2 DEF Agree
  <2>3. CASE x = n
    <3>1. \A l \in Lists : objs[l][n] = <<>>
      BY <1>1, <1>2, <2>1, <2>3 DEF PInv, GInv, ItemInv, Underway, AddUnderway, Items
    <3>2. \A l \in Lists : Len(presets[l][n]) = 0
      BY <1>2, <3>1 DEF PInv, PresetTypeOK
    <3> QED BY <1>1, <2>3, <3>2 DEF Agree
  <2> QED BY <2>2, <2>3
<1> QED BY <1>6, <1>7, <1>8, <1>9, <1>10, <1>11 DEF PInv

-----------------------------------------------------------------------------
(* The steps on the lists.                                                 *)

LEMMA PairedNow == PInv => Paired(presets, objs) /\ objs \in [Lists -> [Items -> Seq(Lists)]]
BY DEF PInv, GInv, TypeOK, PresetTypeOK, Paired

\* What is done to the objects of a camera is done to their presets.
LEMMA AddBoth ==
    ASSUME NEW p, NEW o \in [Lists -> [Items -> Seq(Lists)]], Paired(p, o),
           NEW l \in Lists, NEW n \in Cams, NEW f \in Lists, NEW m \in Seq(Preset)
    PROVE  Paired([p EXCEPT ![l][n] = Append(@, m)], addSDC(o, l, n, f))
<1> DEFINE a == Append(p[l][n], m)
           b == Append(o[l][n], f)
<1>1. n \in Items /\ p[l][n] \in Seq(Seq(Preset)) /\ o[l][n] \in Seq(Lists)
      /\ Len(p[l][n]) = Len(o[l][n])
  BY DEF Items, Paired
<1>2. a \in Seq(Seq(Preset)) /\ Len(a) = Len(b)
  BY <1>1, OneMore
<1> HIDE DEF a, b
<1>3. p \in [Lists -> [Cams -> Seq(Seq(Preset))]] /\ \A l2 \in Lists, n2 \in Cams : Len(p[l2][n2]) = Len(o[l2][n2])
  BY DEF Paired
<1>4. \A n2 \in Cams : n2 \in Items
  BY DEF Items
<1>5. Paired([p EXCEPT ![l][n] = a], [o EXCEPT ![l][n] = b])
  BY <1>1, <1>2, <1>3, <1>4 DEF Paired
<1> QED BY <1>5 DEF a, b, addSDC

LEMMA RemoveBoth ==
    ASSUME NEW p, NEW o \in [Lists -> [Items -> Seq(Lists)]], Paired(p, o),
           NEW l \in Lists, NEW n \in Cams
    PROVE  Paired([p EXCEPT ![l][n] = IF @ = <<>> THEN @ ELSE Tail(@)], removeSDC(o, l, n))
<1> DEFINE a == IF p[l][n] = <<>> THEN p[l][n] ELSE Tail(p[l][n])
           b == IF o[l][n] = <<>> THEN o[l][n] ELSE Tail(o[l][n])
<1>1. n \in Items /\ p[l][n] \in Seq(Seq(Preset)) /\ o[l][n] \in Seq(Lists)
      /\ Len(p[l][n]) = Len(o[l][n])
  BY DEF Items, Paired
<1>2. p[l][n] = <<>> <=> o[l][n] = <<>>
  BY <1>1, EmptySeq
<1>3. a \in Seq(Seq(Preset)) /\ Len(a) = Len(b)
  BY <1>1, <1>2, FirstGone
<1> HIDE DEF a, b
<1>4. p \in [Lists -> [Cams -> Seq(Seq(Preset))]] /\ \A l2 \in Lists, n2 \in Cams : Len(p[l2][n2]) = Len(o[l2][n2])
  BY DEF Paired
<1>5. \A n2 \in Cams : n2 \in Items
  BY DEF Items
<1>6. Paired([p EXCEPT ![l][n] = a], [o EXCEPT ![l][n] = b])
  BY <1>1, <1>3, <1>4, <1>5 DEF Paired
<1> QED BY <1>6 DEF a, b, removeSDC

LEMMA RelabelOne ==
    ASSUME NEW p, NEW o \in [Lists -> [Items -> Seq(Lists)]], Paired(p, o),
           NEW l \in Lists, NEW n \in Cams, NEW f \in Lists
    PROVE  Paired(p, Relabel(o, l, n, f))
<1> DEFINE b == IF o[l][n] = <<>> THEN o[l][n] ELSE <<f>> \o Tail(o[l][n])
<1>1. n \in Items /\ o[l][n] \in Seq(Lists)
  BY DEF Items
<1>2. Len(b) = Len(o[l][n])
  BY <1>1, FirstReplaced
<1> HIDE DEF b
<1>3. \A n2 \in Cams : n2 \in Items
  BY DEF Items
<1>4. Paired(p, [o EXCEPT ![l][n] = b])
  BY <1>1, <1>2, <1>3 DEF Paired
<1> QED BY <1>4 DEF b, Relabel

LEMMA UpdateBoth ==
    ASSUME NEW p, NEW o \in [Lists -> [Items -> Seq(Lists)]], Paired(p, o),
           NEW l \in Lists, NEW n \in Cams, NEW f \in Lists, NEW m \in Seq(Preset)
    PROVE  Paired(PresetsUpdated(p, l, n, f, m), updateSDC(o, l, n, f))
<1>1. CASE f = NoGroup
  BY <1>1, RemoveBoth DEF PresetsUpdated, updateSDC
<1>2. CASE f # NoGroup
  <2> DEFINE a == IF p[l][n] = <<>> THEN p[l][n] ELSE <<m>> \o Tail(p[l][n])
             o2 == Relabel(o, l, n, f)
  <2>1. Paired(p, o2)
    BY RelabelOne
  <2>2. p[l][n] \in Seq(Seq(Preset))
    BY DEF Paired
  <2>3. a \in Seq(Seq(Preset)) /\ Len(a) = Len(p[l][n])
    BY <2>2, FirstReplaced
  <2> HIDE DEF a, o2
  <2>4. Paired([p EXCEPT ![l][n] = a], o2)
    BY <2>1, <2>3 DEF Paired
  <2>5. PresetsUpdated(p, l, n, f, m) = [p EXCEPT ![l][n] = a]
    BY <1>2 DEF PresetsUpdated, a
  <2> QED BY <1>2, <2>4, <2>5 DEF o2, updateSDC
<1> QED BY <1>1, <1>2

\* A step of a handler that is not inserting: what else is to be shown.
LEMMA ListStep ==
    ASSUME PInv, GInv', NEW k \in Clients, NEW n \in Cams, Paired(presets', objs'),
           UNCHANGED <<rows, stray, edited, again>>, MessagesFit',
           sdcCfg' \in [Clients -> Seq(Preset)], next' \in [Clients -> 1 .. Width],
           \A j \in Clients : j # k => /\ pc'[j] = pc[j] /\ req'[j] = req[j]
                                       /\ sdcCfg'[j] = sdcCfg[j] /\ next'[j] = next[j],
           pc'[k] = "idle" \/ (pc'[k] \in {"editUnstart", "regroupRemove"} /\ req'[k].item = n),
           pc'[k] = "editUnstart" => n \in edited,
           \A l \in Lists, x \in Cams : x # n => presets'[l][x] = presets[l][x],
           n \notin stray \cup edited \cup again => Agree(n)'
    PROVE  PInv'
<1>1. PresetTypeOK'
  BY DEF PInv, PresetTypeOK, Paired
<1>2. CamsInHand' /\ EditsKnown'
  BY DEF PInv, CamsInHand, EditsKnown, Items
<1>3. pc'[k] # "addMem"
  OBVIOUS
<1>4. /\ \A x \in Cams \ again' : RowsFit(x)'
      /\ \A x \in Cams \ (stray' \cup again') : Stored(x)'
  BY <1>3, NoInsert
<1>5. ASSUME NEW x \in Cams, x \notin stray' \cup edited' \cup again' PROVE Agree(x)'
  <2>1. CASE x = n
    BY <1>5, <2>1
  <2>2. CASE x # n
    BY <1>5, <2>2 DEF PInv, Agree
  <2> QED BY <2>1, <2>2
<1> QED BY <1>1, <1>2, <1>4, <1>5 DEF PInv

LEMMA AddObjectPInv ==
    ASSUME PInv, GInv', NEW k \in Clients, AddObject(k)
    PROVE  PInv'
<1>0. PICK n \in Cams : n = req[k].item
  BY DEF AddObject, AddCamMem, PInv, CamsInHand
<1>1. /\ pc[k] = "addMem" /\ next[k] > Len(sdcCfg[k])
      /\ objs' = addSDC(objs, NoGroup, n, req[k].dts)
      /\ presets' = [presets EXCEPT ![NoGroup][n] = Append(@, sdcCfg[k])]
      /\ Finish(k) /\ Parsed(k, <<>>) /\ UNCHANGED <<rows, stray, edited, again>>
  BY <1>0 DEF AddObject, AddCamMem
<1>2. /\ n \in Cams /\ req[k].dts \in Lists /\ NoGroup \in Lists /\ sdcCfg[k] \in Seq(Preset)
      /\ pc' = [pc EXCEPT ![k] = "idle"] /\ req' = [req EXCEPT ![k] = NoReq]
  BY <1>0, <1>1, NotNoRow DEF PInv, CamsInHand, GInv, TypeOK, PresetTypeOK, Finish
<1>3. pc'[k] = "idle" /\ \A j \in Clients : j # k => pc'[j] = pc[j] /\ req'[j] = req[j]
  BY <1>2 DEF PInv, GInv, TypeOK
<1>4. /\ sdcCfg' \in [Clients -> Seq(Preset)] /\ next' \in [Clients -> 1 .. Width] /\ MessagesFit'
      /\ \A j \in Clients : j # k => sdcCfg'[j] = sdcCfg[j] /\ next'[j] = next[j]
  BY <1>0, <1>1, EmptyMessage, ParsedFacts DEF PInv
<1>5. Paired(presets', objs')
  BY <1>1, <1>2, PairedNow, AddBoth
<1>6. /\ presets'[NoGroup][n] = Append(presets[NoGroup][n], sdcCfg[k])
      /\ \A l \in Lists : l # NoGroup => presets'[l][n] = presets[l][n]
      /\ \A l \in Lists, x \in Cams : x # n => presets'[l][x] = presets[l][x]
  <2>1. presets \in [Lists -> [Cams -> Seq(Seq(Preset))]]
    BY DEF PInv, PresetTypeOK
  <2> QED BY <1>1, <1>2, <2>1
<1>7. ASSUME n \notin stray \cup edited \cup again PROVE Agree(n)'
  <2>1. \A l \in Lists : presets[l][n] = <<>>
    <3>1. \A l \in Lists : objs[l][n] = <<>>
      BY <1>0, <1>1, <1>2, <1>7 DEF PInv, GInv, ItemInv, Underway, AddUnderway, Items
    <3>2. \A l \in Lists : Len(presets[l][n]) = 0 /\ presets[l][n] \in Seq(Seq(Preset))
      <4>1. Len(<<>>) = 0
        OBVIOUS
      <4>2. Paired(presets, objs)
        BY PairedNow
      <4> QED BY <3>1, <4>1, <4>2 DEF Paired
    <3> QED BY <3>2, EmptySeq
  <2>2. rows[n] = sdcCfg[k]
    <3>1. rows[n] = SubSeq(sdcCfg[k], 1, next[k] - 1)
      BY <1>0, <1>1, <1>2, <1>7 DEF PInv, Stored
    <3>2. next[k] <= Len(sdcCfg[k]) + 1 /\ next[k] \in Nat /\ Len(sdcCfg[k]) \in Nat
      BY <1>2, WidthAssumption DEF PInv, MessagesFit, PresetTypeOK
    <3>3. next[k] - 1 = Len(sdcCfg[k])
      BY <1>1, <3>2
    <3> QED BY <1>2, <3>1, <3>3, SubSeqFull
  <2>3. \A i \in 1 .. Len(presets'[NoGroup][n]) : presets'[NoGroup][n][i] = rows[n]
    <3> DEFINE c == sdcCfg[k]
    <3> HIDE DEF c
    <3>0. Append(<<>>, c) = <<c>>
      OBVIOUS
    <3>1. presets'[NoGroup][n] = <<c>>
      BY <1>2, <1>6, <2>1, <3>0 DEF c
    <3>2. Len(<<c>>) = 1 /\ \A i \in 1 .. 1 : <<c>>[i] = c
      OBVIOUS
    <3> QED BY <2>2, <3>1, <3>2 DEF c
  <2>4. \A l \in Lists : l # NoGroup => Len(presets'[l][n]) = 0
    BY <1>6, <2>1
  <2> QED BY <1>1, <1>2, <2>3, <2>4 DEF Agree
<1>10. UNCHANGED <<rows, stray, edited, again>>
  BY <1>1
<1> QED BY <1>10, <1>3, <1>4, <1>5, <1>6, <1>7, ListStep

LEMMA UpdateCamPInv ==
    ASSUME PInv, GInv', NEW k \in Clients, NEW ok \in BOOLEAN, NEW n \in Cams, NEW g \in Lists,
           NEW m \in Messages, UpdateCam(k, n, g, ok, m)
    PROVE  PInv'
<1> DEFINE e == ok /\ g # NoGroup /\ g = Home(n, missions)
<1>1. /\ Receive(k, "editList", n, NoGroup, g, e) /\ Parsed(k, m)
      /\ UNCHANGED <<objs, rows, presets, again>> /\ edited' = edited \cup {n}
      /\ n \in Items
  BY DEF UpdateCam, EditCam, memory, Items
<1> HIDE DEF e
<1>2. /\ pc[k] = "idle" /\ pc'[k] = "editList" /\ req'[k].item = n
      /\ \A j \in Clients : j # k => pc'[j] = pc[j] /\ req'[j] = req[j]
      /\ stray \subseteq stray'
  BY <1>1, Received DEF PInv
<1>3. /\ sdcCfg' \in [Clients -> Seq(Preset)] /\ next' \in [Clients -> 1 .. Width] /\ MessagesFit'
      /\ \A j \in Clients : j # k => sdcCfg'[j] = sdcCfg[j] /\ next'[j] = next[j]
  BY <1>1, MessageFacts, ParsedFacts DEF PInv
<1>4. PresetTypeOK'
  BY <1>1, <1>3 DEF PInv, PresetTypeOK
<1>5. CamsInHand' /\ EditsKnown'
  BY <1>1, <1>2 DEF PInv, CamsInHand, EditsKnown
<1>6. /\ \A x \in Cams \ again' : RowsFit(x)'
      /\ \A x \in Cams \ (stray' \cup again') : Stored(x)'
  BY <1>1, <1>2, <1>3, NoInsert
<1>7. ASSUME NEW x \in Cams, x \notin stray' \cup edited' \cup again' PROVE Agree(x)'
  BY <1>1, <1>2, <1>7 DEF PInv, Agree
<1> QED BY <1>3, <1>4, <1>5, <1>6, <1>7 DEF PInv

LEMMA UpdateListPInv ==
    ASSUME PInv, GInv', NEW k \in Clients, UpdateList(k)
    PROVE  PInv'
<1>0. PICK n \in Cams : n = req[k].item
  BY DEF UpdateList, EditCamList, PInv, CamsInHand
<1> DEFINE g == req[k].dts
           c == sdcCfg[k]
<1>1. /\ pc[k] = "editList" /\ pc' = [pc EXCEPT ![k] = "editUnstart"]
      /\ objs' = IF g = NoGroup THEN updateSDC(objs, NoGroup, n, NoGroup)
                                ELSE MissionUpdateSDC(objs, n, g)
      /\ presets' = IF g \in Groups /\ g \notin missions THEN presets
                    ELSE IF g \in Groups /\ presets[g][n] = <<>>
                       THEN [presets EXCEPT ![g][n] = <<c>>]
                    ELSE PresetsUpdated(presets, g, n, g, c)
      /\ UNCHANGED <<req, rows, sdcCfg, next, stray, edited, again>>
  BY <1>0 DEF UpdateList, EditCamList
<1>2. /\ n \in Cams /\ n \in edited /\ c \in Seq(Preset) /\ NoGroup \in Lists
      /\ g \in Lists /\ NoGroup \notin Groups /\ (g # NoGroup => g \in Groups) /\ missions \in SUBSET Groups
  BY <1>0, <1>1, NotNoRow DEF PInv, CamsInHand, EditsKnown, GInv, TypeOK, PresetTypeOK, Lists
<1>3. /\ pc'[k] = "editUnstart" /\ \A j \in Clients : j # k => pc'[j] = pc[j]
  BY <1>0, <1>1 DEF PInv, GInv, TypeOK
<1>4. /\ sdcCfg' \in [Clients -> Seq(Preset)] /\ next' \in [Clients -> 1 .. Width] /\ MessagesFit'
  BY <1>0, <1>1 DEF PInv, PresetTypeOK, MessagesFit
<1>5. /\ Paired(presets, objs) /\ objs \in [Lists -> [Items -> Seq(Lists)]]
      /\ presets \in [Lists -> [Cams -> Seq(Seq(Preset))]]
  BY PairedNow DEF PInv, PresetTypeOK
<1> HIDE DEF g, c
<1>6. Paired(presets', objs')
  <2>1. CASE g = NoGroup
    BY <1>1, <1>2, <1>5, <2>1, UpdateBoth
  <2>2. CASE g # NoGroup /\ g \notin missions
    BY <1>1, <1>2, <1>5, <2>2 DEF MissionUpdateSDC
  <2>3. CASE g \in missions /\ presets[g][n] = <<>>
    <3>1. Append(presets[g][n], c) = <<c>>
      BY <1>2, <2>3
    <3>2. presets' = [presets EXCEPT ![g][n] = Append(@, c)]
      BY <1>1, <1>2, <2>3, <3>1
    <3>3. objs[g][n] = <<>>
      <4>1. Len(objs[g][n]) = 0 /\ objs[g][n] \in Seq(Lists)
        BY <1>2, <1>5, <2>3 DEF Paired, Items
      <4> QED BY <4>1, EmptySeq
    <3>4. objs' = addSDC(objs, g, n, g)
      BY <1>1, <1>2, <2>3, <3>3 DEF MissionUpdateSDC
    <3> QED BY <1>2, <1>5, <3>2, <3>4, AddBoth
  <2>4. CASE g \in missions /\ presets[g][n] # <<>>
    <3>1. presets' = PresetsUpdated(presets, g, n, g, c)
      BY <1>1, <1>2, <2>4
    <3>2. objs[g][n] # <<>>
      <4>1. presets[g][n] \in Seq(Seq(Preset)) /\ Len(presets[g][n]) = Len(objs[g][n])
        BY <1>2, <1>5 DEF Paired
      <4> QED BY <2>4, <4>1, EmptySeq
    <3>3. objs' = updateSDC(objs, g, n, g)
      BY <1>1, <1>2, <2>4, <3>2 DEF MissionUpdateSDC
    <3> QED BY <1>2, <1>5, <3>1, <3>3, UpdateBoth
  <2> QED BY <1>2, <2>1, <2>2, <2>3, <2>4
<1>7. \A l \in Lists, x \in Cams : x # n => presets'[l][x] = presets[l][x]
  BY <1>1, <1>2, <1>5 DEF PresetsUpdated
<1>8. req'[k].item = n /\ \A j \in Clients : req'[j] = req[j] /\ sdcCfg'[j] = sdcCfg[j] /\ next'[j] = next[j]
  BY <1>0, <1>1
<1>10. UNCHANGED <<rows, stray, edited, again>> /\ n \in edited
  BY <1>1, <1>2
<1> QED BY <1>10, <1>3, <1>4, <1>6, <1>7, <1>8, ListStep

LEMMA UpdateUnstartPInv ==
    ASSUME PInv, GInv', NEW k \in Clients, UpdateUnstart(k)
    PROVE  PInv'
<1>0. PICK n \in Cams : n = req[k].item
  BY DEF UpdateUnstart, EditCamUnstart, PInv, CamsInHand
<1> DEFINE g == req[k].dts
           c == sdcCfg[k]
<1>1. /\ pc[k] = "editUnstart" /\ Finish(k) /\ Parsed(k, <<>>)
      /\ objs' = updateSDC(objs, NoGroup, n, g)
      /\ presets' = PresetsUpdated(presets, NoGroup, n, g, c)
      /\ UNCHANGED <<rows, stray, edited, again>>
  BY <1>0 DEF UpdateUnstart, EditCamUnstart
<1>2. /\ n \in Cams /\ n \in edited /\ c \in Seq(Preset) /\ NoGroup \in Lists /\ g \in Lists
      /\ pc' = [pc EXCEPT ![k] = "idle"] /\ req' = [req EXCEPT ![k] = NoReq]
  BY <1>0, <1>1, NotNoRow DEF PInv, CamsInHand, EditsKnown, GInv, TypeOK, PresetTypeOK, Finish
<1>3. pc'[k] = "idle" /\ \A j \in Clients : j # k => pc'[j] = pc[j] /\ req'[j] = req[j]
  BY <1>2 DEF PInv, GInv, TypeOK
<1>4. /\ sdcCfg' \in [Clients -> Seq(Preset)] /\ next' \in [Clients -> 1 .. Width] /\ MessagesFit'
      /\ \A j \in Clients : j # k => sdcCfg'[j] = sdcCfg[j] /\ next'[j] = next[j]
  BY <1>0, <1>1, EmptyMessage, ParsedFacts DEF PInv
<1>5. Paired(presets', objs')
  BY <1>1, <1>2, PairedNow, UpdateBoth
<1> HIDE DEF g, c
<1>6. \A l \in Lists, x \in Cams : x # n => presets'[l][x] = presets[l][x]
  <2>1. presets \in [Lists -> [Cams -> Seq(Seq(Preset))]]
    BY DEF PInv, PresetTypeOK
  <2> QED BY <1>1, <1>2, <2>1 DEF PresetsUpdated
<1>10. UNCHANGED <<rows, stray, edited, again>> /\ n \in edited
  BY <1>1, <1>2
<1> QED BY <1>10, <1>3, <1>4, <1>5, <1>6, ListStep

\* A step at a device's lists touches no camera's.
LEMMA DevicePaired ==
    ASSUME NEW p, NEW o \in [Lists -> [Items -> Seq(Lists)]], Paired(p, o),
           NEW l \in Lists, NEW n \in Items \ Cams, NEW f \in Lists
    PROVE  /\ Paired(p, addSDC(o, l, n, f))
           /\ Paired(p, removeSDC(o, l, n))
           /\ Paired(p, Relabel(o, l, n, f))
<1>1. ASSUME NEW b PROVE Paired(p, [o EXCEPT ![l][n] = b])
  <2>1. \A x \in Cams : x \in Items /\ x # n
    BY DEF Items
  <2> QED BY <2>1 DEF Paired
<1> QED BY <1>1 DEF addSDC, removeSDC, Relabel

LEMMA DeviceStep ==
    ASSUME PInv, GInv', NEW k \in Clients, Paired(presets, objs'),
           UNCHANGED <<rows, presets, sdcCfg, next, stray, edited, again>>,
           \A j \in Clients : j # k => pc'[j] = pc[j] /\ req'[j] = req[j],
           pc'[k] = "idle" \/ (pc'[k] = "regroupRemove" /\ req'[k].item \in Items)
    PROVE  PInv'
<1>1. PresetTypeOK'
  BY DEF PInv, PresetTypeOK, Paired
<1>2. CamsInHand' /\ EditsKnown' /\ MessagesFit'
  BY DEF PInv, CamsInHand, EditsKnown, MessagesFit
<1>3. /\ \A x \in Cams \ again' : RowsFit(x)'
      /\ \A x \in Cams \ (stray' \cup again') : Stored(x)'
  BY NoInsert
<1>4. ASSUME NEW x \in Cams, x \notin stray' \cup edited' \cup again' PROVE Agree(x)'
  BY <1>4 DEF PInv, Agree
<1> QED BY <1>1, <1>2, <1>3, <1>4 DEF PInv

LEMMA DeviceCopied ==
    ASSUME PInv, GInv', NEW k \in Clients, CopyPresets(k), req[k].item \notin Cams
    PROVE  PInv'
<1> DEFINE n == req[k].item
           o == Relabel(objs, req[k].ori, n, req[k].dts)
<1>1. /\ pc[k] = "regroupAdd" /\ RegroupAdd(k)
      /\ UNCHANGED <<rows, presets, sdcCfg, next, stray, edited, again>>
  BY DEF CopyPresets, RegroupAdd
<1>2. n \in Items \ Cams /\ req[k].ori \in Lists /\ req[k].dts \in Lists /\ Target(req[k]) \in Lists
  BY <1>1, NotNoRow DEF PInv, CamsInHand, GInv, TypeOK, Target
<1>3. Paired(presets, objs) /\ objs \in [Lists -> [Items -> Seq(Lists)]]
  BY PairedNow
<1>4. /\ \A j \in Clients : j # k => pc'[j] = pc[j] /\ req'[j] = req[j]
      /\ pc'[k] = "idle" \/ (pc'[k] = "regroupRemove" /\ req'[k].item = n)
  BY <1>1 DEF RegroupAdd, Finish, PInv, GInv, TypeOK
<1>5. objs' = objs \/ objs' = addSDC(o, Target(req[k]), n, req[k].dts)
  BY <1>1 DEF RegroupAdd
<1>6. o \in [Lists -> [Items -> Seq(Lists)]] /\ Paired(presets, o)
  BY <1>2, <1>3, PlaceTypes, DevicePaired
<1> HIDE DEF n, o
<1>7. Paired(presets, addSDC(o, Target(req[k]), n, req[k].dts))
  BY <1>2, <1>6, DevicePaired
<1>8. Paired(presets, objs')
  BY <1>3, <1>5, <1>7
<1> QED BY <1>1, <1>2, <1>4, <1>8, DeviceStep

LEMMA DeviceDropped ==
    ASSUME PInv, GInv', NEW k \in Clients, DropPresets(k), req[k].item \notin Cams
    PROVE  PInv'
<1> DEFINE n == req[k].item
<1>1. /\ pc[k] = "regroupRemove" /\ Finish(k) /\ objs' = removeSDC(objs, req[k].ori, n)
      /\ UNCHANGED <<rows, presets, sdcCfg, next, stray, edited, again>>
  BY DEF DropPresets, RegroupRemove
<1>2. n \in Items \ Cams /\ req[k].ori \in Lists
  BY <1>1 DEF PInv, CamsInHand, GInv, TypeOK
<1>3. pc'[k] = "idle" /\ \A j \in Clients : j # k => pc'[j] = pc[j] /\ req'[j] = req[j]
  BY <1>1 DEF Finish, PInv, GInv, TypeOK
<1> HIDE DEF n
<1>4. Paired(presets, objs')
  BY <1>1, <1>2, PairedNow, DevicePaired
<1> QED BY <1>1, <1>3, <1>4, DeviceStep

\* The copy has the presets of the object it is made from.
LEMMA CopyPresetsPInv ==
    ASSUME PInv, GInv', NEW k \in Clients, CopyPresets(k)
    PROVE  PInv'
<1>a. CASE req[k].item \notin Cams
  BY <1>a, DeviceCopied
<1>b. SUFFICES ASSUME req[k].item \in Cams PROVE PInv'
  BY <1>a
<1>0. PICK n \in Cams : n = req[k].item
  BY <1>b
<1> DEFINE ori == req[k].ori
           dts == req[k].dts
           t == Target(req[k])
           h == Head(presets[ori][n])
<1>1. /\ pc[k] = "regroupAdd" /\ RegroupAdd(k)
      /\ presets' = IF Regroupable(req[k]) THEN [presets EXCEPT ![t][n] = Append(@, h)] ELSE presets
      /\ UNCHANGED <<rows, sdcCfg, next, stray, edited, again>>
  BY <1>0 DEF CopyPresets, RegroupAdd
<1>2. /\ n \in Cams /\ ori \in Lists /\ dts \in Lists /\ t \in Lists
  BY <1>0, <1>1, NotNoRow DEF PInv, CamsInHand, GInv, TypeOK, Target
<1>3. /\ sdcCfg' \in [Clients -> Seq(Preset)] /\ next' \in [Clients -> 1 .. Width] /\ MessagesFit'
  BY <1>0, <1>1 DEF PInv, PresetTypeOK, MessagesFit
<1>4. /\ Paired(presets, objs) /\ objs \in [Lists -> [Items -> Seq(Lists)]]
      /\ presets \in [Lists -> [Cams -> Seq(Seq(Preset))]]
  BY PairedNow DEF PInv, PresetTypeOK
<1>5. /\ \A j \in Clients : j # k => pc'[j] = pc[j] /\ req'[j] = req[j]
      /\ pc'[k] = "idle" \/ (pc'[k] = "regroupRemove" /\ req'[k].item = n)
  BY <1>0, <1>1 DEF RegroupAdd, Finish, PInv, GInv, TypeOK
<1>6. CASE Regroupable(req[k])
  <2>1. /\ objs' = addSDC(Relabel(objs, ori, n, dts), t, n, dts)
        /\ presets' = [presets EXCEPT ![t][n] = Append(@, h)]
    BY <1>0, <1>1, <1>6 DEF RegroupAdd
  <2>2. presets[ori][n] \in Seq(Seq(Preset)) /\ presets[ori][n] # <<>>
    <3>1. objs[ori][n] # <<>> /\ objs[ori][n] \in Seq(Lists)
      BY <1>0, <1>2, <1>4, <1>6 DEF Regroupable, InList, Items
    <3>2. presets[ori][n] \in Seq(Seq(Preset)) /\ Len(presets[ori][n]) = Len(objs[ori][n])
      BY <1>2, <1>4 DEF Paired
    <3> QED BY <3>1, <3>2, EmptySeq
  <2>3. h \in Seq(Preset) /\ h = presets[ori][n][1] /\ 1 \in 1 .. Len(presets[ori][n])
    <3>1. Len(presets[ori][n]) \in Nat /\ Len(presets[ori][n]) # 0
      BY <2>2, EmptySeq
    <3>2. h \in Seq(Preset) /\ h = presets[ori][n][1]
      BY <2>2, HeadTailProperties 
    <3> QED BY <3>1, <3>2
  <2> HIDE DEF ori, dts, t, h
  <2>4. Paired(presets', objs')
    <3> DEFINE o == Relabel(objs, ori, n, dts)
    <3>1. Paired(presets, o)
      BY <1>2, <1>4, RelabelOne
    <3>2. o \in [Lists -> [Items -> Seq(Lists)]]
      BY <1>2, <1>4, PlaceTypes DEF Items
    <3> HIDE DEF o
    <3>3. Paired([presets EXCEPT ![t][n] = Append(@, h)], addSDC(o, t, n, dts))
      BY <1>2, <2>3, <3>1, <3>2, AddBoth
    <3> QED BY <2>1, <3>3 DEF o
  <2>5. /\ presets'[t][n] = Append(presets[t][n], h)
        /\ \A l \in Lists : l # t => presets'[l][n] = presets[l][n]
        /\ \A l \in Lists, x \in Cams : x # n => presets'[l][x] = presets[l][x]
    BY <1>2, <1>4, <2>1
  <2>6. ASSUME n \notin stray \cup edited \cup again PROVE Agree(n)'
    <3>1. Agree(n)
      BY <1>2, <2>6 DEF PInv
    <3>2. h = rows[n]
      BY <1>2, <2>3, <3>1 DEF Agree
    <3>3. presets[t][n] \in Seq(Seq(Preset))
      BY <1>2, <1>4
    <3>4. \A i \in 1 .. Len(presets'[t][n]) : presets'[t][n][i] = rows[n]
      <4>1. \A i \in 1 .. Len(presets'[t][n]) :
               presets'[t][n][i] = h \/ (i \in 1 .. Len(presets[t][n]) /\ presets'[t][n][i] = presets[t][n][i])
        BY <2>3, <2>5, <3>3, OneMore
      <4> QED BY <1>2, <3>1, <3>2, <4>1 DEF Agree
    <3> QED BY <1>1, <2>5, <3>1, <3>4 DEF Agree
  <2> QED BY <1>1, <1>2, <1>3, <1>5, <2>4, <2>5, <2>6, ListStep
<1>7. CASE ~Regroupable(req[k])
  <2>1. objs' = objs /\ presets' = presets
    BY <1>1, <1>7 DEF RegroupAdd
  <2>2. n \notin stray \cup edited \cup again => Agree(n)'
    BY <1>0, <1>1, <1>2, <2>1 DEF PInv, Agree
  <2>3. Paired(presets', objs')
    BY <1>4, <2>1
  <2> QED BY <1>1, <1>2, <1>3, <1>5, <2>1, <2>2, <2>3, ListStep
<1> QED BY <1>6, <1>7

LEMMA DropPresetsPInv ==
    ASSUME PInv, GInv', NEW k \in Clients, DropPresets(k)
    PROVE  PInv'
<1>a. CASE req[k].item \notin Cams
  BY <1>a, DeviceDropped
<1>b. SUFFICES ASSUME req[k].item \in Cams PROVE PInv'
  BY <1>a
<1>0. PICK n \in Cams : n = req[k].item
  BY <1>b
<1> DEFINE ori == req[k].ori
           q == presets[ori][n]
<1>1. /\ pc[k] = "regroupRemove" /\ Finish(k) /\ objs' = removeSDC(objs, ori, n)
      /\ presets' = [presets EXCEPT ![ori][n] = IF @ = <<>> THEN @ ELSE Tail(@)]
      /\ UNCHANGED <<rows, sdcCfg, next, stray, edited, again>>
  BY <1>0 DEF DropPresets, RegroupRemove
<1>2. /\ n \in Cams /\ ori \in Lists
      /\ pc' = [pc EXCEPT ![k] = "idle"] /\ req' = [req EXCEPT ![k] = NoReq]
  BY <1>0, <1>1 DEF PInv, CamsInHand, GInv, TypeOK, Finish
<1>3. pc'[k] = "idle" /\ \A j \in Clients : j # k => pc'[j] = pc[j] /\ req'[j] = req[j]
  BY <1>2 DEF PInv, GInv, TypeOK
<1>4. /\ sdcCfg' \in [Clients -> Seq(Preset)] /\ next' \in [Clients -> 1 .. Width] /\ MessagesFit'
  BY <1>0, <1>1 DEF PInv, PresetTypeOK, MessagesFit
<1>5. Paired(presets', objs')
  BY <1>1, <1>2, PairedNow, RemoveBoth
<1>6. /\ presets'[ori][n] = IF q = <<>> THEN q ELSE Tail(q)
      /\ \A l \in Lists : l # ori => presets'[l][n] = presets[l][n]
      /\ \A l \in Lists, x \in Cams : x # n => presets'[l][x] = presets[l][x]
  <2>1. presets \in [Lists -> [Cams -> Seq(Seq(Preset))]]
    BY DEF PInv, PresetTypeOK
  <2> HIDE DEF ori
  <2> QED BY <1>1, <1>2, <2>1
<1>7. ASSUME n \notin stray \cup edited \cup again PROVE Agree(n)'
  <2>1. Agree(n) /\ q \in Seq(Seq(Preset))
    BY <1>2, <1>7 DEF PInv, PresetTypeOK
  <2>2. \A i \in 1 .. Len(q) : q[i] = rows[n]
    BY <1>2, <2>1 DEF Agree
  <2>3. \A i \in 1 .. Len(presets'[ori][n]) : presets'[ori][n][i] = rows[n]
    <3>1. CASE q = <<>>
      BY <1>6, <2>2, <3>1
    <3>2. CASE q # <<>>
      <4> HIDE DEF q
      <4>1. \A i \in 1 .. Len(Tail(q)) : i + 1 \in 1 .. Len(q) /\ Tail(q)[i] = q[i + 1]
        BY <2>1, <3>2, FirstGone
      <4>2. \A i \in 1 .. Len(Tail(q)) : Tail(q)[i] = rows[n]
        BY <2>2, <4>1
      <4> QED BY <1>6, <3>2, <4>2
    <3> QED BY <3>1, <3>2
  <2> QED BY <1>1, <1>6, <2>1, <2>3 DEF Agree
<1>8. UNCHANGED <<rows, stray, edited, again>> /\ sdcCfg' = sdcCfg /\ next' = next
  BY <1>1
<1>9. \A l \in Lists, x \in Cams : x # n => presets'[l][x] = presets[l][x]
  BY <1>6
<1>10. \A j \in Clients : j # k => /\ pc'[j] = pc[j] /\ req'[j] = req[j]
                                  /\ sdcCfg'[j] = sdcCfg[j] /\ next'[j] = next[j]
  BY <1>3, <1>8
<1>11. pc'[k] = "idle" /\ pc'[k] # "editUnstart"
  BY <1>3
<1> HIDE DEF ori
<1> QED BY <1>4, <1>5, <1>7, <1>8, <1>9, <1>10, <1>11, ListStep

-----------------------------------------------------------------------------
(* The other steps.                                                        *)

\* A start makes up for every edit: the objects have what their rows make.
LEMMA StartPInv ==
    ASSUME PInv, GInv', Start
    PROVE  PInv'
<1>1. /\ objs' = Load(dbMissions) /\ presets' = LoadPresets(dbMissions)
      /\ pc' = [k \in Clients |-> "idle"]
      /\ sdcCfg' = [k \in Clients |-> <<>>] /\ next' = [k \in Clients |-> 1]
      /\ edited' = {} /\ UNCHANGED <<rows, again>>
  BY DEF Start, Restart
<1>2. rows \in [Cams -> Seq(Preset)]
  BY DEF PInv, PresetTypeOK
<1>3. Paired(presets', objs')
  BY <1>1, <1>2, LoadPresetsFacts
<1>4. PresetTypeOK'
  <2>1. <<>> \in Seq(Preset) /\ 1 \in 1 .. Width
    BY WidthAssumption
  <2> QED BY <1>1, <1>3, <2>1 DEF PInv, PresetTypeOK, Paired
<1>5. CamsInHand' /\ EditsKnown'
  BY <1>1 DEF CamsInHand, EditsKnown
<1>6. MessagesFit'
  <2>1. \A k \in Clients : sdcCfg'[k] = <<>> /\ next'[k] = 1
    BY <1>1
  <2> QED BY <2>1, EmptyMessage DEF MessagesFit
<1>7. \A n \in Cams : Stored(n)' /\ (RowsFit(n) => RowsFit(n)')
  <2>1. \A k \in Clients : pc'[k] # "addMem"
    BY <1>1
  <2> QED BY <1>1, <2>1 DEF Stored, RowsFit
<1>8. ASSUME NEW n \in Cams, n \notin again PROVE RowsFit(n)' /\ Agree(n)'
  <2>1. RowsFit(n)
    BY <1>8 DEF PInv
  <2>2. Loaded(rows[n]) = rows[n]
    BY <1>2, <2>1, LoadedAll DEF RowsFit
  <2>3. \A l \in Lists : \A i \in 1 .. Len(presets'[l][n]) : presets'[l][n][i] = rows[n]
    BY <1>1, <1>2, <2>2, LoadPresetsFacts
  <2> QED BY <1>1, <1>7, <2>1, <2>3 DEF Agree
<1> QED BY <1>1, <1>4, <1>5, <1>6, <1>7, <1>8 DEF PInv

LEMMA OtherRequestPInv ==
    ASSUME PInv, GInv', NEW k \in Clients, OtherRequest(k)
    PROVE  PInv'
<1>1. UNCHANGED <<rows, presets, sdcCfg, next, edited, again>>
  BY DEF OtherRequest, presetVars
<1>2. /\ objs' = objs /\ stray \subseteq stray'
      /\ \A j \in Clients : j # k => pc'[j] = pc[j] /\ req'[j] = req[j]
      /\ pc'[k] \in {"idle", "groupDb"} \/ (pc'[k] = "regroupAdd" /\ req'[k].item \in Items)
  <2>1. ASSUME NEW ok \in BOOLEAN, AddGroupDb(k, ok) PROVE <1>2!:
    BY <2>1 DEF AddGroupDb, Finish, memory, PInv, GInv, TypeOK
  <2>2. ASSUME NEW ok \in BOOLEAN, NEW n \in Items, NEW ori \in Lists, NEW dts \in Lists,
               Regroup(k, n, ori, dts, ok)
        PROVE  <1>2!:
    <3>1. objs' = objs /\ \E e \in BOOLEAN : Receive(k, "regroupAdd", n, ori, dts, e)
      BY <2>2 DEF Regroup, memory
    <3> QED BY <3>1, Received DEF PInv
  <2>3. ASSUME NEW g \in Groups, AddGroup(k, g) PROVE <1>2!:
    BY <2>3 DEF AddGroup, PInv, GInv, TypeOK
  <2> QED BY <2>1, <2>2, <2>3 DEF OtherRequest
<1>3. PresetTypeOK' /\ MessagesFit' /\ CamsInHand' /\ EditsKnown'
  BY <1>1, <1>2 DEF PInv, PresetTypeOK, MessagesFit, CamsInHand, EditsKnown
<1>4. /\ \A x \in Cams \ again' : RowsFit(x)'
      /\ \A x \in Cams \ (stray' \cup again') : Stored(x)'
  BY <1>1, <1>2, NoInsert
<1>5. ASSUME NEW x \in Cams, x \notin stray' \cup edited' \cup again' PROVE Agree(x)'
  BY <1>1, <1>2, <1>5 DEF PInv, Agree
<1> QED BY <1>3, <1>4, <1>5 DEF PInv

LEMMA StepPInv == ASSUME PInv, [PresetNext]_allVars PROVE PInv'
<1>1. GInv'
  BY PresetStepGInv
<1>2. CASE Start
  BY <1>1, <1>2, StartPInv
<1>3. ASSUME NEW k \in Clients,
             \/ AddObject(k) \/ UpdateList(k) \/ UpdateUnstart(k)
             \/ CopyPresets(k) \/ DropPresets(k) \/ OtherRequest(k)
      PROVE  PInv'
  BY <1>1, <1>3, AddObjectPInv, UpdateListPInv, UpdateUnstartPInv, CopyPresetsPInv,
     DropPresetsPInv, OtherRequestPInv
<1>4. ASSUME NEW k \in Clients, NEW ok \in BOOLEAN, InsertPreset(k, ok) PROVE PInv'
  BY <1>1, <1>4, InsertPresetPInv
<1>5. ASSUME NEW k \in Clients, NEW ok \in BOOLEAN, NEW n \in Cams, NEW g \in Lists, NEW m \in Messages,
             InsertCam(k, n, g, ok, m) \/ UpdateCam(k, n, g, ok, m)
      PROVE  PInv'
  BY <1>1, <1>5, InsertCamPInv, UpdateCamPInv
<1>6. CASE UNCHANGED allVars
  BY <1>1, <1>6 DEF allVars, presetVars, vars, disk, memory, locks, PInv, PresetTypeOK, CamsInHand,
                    EditsKnown, MessagesFit, RowsFit, Stored, Agree
<1> QED BY <1>2, <1>3, <1>4, <1>5, <1>6 DEF PresetNext

LEMMA PresetInvariance == PresetSpec => []PInv
BY PresetInitInv, StepPInv, PTL DEF PresetSpec

\* Regrouping, adding and restarting in any order never leave an object with
\* other presets than the rows of its camera, until an edit changes them.
THEOREM PresetsKeepTheirRows == PresetSpec => []PresetsAgreeUnlessEdited
<1>1. ASSUME PInv, NEW n \in Cams \ (stray \cup edited \cup again), NEW l \in Lists,
             NEW i \in DOMAIN presets[l][n]
      PROVE  presets[l][n][i] = rows[n]
  <2>1. presets[l][n] \in Seq(Seq(Preset))
    BY <1>1 DEF PInv, PresetTypeOK
  <2>2. i \in 1 .. Len(presets[l][n])
    BY <1>1, <2>1
  <2> QED BY <1>1, <2>2 DEF PInv, Agree
<1>2. PInv => PresetsAgreeUnlessEdited
  BY <1>1 DEF PInv, PresetsAgreeUnlessEdited
<1> QED BY <1>2, PresetInvariance, PTL

\* One byte is enough to count the rows of a camera added once, whatever
\* messages come and whichever of their statements fail.
THEOREM RowsAreLoaded == PresetSpec => []AllRowsLoadUnlessAddedAgain
<1>1. PInv => AllRowsLoadUnlessAddedAgain
  BY LoadedAll DEF PInv, PresetTypeOK, RowsFit, AllRowsLoadUnlessAddedAgain
<1> QED BY <1>1, PresetInvariance, PTL
=============================================================================
