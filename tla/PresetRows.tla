----------------------------- MODULE PresetRows -----------------------------
(***************************************************************************)
(* The presets of the cameras, in the table preset and in memory.          *)
(*                                                                         *)
(* Extends MissionGroups, which says which object is on which list, by the *)
(* presets of each object and the rows of each camera.  An add is one      *)
(* statement for the camera and one for each preset; an edit changes the   *)
(* presets in memory and none of their rows; a restart fills the objects   *)
(* from the rows.  Of a preset the number is kept and whether its rect and *)
(* scale are the client's own: an insert replaces these by fixed values.   *)
(***************************************************************************)
EXTENDS MissionGroups

CONSTANTS PresetNums,  \* numbers of presets
          Width        \* values of presetTotal: 256 for the code's uint8_t

ASSUME WidthAssumption == Width \in Nat \ {0}

VARIABLES rows,     \* table preset: the rows of each camera, oldest first
          presets,  \* per list and camera, the presets of each object
          sdcCfg,   \* per session, the presets of the message it handles
          next,     \* per session, the preset it inserts next
          edited,   \* ghost: cameras edited since the last start
          again     \* ghost: cameras added when something of them was stored

presetVars == <<rows, presets, sdcCfg, next, edited, again>>
allVars == <<vars, presetVars>>

Preset == [num : PresetNums, own : BOOLEAN]

\* What a client may send: presetTotal is one byte of the message.
Messages == UNION {[1 .. t -> [num : PresetNums, own : {TRUE}]] : t \in 0 .. Width - 1}

PresetTypeOK ==
    /\ rows \in [Cams -> Seq(Preset)]
    /\ presets \in [Lists -> [Cams -> Seq(Seq(Preset))]]
    /\ sdcCfg \in [Clients -> Seq(Preset)]
    /\ next \in [Clients -> 1 .. Width]
    /\ edited \in SUBSET Cams
    /\ again \in SUBSET Cams
    /\ \A l \in Lists, n \in Cams : Len(presets[l][n]) = Len(objs[l][n])

\* addPreset, once per row: row r goes to place r % Width, and presetTotal ends
\* at the number of rows % Width.
Loaded(r) == SubSeq(r, Len(r) - (Len(r) % Width) + 1, Len(r))

\* The callback for the rows of SDCs makes objects without presets, the one for
\* those of preset adds each to the first object of its camera.
LoadPresets(ms) ==
    [l \in Lists |-> [n \in Cams |->
        IF db[n] # NoRow /\ l = Home(n, ms) THEN <<Loaded(rows[n])>> ELSE <<>>]]

PresetInit ==
    /\ Init
    /\ rows = [n \in Cams |-> <<>>]
    /\ presets = LoadPresets(dbMissions)
    /\ sdcCfg = [k \in Clients |-> <<>>]
    /\ next = [k \in Clients |-> 1]
    /\ edited = {}
    /\ again = {}

\* sdcCfg is read no more once the request is done; it is emptied then.
Parsed(k, m) ==
    /\ sdcCfg' = [sdcCfg EXCEPT ![k] = m]
    /\ next' = [next EXCEPT ![k] = 1]

\* insert(SDCcfg *): the presets of the message get the fixed values, and the
\* camera its row.
InsertCam(k, n, g, ok, m) ==
    /\ AddCam(k, n, g, ok)
    /\ Parsed(k, [i \in DOMAIN m |-> [m[i] EXCEPT !.own = FALSE]])
    /\ again' = IF db[n] # NoRow \/ rows[n] # <<>> \/ ~Quiet(n)
                   THEN again \cup {n} ELSE again
    /\ UNCHANGED <<rows, presets, edited>>

\* Mutant: the row of a known preset is left alone.
MutInsertPreset(k, ok) ==
    /\ pc[k] = "addMem"
    /\ next[k] <= Len(sdcCfg[k])
    /\ LET n == req[k].item
           p == sdcCfg[k][next[k]]
           new == \A i \in DOMAIN rows[n] : rows[n][i].num # p.num
       IN /\ rows' = IF ok /\ new THEN [rows EXCEPT ![n] = Append(@, p)] ELSE rows
          /\ stray' = IF ok THEN stray ELSE stray \cup {n}
    /\ next' = [next EXCEPT ![k] = @ + 1]
    /\ UNCHANGED <<disk, memory, locks, pc, req, presets, sdcCfg, edited, again>>

\* One INSERT of the loop, also when the camera's own has failed.
InsertPreset(k, ok) ==
    /\ pc[k] = "addMem"
    /\ next[k] <= Len(sdcCfg[k])
    /\ LET n == req[k].item IN
       /\ rows' = IF ok THEN [rows EXCEPT ![n] = Append(@, sdcCfg[k][next[k]])] ELSE rows
       /\ stray' = IF ok THEN stray ELSE stray \cup {n}
    /\ next' = [next EXCEPT ![k] = @ + 1]
    /\ UNCHANGED <<disk, memory, locks, pc, req, presets, sdcCfg, edited, again>>

AddObject(k) ==
    /\ next[k] > Len(sdcCfg[k])
    /\ AddCamMem(k)
    /\ presets' = [presets EXCEPT ![NoGroup][req[k].item] = Append(@, sdcCfg[k])]
    /\ Parsed(k, <<>>)
    /\ UNCHANGED <<rows, edited, again>>

\* Mutant: an edit stores its presets as an add does.
MutUpdateCam(k, n, g, ok, m) ==
    /\ EditCam(k, n, g, ok)
    /\ Parsed(k, m)
    /\ rows' = IF ok THEN [rows EXCEPT ![n] = @ \o m] ELSE rows
    /\ edited' = edited \cup {n}
    /\ UNCHANGED <<presets, again>>

\* update(SDCcfg *): the loop over the presets is compiled out.
UpdateCam(k, n, g, ok, m) ==
    /\ EditCam(k, n, g, ok)
    /\ Parsed(k, m)
    /\ edited' = edited \cup {n}
    /\ UNCHANGED <<rows, presets, again>>

\* updateSDC on list l with missionNum f: the first object gets the presets m.
PresetsUpdated(p, l, n, f, m) ==
    [p EXCEPT ![l][n] = IF @ = <<>> THEN @
                        ELSE IF f = NoGroup THEN Tail(@)
                        ELSE <<m>> \o Tail(@)]

UpdateList(k) ==
    /\ EditCamList(k)
    /\ LET n == req[k].item
           g == req[k].dts
       IN presets' = IF g \in Groups /\ g \notin missions THEN presets
                     ELSE IF g \in Groups /\ presets[g][n] = <<>>
                        THEN [presets EXCEPT ![g][n] = <<sdcCfg[k]>>]
                     ELSE PresetsUpdated(presets, g, n, g, sdcCfg[k])
    /\ UNCHANGED <<rows, sdcCfg, next, edited, again>>

UpdateUnstart(k) ==
    /\ EditCamUnstart(k)
    /\ presets' = PresetsUpdated(presets, NoGroup, req[k].item, req[k].dts, sdcCfg[k])
    /\ Parsed(k, <<>>)
    /\ UNCHANGED <<rows, edited, again>>

\* addSDC copies the presets of the first object.
CopyPresets(k) ==
    /\ RegroupAdd(k)
    /\ LET r == req[k] IN
       presets' = IF r.item \in Cams /\ Regroupable(r)
                     THEN [presets EXCEPT ![Target(r)][r.item] =
                              Append(@, Head(presets[r.ori][r.item]))]
                     ELSE presets
    /\ UNCHANGED <<rows, sdcCfg, next, edited, again>>

DropPresets(k) ==
    /\ RegroupRemove(k)
    /\ LET r == req[k] IN
       presets' = IF r.item \in Cams
                     THEN [presets EXCEPT ![r.ori][r.item] = IF @ = <<>> THEN @ ELSE Tail(@)]
                     ELSE presets
    /\ UNCHANGED <<rows, sdcCfg, next, edited, again>>

Start ==
    /\ Restart
    /\ presets' = LoadPresets(dbMissions)
    /\ sdcCfg' = [k \in Clients |-> <<>>]
    /\ next' = [k \in Clients |-> 1]
    /\ edited' = {}
    /\ UNCHANGED <<rows, again>>

\* The requests that touch no preset, until a camera's copy is made.
OtherRequest(k) ==
    /\ \E ok \in BOOLEAN :
          \/ AddGroupDb(k, ok)
          \/ \E n \in Items, ori, dts \in Lists : Regroup(k, n, ori, dts, ok)
          \/ \E g \in Groups : AddGroup(k, g)
    /\ UNCHANGED presetVars

PresetNext ==
    \/ Start
    \/ \E k \in Clients :
          \/ AddObject(k) \/ UpdateList(k) \/ UpdateUnstart(k)
          \/ CopyPresets(k) \/ DropPresets(k) \/ OtherRequest(k)
          \/ \E ok \in BOOLEAN :
                \/ InsertPreset(k, ok)
                \/ \E n \in Cams, g \in Lists, m \in Messages :
                      InsertCam(k, n, g, ok, m) \/ UpdateCam(k, n, g, ok, m)

PresetSpec == PresetInit /\ [][PresetNext]_allVars

-----------------------------------------------------------------------------
(* Properties.                                                             *)

\* The presets in memory are those of the rows, wherever the camera has been
\* moved and wherever the process ended, except for stray cameras and, until
\* the next start, edited ones: the copies made by regrouping keep them, and an
\* add cut short leaves no object whose presets are not stored.
PresetsAgreeUnlessEdited ==
    /\ PresetTypeOK
    /\ \A n \in Cams \ (stray \cup edited \cup again) : Quiet(n) =>
          \A l \in Lists : \A i \in DOMAIN presets[l][n] : presets[l][n][i] = rows[n]

\* Rows never outnumber what presetTotal can count, so that a start loads all
\* of them, unless a camera is added again: its preset rows, which no key
\* protects, then double, and presetTotal starts again at zero.
AllRowsLoadUnlessAddedAgain ==
    \A n \in Cams \ again : Loaded(rows[n]) = rows[n]
=============================================================================
