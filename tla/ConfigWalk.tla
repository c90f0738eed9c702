----------------------------- MODULE ConfigWalk -----------------------------
(***************************************************************************)
(* What one update of a configuration client contains.  update() walks     *)
(* through the missions and their lists, packing a message for each        *)
(* mission, device and camera, and ends with the walk over the results,    *)
(* module ResultPush, which this module extends.  It holds cfg_mtx.        *)
(* Adding a camera takes that mutex too, but regrouping and adding a       *)
(* mission take mu, which the walk does not: the map and the arrays change *)
(* under it.                                                               *)
(*                                                                         *)
(* Sending what was packed is module ConfigSession.  Only one session's    *)
(* walk runs at a time.                                                    *)
(***************************************************************************)
EXTENDS ResultPush, Sequences, SequencesExt, FiniteSetsExt

CONSTANTS Cams,      \* camera numbers
          CapDevs,   \* device numbers
          Groups,    \* mission numbers
          MaxMoves,  \* bound: items regrouped
          NULL       \* no item

NoGroup == -1

Items == Cams \cup CapDevs
Lists == Groups \cup {NoGroup}
Kinds == {"capDev", "SDC"}

Kind(n) == IF n \in Cams THEN "SDC" ELSE "capDev"

ASSUME WalkAssumption ==
    /\ Groups \subseteq Nat
    /\ Cams \cap CapDevs = {}
    /\ NULL \notin Items
    /\ IsFiniteSet(Items)
    /\ MaxMoves \in Nat

VARIABLES missions,  \* keys of G_MissionMap
          list,      \* per list and kind, the items in array order
          moving,    \* the regrouping under way
          moves,     \* items regrouped
          walk,      \* where update() is
          shown,     \* the messages packed so far by the walk
          down,      \* the walk has read an empty slot: the process has ended
          moved,     \* ghost: items regrouped since the walk began
          missed,    \* ghost: items shifted into a slot the walk had read
          late       \* ghost: missions added since the walk began

lists   == <<missions, list, moving, moves>>
walker  == <<walk, shown, down>>
ghosts  == <<moved, missed, late>>
allVars == <<vars, lists, walker, ghosts>>

\* slot: the slot of the old list that is overwritten next, 0 before the first.
NotMoving == [item |-> NULL, from |-> NoGroup, to |-> NoGroup, slot |-> 0]

\* at: the loop of update() being run, l and kind: the list it is at, n: the
\* slots of that list it is done with.
Rest == [at |-> "rest", l |-> NoGroup, kind |-> "capDev", n |-> 0]

WalkTypeOK ==
    /\ missions \in SUBSET Groups
    /\ list \in [Lists -> [Kinds -> Seq(Items)]]
    /\ moving \in [item : Items \cup {NULL}, from : Lists, to : Lists, slot : Nat]
    /\ moves \in 0 .. MaxMoves
    /\ walk \in [at : {"rest", "groups", "test", "pack", "results", "push"},
                 l : Lists, kind : Kinds, n : Nat]
    /\ shown \in Seq([list : Lists, item : Items \cup {NULL}])
    /\ down \in BOOLEAN
    /\ moved \in SUBSET Items
    /\ missed \in SUBSET Items
    /\ late \in SUBSET Groups

WalkInit ==
    /\ Init
    /\ missions \in SUBSET Groups
    /\ \E home \in [Items -> missions \cup {NoGroup}] :
          list = [l \in Lists |-> [kind \in Kinds |->
                     SetToSeq({n \in Items : Kind(n) = kind /\ home[n] = l})]]
    /\ moving = NotMoving
    /\ moves = 0
    /\ walk = Rest
    /\ shown = <<>>
    /\ down = FALSE
    /\ moved = {}
    /\ missed = {}
    /\ late = {}

-----------------------------------------------------------------------------
(* The requests that run beside a walk.  One at a time does, under mu.     *)

MissionAdd(g) ==
    /\ g \notin missions
    /\ moving = NotMoving
    /\ missions' = missions \cup {g}
    /\ late' = late \cup {g}
    /\ UNCHANGED <<vars, list, moving, moves, walker, moved, missed>>

\* Mutant: the item is not added to its new list.
MutRegroupAdd(n, from, to) ==
    /\ moves < MaxMoves
    /\ moving = NotMoving
    /\ from # to /\ NoGroup \in {from, to}
    /\ {from, to} \subseteq missions \cup {NoGroup}
    /\ LET s == list[from][Kind(n)] IN
       /\ Contains(s, n)
       /\ moving' = [item |-> n, from |-> from, to |-> to,
                     slot |-> SelectInSeq(s, LAMBDA x : x = n)]
    /\ moves' = moves + 1
    /\ moved' = moved \cup {n}
    /\ UNCHANGED <<vars, missions, list, walker, missed, late>>

\* MissionUpdate...MissionGroup: the item is added to its new list ...
RegroupAdd(n, from, to) ==
    /\ moves < MaxMoves
    /\ moving = NotMoving
    /\ from # to /\ NoGroup \in {from, to}
    /\ {from, to} \subseteq missions \cup {NoGroup}
    /\ LET s == list[from][Kind(n)] IN
       /\ Contains(s, n)
       /\ moving' = [item |-> n, from |-> from, to |-> to,
                     slot |-> SelectInSeq(s, LAMBDA x : x = n)]
    /\ moves' = moves + 1
    /\ list' = [list EXCEPT ![to][Kind(n)] = Append(@, n)]
    /\ moved' = moved \cup {n}
    /\ UNCHANGED <<vars, missions, walker, missed, late>>

\* The slot under the pen is the one the walk would read next.
InTheWay ==
    /\ walk.at \in {"test", "pack"}
    /\ walk.l = moving.from /\ walk.kind = Kind(moving.item)
    /\ walk.n + 1 = moving.slot

\* ... and removed from its old one, where the items after it move down, slot
\* by slot.  The slots past the end are empty, so the last becomes empty.
RegroupRemove ==
    /\ moving # NotMoving
    /\ LET j == moving.slot
           s == list[moving.from][Kind(moving.item)]
       IN /\ missed' = IF InTheWay THEN missed \cup {s[j]} ELSE missed
          /\ IF j < Len(s)
                THEN /\ list' = [list EXCEPT ![moving.from][Kind(moving.item)] =
                                    [s EXCEPT ![j] = s[j + 1]]]
                     /\ moving' = [moving EXCEPT !.slot = j + 1]
                ELSE /\ list' = [list EXCEPT ![moving.from][Kind(moving.item)] = Front(s)]
                     /\ moving' = NotMoving
    /\ UNCHANGED <<vars, missions, moves, walker, moved, late>>

-----------------------------------------------------------------------------
(* The walk.                                                               *)

Pack(l, n) == shown' = Append(shown, [list |-> l, item |-> n])

\* The mission after l in the order of the map, NoGroup after the last.
NextMission(l) ==
    LET later == {g \in missions : g > l} IN IF later = {} THEN NoGroup ELSE Min(later)

At(at, l, kind, n) == walk' = [at |-> at, l |-> l, kind |-> kind, n |-> n]

\* update() takes cfg_mtx: packageSDCrespone.
Begin ==
    /\ walk = Rest
    /\ shown' = <<>>
    /\ At("groups", NoGroup, "capDev", 0)
    /\ moved' = IF moving = NotMoving THEN {} ELSE {moving.item}
    /\ missed' = {}
    /\ late' = {}
    /\ UNCHANGED <<vars, lists, down>>

\* Mutant: the missions are not announced.
MutPackGroup ==
    /\ walk.at = "groups"
    /\ At("test", NextMission(NoGroup), "capDev", 0)
    /\ UNCHANGED <<vars, shown, lists, down, ghosts>>

\* The first loop: packageGroupInfo for each mission.
PackGroup ==
    /\ walk.at = "groups"
    /\ LET g == NextMission(walk.l) IN
       IF g # NoGroup
          THEN /\ Pack(g, NULL)
               /\ At("groups", g, "capDev", 0)
          ELSE /\ At("test", NextMission(NoGroup), "capDev", 0)
               /\ UNCHANGED shown
    /\ UNCHANGED <<vars, lists, down, ghosts>>

\* Mutant: the walk ends with the missions.
MutAdvance ==
    IF walk.kind = "capDev" THEN At("test", walk.l, "SDC", 0)
    ELSE IF NextMission(walk.l) # NoGroup THEN At("test", NextMission(walk.l), "capDev", 0)
    ELSE At("results", NoGroup, "capDev", 0)

\* From the end of one array to the next: devices, then cameras, of the
\* missions and then of the ungrouped.
Advance ==
    IF walk.kind = "capDev" THEN At("test", walk.l, "SDC", 0)
    ELSE IF walk.l # NoGroup THEN At("test", NextMission(walk.l), "capDev", 0)
    ELSE At("results", NoGroup, "capDev", 0)

\* The test of the loop over an array.
TestSlot ==
    /\ walk.at = "test"
    /\ IF walk.n < Len(list[walk.l][walk.kind])
          THEN walk' = [walk EXCEPT !.at = "pack"]
          ELSE Advance
    /\ UNCHANGED <<vars, lists, shown, down, ghosts>>

\* packageCapDevinfo or packageSDCinfo of the next slot, which may have emptied
\* since the test: an empty device is packed like any other, and shows nothing.
PackItem ==
    /\ walk.at = "pack"
    /\ LET s == list[walk.l][walk.kind]
           k == walk.n + 1
       IN \/ k <= Len(s) /\ Pack(walk.l, s[k])
          \/ k > Len(s) /\ walk.kind = "capDev" /\ UNCHANGED shown
    /\ walk' = [walk EXCEPT !.at = "test", !.n = @ + 1]
    /\ UNCHANGED <<vars, lists, down, ghosts>>

\* An empty camera slot has no object to read; a slot that is being overwritten
\* while it is read can be read either way or be memory no longer in use.
Crash ==
    /\ walk.at = "pack"
    /\ \/ walk.n + 1 > Len(list[walk.l][walk.kind]) /\ walk.kind = "SDC"
       \/ InTheWay
    /\ down' = TRUE
    /\ UNCHANGED <<vars, lists, walk, shown, ghosts>>

\* The walk over the results (ResultPush), and the end of update().
PackResults ==
    /\ \/ /\ walk.at = "results"
          /\ StartWalk
          /\ walk' = [walk EXCEPT !.at = "push"]
       \/ walk.at = "push" /\ (Skip \/ Send) /\ UNCHANGED walk
       \/ walk.at = "push" /\ EndWalk /\ walk' = Rest
    /\ UNCHANGED <<lists, shown, down, ghosts>>

Step == Begin \/ PackGroup \/ TestSlot \/ PackItem \/ PackResults

UpdateNext ==
    /\ ~down
    /\ \/ Step \/ Crash \/ RegroupRemove
       \/ PushBack /\ UNCHANGED <<lists, walker, ghosts>>
       \/ \E g \in Groups : MissionAdd(g)
       \/ \E n \in Items, from, to \in Lists : RegroupAdd(n, from, to)

\* update() is called every three seconds and runs on, and so does a
\* request that has begun to move an item.
UpdateFairness ==
    /\ WF_allVars(~down /\ (Step \/ Crash))
    /\ WF_allVars(~down /\ RegroupRemove)

UpdateSpec == WalkInit /\ [][UpdateNext]_allVars /\ UpdateFairness

-----------------------------------------------------------------------------
(* Properties.                                                             *)

Shows(n) == \E k \in DOMAIN shown : shown[k].item = n

\* An update shows every device and camera, except those regrouped meanwhile
\* and those that moved down, behind another that was removed, into a slot the
\* walk had read already.
CompleteUnlessDisturbed ==
    [][walk # Rest /\ walk' = Rest =>
          \A n \in Items \ (moved \cup missed) : Shows(n)]_allVars

\* No item of a mission is shown before the mission itself, unless the mission
\* was added after the loop over missions had passed.
AnnouncedUnlessLate ==
    /\ WalkTypeOK
    /\ \A j \in DOMAIN shown : shown[j].list \in Groups \ late =>
          \E k \in 1 .. j : shown[k] = [list |-> shown[j].list, item |-> NULL]

\* What one update misses a later one shows, once regrouping pauses.
ShownAtLast ==
    \A n \in Items : <>[]down \/ []<>Shows(n)
=============================================================================
