--------------------------- MODULE ResultPushProofs ---------------------------
(***************************************************************************)
(* Proofs about ResultPush, for vectors of any length.  A walk has skipped *)
(* pos - walkSent results and sent the walkSent after them, so its counter *)
(* is 2 * pos - walkSent (Counter); the first result sent is the first     *)
(* whose doubled index reaches the cursor (FirstSent); and the cursor left *)
(* by a walk is at most twice the results it has seen (Cursor), so what is *)
(* skipped was sent before (Skipped).                                      *)
(*                                                                         *)
(* Then about ConfigWalk, the update this walk is part of, for any         *)
(* missions, lists and moves; and about ConfigSession, which runs it on    *)
(* any number of threads, through an instance.                             *)
(***************************************************************************)
EXTENDS ConfigWalk, FiniteSetTheorems, SequenceTheorems, Integers, TLAPS

Counter == pc = "walk" => i = 2 * pos - walkSent /\ walkSent <= pos

FirstSent ==
    pc = "walk" /\ walkSent > 0 => 2 * (pos - walkSent) >= curCapResult

Cursor == curCapResult = 2 * seen - lastSent

Skipped ==
    /\ 0 .. seen - 1 \subseteq sent
    /\ pc = "walk" => 0 .. pos - 1 \subseteq sent

IInv == TypeOK /\ Counter /\ FirstSent /\ Cursor /\ Skipped

USE MaxResultsAssumption

LEMMA InitIInv == Init => IInv
BY DEF Init, IInv, TypeOK, Counter, FirstSent, Cursor, Skipped

LEMMA StepIInv == IInv /\ [Next]_vars => IInv'
<1> SUFFICES ASSUME IInv, [Next]_vars PROVE IInv'
  OBVIOUS
<1> USE DEF IInv, TypeOK, Counter, FirstSent, Cursor, Skipped
<1>1. CASE PushBack
  BY <1>1 DEF PushBack
<1>2. CASE StartWalk
  BY <1>2 DEF StartWalk
<1>3. CASE Skip
  <2>1. walkSent = 0 /\ pos \in 0 .. seen - 1
    BY <1>3 DEF Skip, SkipTo
  <2> QED BY <1>3, <2>1 DEF Skip, SkipTo
<1>4. CASE Send
  <2>1. 0 .. pos' - 1 \subseteq sent'
    BY <1>4 DEF Send, SendAs
  <2> QED BY <1>4, <2>1 DEF Send, SendAs
<1>5. CASE EndWalk
  BY <1>5 DEF EndWalk, EndWalkAs
<1>6. CASE UNCHANGED vars
  BY <1>6 DEF vars
<1> QED BY <1>1, <1>2, <1>3, <1>4, <1>5, <1>6 DEF Next

LEMMA SpecIInv == Spec => []IInv
<1> QED BY InitIInv, StepIInv, PTL DEF Spec

\* Type correctness.
THEOREM TypeCorrect == Spec => []TypeOK
<1>1. IInv => TypeOK
  BY DEF IInv
<1> QED BY SpecIInv, <1>1, PTL

\* Every result recorded before the end of a walk has been sent by then.
THEOREM ResultsReachTheClient == Spec => []NoResultLost
<1>1. IInv => NoResultLost
  BY DEF IInv, Skipped, NoResultLost
<1> QED BY SpecIInv, <1>1, PTL

\* Without new results a walk sends at most half of what the last one sent.
THEOREM RepeatsAreHalved == Spec => RepeatsHalve
<1>1. ASSUME IInv, [Next]_vars, pc = "walk", pc' = "idle", seen' = seen
      PROVE  2 * lastSent' <= lastSent
  <2>1. EndWalk
    BY <1>1 DEF Next, PushBack, StartWalk, Skip, SkipTo, Send, SendAs, vars
  <2> QED BY <1>1, <2>1 DEF EndWalk, EndWalkAs, IInv, TypeOK, Counter, FirstSent, Cursor
<1>2. IInv /\ [Next]_vars
        => [pc = "walk" /\ pc' = "idle" /\ seen' = seen
              => 2 * lastSent' <= lastSent]_vars
  BY <1>1
<1> QED BY SpecIInv, <1>2, PTL DEF Spec, RepeatsHalve

-----------------------------------------------------------------------------
(* A whole update (module ConfigWalk).                                     *)

Announced(g) == \E k \in 1 .. Len(shown) : shown[k] = [list |-> g, item |-> NULL]

\* The missions the first loop is past have been announced.
MissionsFirst ==
    /\ walk.at = "groups" => \A g \in missions \ late : g <= walk.l => Announced(g)
    /\ walk.at \notin {"rest", "groups"} => \A g \in missions \ late : Announced(g)

WalkWithin ==
    /\ walk.l \in missions \cup {NoGroup}
    /\ walk.at = "rest" => walk = Rest

\* The slot to be overwritten next holds the item removed, or a second copy of
\* the one before it.
Removal ==
    moving = NotMoving \/
    LET s == list[moving.from][Kind(moving.item)] IN
       /\ moving.item \in Items
       /\ moving.from # moving.to
       /\ moving.slot \in 1 .. Len(s)
       /\ \/ s[moving.slot] = moving.item
          \/ moving.slot > 1 /\ s[moving.slot] = s[moving.slot - 1]
       /\ walk.at # "rest" => moving.item \in moved

\* Every item is in an array, also while it is moved from one to another.
Kept(n) ==
    \E l \in missions \cup {NoGroup} : \E p \in 1 .. Len(list[l][Kind(n)]) :
        list[l][Kind(n)][p] = n /\ (n = moving.item => l # moving.from)

\* The walk will come to slot p of the array of list l and the kind.
NotRead(l, kind, p) ==
    \/ walk.at = "groups"
    \/ /\ walk.at \in {"test", "pack"}
       /\ \/ l = walk.l /\ kind = walk.kind /\ p > walk.n
          \/ l = walk.l /\ kind = "SDC" /\ walk.kind = "capDev"
          \/ walk.l # NoGroup /\ (l > walk.l \/ l = NoGroup)

Ahead(n) ==
    \E l \in missions \cup {NoGroup} : \E p \in 1 .. Len(list[l][Kind(n)]) :
        list[l][Kind(n)][p] = n /\ NotRead(l, Kind(n), p)

\* An item that was not disturbed has been shown or is still ahead.
ShownOrAhead ==
    walk.at # "rest" => \A n \in Items \ (moved \cup missed) : Shows(n) \/ Ahead(n)

WalkInv ==
    /\ AnnouncedUnlessLate
    /\ MissionsFirst /\ WalkWithin
    /\ Removal /\ (\A n \in Items : Kept(n))
    /\ ShownOrAhead

USE WalkAssumption

LEMMA Numbers ==
    /\ NoGroup \in Lists /\ NoGroup \notin Groups /\ NoGroup \in Int /\ Groups \subseteq Lists
    /\ \A l \in Lists : l # NoGroup => l \in Groups /\ l \in Nat /\ l > NoGroup
    /\ \A n \in Items : Kind(n) \in Kinds
BY DEF NoGroup, Lists, Kind, Kinds

\* A set of numbers has a least one.
LEMMA LeastIsThere ==
    ASSUME NEW S, S \subseteq Nat, S # {}
    PROVE  Min(S) \in S /\ \A y \in S : Min(S) <= y
<1>1. \E x \in S : \A y \in S : ~(<<y, x>> \in OpToRel(<, Nat))
  BY WFMin, NatLessThanWellFounded
<1>2. \E x \in S : \A y \in S : x <= y
  <2>1. PICK x \in S : \A y \in S : ~(<<y, x>> \in OpToRel(<, Nat))
    BY <1>1
  <2>2. \A y \in S : ~(y < x)
    BY <2>1 DEF OpToRel
  <2> QED BY <2>2
<1> QED BY <1>2 DEF Min

LEMMA NextMissionIsNext ==
    ASSUME missions \in SUBSET Groups, NEW l \in Lists
    PROVE  /\ NextMission(l) \in missions \cup {NoGroup} /\ NextMission(l) \in Lists
           /\ NextMission(l) # NoGroup => NextMission(l) > l
           /\ \A g \in missions : g > l => NextMission(l) # NoGroup /\ NextMission(l) <= g
<1> DEFINE later == {g \in missions : g > l}
<1>1. later \subseteq Nat /\ later \subseteq missions
  OBVIOUS
<1>2. CASE later = {}
  <2>1. NextMission(l) = NoGroup
    BY <1>2 DEF NextMission
  <2> QED BY <1>2, <2>1, Numbers
<1>3. CASE later # {}
  <2>1. NextMission(l) = Min(later)
    BY <1>3 DEF NextMission
  <2>2. Min(later) \in later /\ \A y \in later : Min(later) <= y
    BY <1>1, <1>3, LeastIsThere
  <2> QED BY <2>1, <2>2, Numbers
<1> QED BY <1>2, <1>3

\* The array a start makes of a set holds each of its members.
LEMMA ArrayOf ==
    ASSUME NEW S, IsFiniteSet(S)
    PROVE  SetToSeq(S) \in Seq(S) /\ \A x \in S : \E p \in 1 .. Len(SetToSeq(S)) : SetToSeq(S)[p] = x
<1> DEFINE c == Cardinality(S)
           f == SetToSeq(S)
<1>1. c \in Nat /\ ExistsBijection(1 .. c, S)
  BY FS_CardinalityType
<1>2. \E g \in [1 .. c -> S] : IsInjective(g)
  BY <1>1 DEF ExistsBijection, Bijection, Injection
<1>3. f \in [1 .. c -> S] /\ IsInjective(f)
  BY <1>2 DEF SetToSeq
<1>4. IsFiniteSet(1 .. c) /\ Cardinality(1 .. c) = c
  BY <1>1, FS_Interval
<1>5. f \in Surjection(1 .. c, S)
  <2>1. f \in Injection(1 .. c, S)
    BY <1>3 DEF Injection
  <2> HIDE DEF f
  <2> QED BY <1>4, <2>1, FS_Injection
<1> HIDE DEF f
<1>6. f \in Seq(S) /\ Len(f) = c
  BY <1>1, <1>3, SeqDef, LenProperties
<1> QED BY <1>5, <1>6 DEF Surjection, f

\* The first element that is x.
LEMMA FirstIndex ==
    ASSUME NEW s \in Seq(Items), NEW x, Contains(s, x)
    PROVE  LET k == SelectInSeq(s, LAMBDA y : y = x) IN k \in 1 .. Len(s) /\ s[k] = x
<1> DEFINE I == {k \in 1 .. Len(s) : s[k] = x}
<1>1. I # {} /\ I \subseteq Nat
  BY DEF Contains
<1>2. Min(I) \in I
  BY <1>1, LeastIsThere
<1>3. SelectInSeq(s, LAMBDA y : y = x) = Min(I)
  BY <1>1 DEF SelectInSeq
<1> QED BY <1>2, <1>3

-----------------------------------------------------------------------------
(* The requests beside the walk.                                           *)

LEMMA WalkTypes ==
    ASSUME WalkTypeOK
    PROVE  /\ missions \in SUBSET Groups /\ missions \subseteq Lists
           /\ \A l \in Lists, kind \in Kinds : list[l][kind] \in Seq(Items)
           /\ \A l \in missions \cup {NoGroup} : l \in Lists
           /\ shown \in Seq([list : Lists, item : Items \cup {NULL}]) /\ DOMAIN shown = 1 .. Len(shown)
           /\ walk.at \in {"rest", "groups", "test", "pack", "results", "push"}
           /\ walk.l \in Lists /\ walk.kind \in Kinds /\ walk.n \in Nat
           /\ late \in SUBSET Groups
BY Numbers DEF WalkTypeOK

LEMMA MissionAddKeeps ==
    ASSUME WalkInv, NEW g \in Groups, MissionAdd(g)
    PROVE  WalkInv'
<1>1. /\ missions' = missions \cup {g} /\ late' = late \cup {g} /\ moving = NotMoving
      /\ UNCHANGED <<list, moving, moves, walk, shown, down, moved, missed>>
  BY DEF MissionAdd, walker
<1>2. WalkTypeOK'
  BY <1>1 DEF WalkInv, AnnouncedUnlessLate, WalkTypeOK
<1>3. AnnouncedUnlessLate'
  BY <1>1, <1>2 DEF WalkInv, AnnouncedUnlessLate
<1>4. MissionsFirst' /\ WalkWithin' /\ Removal'
  BY <1>1 DEF WalkInv, MissionsFirst, Announced, WalkWithin, Removal
<1>5. \A n \in Items : Kept(n)'
  BY <1>1 DEF WalkInv, Kept
<1>6. ShownOrAhead'
  <2>1. \A n \in Items : Ahead(n) => Ahead(n)'
    BY <1>1 DEF Ahead, NotRead
  <2> QED BY <1>1, <2>1 DEF WalkInv, ShownOrAhead, Shows
<1> QED BY <1>3, <1>4, <1>5, <1>6 DEF WalkInv

\* An item at the end of its new list is there beside those before it.
LEMMA RegroupAddKeeps ==
    ASSUME WalkInv, NEW n \in Items, NEW from \in Lists, NEW to \in Lists, RegroupAdd(n, from, to)
    PROVE  WalkInv'
<1> DEFINE s == list[from][Kind(n)]
           t == list[to][Kind(n)]
           slot == SelectInSeq(s, LAMBDA x : x = n)
<1>1. /\ from # to /\ {from, to} \subseteq missions \cup {NoGroup} /\ Contains(s, n)
      /\ moving = NotMoving /\ moving' = [item |-> n, from |-> from, to |-> to, slot |-> slot]
      /\ moves < MaxMoves /\ moves' = moves + 1
      /\ list' = [list EXCEPT ![to][Kind(n)] = Append(t, n)]
      /\ moved' = moved \cup {n}
      /\ UNCHANGED <<missions, walk, shown, down, missed, late>>
  BY DEF RegroupAdd, walker
<1>2. WalkTypeOK /\ list \in [Lists -> [Kinds -> Seq(Items)]] /\ Kind(n) \in Kinds
      /\ s \in Seq(Items) /\ t \in Seq(Items)
  <2>1. WalkTypeOK /\ list \in [Lists -> [Kinds -> Seq(Items)]] /\ Kind(n) \in Kinds
    BY Numbers DEF WalkInv, AnnouncedUnlessLate, WalkTypeOK
  <2> QED BY <2>1
<1>3. slot \in 1 .. Len(s) /\ s[slot] = n
  BY <1>1, <1>2, FirstIndex
<1>4. /\ Append(t, n) \in Seq(Items) /\ Len(Append(t, n)) = Len(t) + 1 /\ Len(t) \in Nat
      /\ \A p \in 1 .. Len(t) : p \in 1 .. Len(Append(t, n)) /\ Append(t, n)[p] = t[p]
      /\ Append(t, n)[Len(t) + 1] = n
  <2>1. Len(t) \in Nat
    BY <1>2
  <2> QED BY <1>2, <2>1, AppendProperties
<1> HIDE DEF s, t, slot
<1>5. /\ list' \in [Lists -> [Kinds -> Seq(Items)]]
      /\ list'[to][Kind(n)] = Append(t, n)
      /\ \A l \in Lists, kind \in Kinds : l # to \/ kind # Kind(n) => list'[l][kind] = list[l][kind]
  BY <1>1, <1>2, <1>4
<1>6. \A l \in Lists, kind \in Kinds : \A p \in 1 .. Len(list[l][kind]) :
          p \in 1 .. Len(list'[l][kind]) /\ list'[l][kind][p] = list[l][kind][p]
  <2> TAKE l \in Lists, kind \in Kinds
  <2>1. CASE l = to /\ kind = Kind(n)
    BY <1>4, <1>5, <2>1 DEF t
  <2>2. CASE l # to \/ kind # Kind(n)
    BY <1>5, <2>2
  <2> QED BY <2>1, <2>2
<1>7. WalkTypeOK'
  <2>1. moves' \in 0 .. MaxMoves
    BY <1>1, <1>2 DEF WalkTypeOK
  <2>2. slot \in Nat
    BY <1>2, <1>3
  <2>3. moving' \in [item : Items \cup {NULL}, from : Lists, to : Lists, slot : Nat]
    BY <1>1, <2>2
  <2> QED BY <1>1, <1>2, <1>5, <2>1, <2>3 DEF WalkTypeOK
<1>8. AnnouncedUnlessLate'
  BY <1>1, <1>7 DEF WalkInv, AnnouncedUnlessLate
<1>9. MissionsFirst' /\ WalkWithin'
  BY <1>1 DEF WalkInv, MissionsFirst, Announced, WalkWithin
<1>10. Removal'
  <2>1. moving'.item = n /\ moving'.from = from /\ moving'.to = to /\ moving'.slot = slot
    BY <1>1
  <2>2. list'[from][Kind(n)] = s
    BY <1>1, <1>2, <1>5 DEF s
  <2> QED BY <1>1, <1>3, <2>1, <2>2 DEF Removal
<1>11. ASSUME NEW x \in Items PROVE Kept(x)'
  <2>1. moving'.item = n /\ moving'.from = from
    BY <1>1
  <2>2. CASE x = n
    <3>1. Len(t) + 1 \in 1 .. Len(list'[to][Kind(n)]) /\ list'[to][Kind(n)][Len(t) + 1] = n
      BY <1>4, <1>5
    <3> QED BY <1>1, <2>1, <2>2, <3>1 DEF Kept
  <2>3. CASE x # n
    <3>1. PICK l \in missions \cup {NoGroup} : \E p \in 1 .. Len(list[l][Kind(x)]) : list[l][Kind(x)][p] = x
      BY DEF WalkInv, Kept
    <3>2. l \in Lists /\ Kind(x) \in Kinds
      BY <1>2, <3>1, WalkTypes, Numbers
    <3> QED BY <1>1, <1>6, <2>1, <2>3, <3>1, <3>2 DEF Kept
  <2> QED BY <2>2, <2>3
<1>12. ShownOrAhead'
  <2>1. ASSUME NEW x \in Items, Ahead(x) PROVE Ahead(x)'
    <3>1. PICK l \in missions \cup {NoGroup} : \E p \in 1 .. Len(list[l][Kind(x)]) :
              list[l][Kind(x)][p] = x /\ NotRead(l, Kind(x), p)
      BY <2>1 DEF Ahead
    <3>2. l \in Lists /\ Kind(x) \in Kinds
      BY <1>2, <3>1, WalkTypes, Numbers
    <3>3. \A p : NotRead(l, Kind(x), p) => NotRead(l, Kind(x), p)'
      BY <1>1 DEF NotRead
    <3> QED BY <1>1, <1>6, <3>1, <3>2, <3>3 DEF Ahead
  <2> QED BY <1>1, <2>1 DEF WalkInv, ShownOrAhead, Shows
<1> QED BY <1>8, <1>9, <1>10, <1>11, <1>12 DEF WalkInv

\* What overwriting a slot does to the places of the items: each keeps its place,
\* or was there twice and keeps the place before.
LEMMA Overwritten ==
    ASSUME WalkInv, RegroupRemove
    PROVE  /\ moving # NotMoving /\ list' \in [Lists -> [Kinds -> Seq(Items)]]
           /\ \A l \in Lists, kind \in Kinds : l # moving.from \/ kind # Kind(moving.item) =>
                 list'[l][kind] = list[l][kind]
           /\ \A p \in 1 .. Len(list[moving.from][Kind(moving.item)]) :
                 p # moving.slot =>
                    /\ p \in 1 .. Len(list'[moving.from][Kind(moving.item)])
                    /\ list'[moving.from][Kind(moving.item)][p] = list[moving.from][Kind(moving.item)][p]
           /\ moving' = NotMoving \/
                 /\ moving'.item = moving.item /\ moving'.from = moving.from /\ moving'.to = moving.to
                 /\ moving'.slot = moving.slot + 1
                 /\ moving' \in [item : Items \cup {NULL}, from : Lists, to : Lists, slot : Nat]
                 /\ moving'.slot \in 1 .. Len(list'[moving.from][Kind(moving.item)])
                 /\ list'[moving.from][Kind(moving.item)][moving'.slot]
                       = list'[moving.from][Kind(moving.item)][moving.slot]
<1> DEFINE a == moving.from
           b == Kind(moving.item)
           j == moving.slot
           s == list[a][b]
<1>1. /\ moving # NotMoving
      /\ \/ /\ j < Len(s) /\ list' = [list EXCEPT ![a][b] = [s EXCEPT ![j] = s[j + 1]]]
            /\ moving' = [moving EXCEPT !.slot = j + 1]
         \/ /\ ~(j < Len(s)) /\ list' = [list EXCEPT ![a][b] = Front(s)] /\ moving' = NotMoving
  BY DEF RegroupRemove
<1>2. /\ moving \in [item : Items \cup {NULL}, from : Lists, to : Lists, slot : Nat]
      /\ list \in [Lists -> [Kinds -> Seq(Items)]]
      /\ moving.item \in Items /\ a \in Lists /\ b \in Kinds /\ s \in Seq(Items)
      /\ j \in 1 .. Len(s) /\ Len(s) \in Nat
  <2>1. /\ moving \in [item : Items \cup {NULL}, from : Lists, to : Lists, slot : Nat]
        /\ list \in [Lists -> [Kinds -> Seq(Items)]]
    BY DEF WalkInv, AnnouncedUnlessLate, WalkTypeOK
  <2>2. moving.item \in Items /\ j \in 1 .. Len(s)
    BY <1>1 DEF WalkInv, Removal
  <2>3. b \in Kinds /\ a \in Lists
    BY <2>1, <2>2, Numbers
  <2>4. s \in Seq(Items)
    BY <2>1, <2>3
  <2> QED BY <2>1, <2>2, <2>3, <2>4
<1> HIDE DEF a, b, j, s
<1>3. CASE j < Len(s) /\ list' = [list EXCEPT ![a][b] = [s EXCEPT ![j] = s[j + 1]]]
           /\ moving' = [moving EXCEPT !.slot = j + 1]
  <2> DEFINE s2 == [s EXCEPT ![j] = s[j + 1]]
  <2>1. /\ s2 \in Seq(Items) /\ Len(s2) = Len(s) /\ j + 1 \in 1 .. Len(s)
        /\ \A p \in 1 .. Len(s) : p # j => s2[p] = s[p]
        /\ s2[j] = s[j + 1] /\ s2[j + 1] = s[j + 1]
    <3>1. j + 1 \in 1 .. Len(s) /\ j # j + 1
      BY <1>2, <1>3
    <3>2. s[j + 1] \in Items
      BY <1>2, <3>1, ElementOfSeq
    <3>3. DOMAIN s = 1 .. Len(s)
      BY <1>2
    <3> QED BY <1>2, <3>1, <3>2, <3>3, ExceptSeq
  <2> HIDE DEF s2
  <2>2. list' = [list EXCEPT ![a][b] = s2]
    BY <1>3 DEF s2
  <2>3. /\ list' \in [Lists -> [Kinds -> Seq(Items)]] /\ list'[a][b] = s2
        /\ \A l \in Lists, kind \in Kinds : l # a \/ kind # b => list'[l][kind] = list[l][kind]
    BY <1>2, <2>1, <2>2
  <2>4. /\ moving'.item = moving.item /\ moving'.from = moving.from /\ moving'.to = moving.to
        /\ moving'.slot = j + 1
        /\ moving' \in [item : Items \cup {NULL}, from : Lists, to : Lists, slot : Nat]
    <3>1. j + 1 \in Nat
      BY <1>2
    <3> QED BY <1>2, <1>3, <3>1
  <2>5. list'[a][b][moving'.slot] = list'[a][b][j] /\ moving'.slot \in 1 .. Len(list'[a][b])
    BY <2>1, <2>3, <2>4
  <2> QED BY <1>1, <2>1, <2>3, <2>4, <2>5 DEF a, b, j, s
<1>4. CASE ~(j < Len(s)) /\ list' = [list EXCEPT ![a][b] = Front(s)] /\ moving' = NotMoving
  <2>1. /\ Front(s) \in Seq(Items) /\ Len(Front(s)) = Len(s) - 1
        /\ \A p \in 1 .. Len(s) : p # j => p \in 1 .. Len(Front(s)) /\ Front(s)[p] = s[p]
    <3> DEFINE m == Len(s) - 1
    <3>1. m \in Nat /\ j = Len(s) /\ 1 \in Int /\ m \in Int
      BY <1>2, <1>4
    <3>2. \A p \in 1 .. m : p \in 1 .. Len(s) /\ s[p] \in Items
      <4>1. \A p \in 1 .. m : p \in 1 .. Len(s)
        BY <1>2, <3>1
      <4> QED BY <1>2, <4>1, ElementOfSeq
    <3> HIDE DEF m
    <3>3. /\ SubSeq(s, 1, m) \in Seq(Items)
          /\ Len(SubSeq(s, 1, m)) = IF 1 <= m THEN m - 1 + 1 ELSE 0
          /\ \A p \in 1 .. m - 1 + 1 : SubSeq(s, 1, m)[p] = s[1 + p - 1]
      BY <3>1, <3>2, SubSeqProperties
    <3>4. Len(SubSeq(s, 1, m)) = m
      BY <3>1, <3>3
    <3>5. \A p \in 1 .. Len(s) : p # j => p \in 1 .. m /\ SubSeq(s, 1, m)[p] = s[p]
      <4> TAKE p \in 1 .. Len(s)
      <4> HAVE p # j
      <4>1. p \in 1 .. m /\ p \in 1 .. m - 1 + 1 /\ 1 + p - 1 = p
        BY <1>2, <3>1 DEF m
      <4> QED BY <3>3, <4>1
    <3>6. Front(s) = SubSeq(s, 1, m)
      BY DEF Front, m
    <3> QED BY <3>3, <3>4, <3>5, <3>6 DEF m
  <2> HIDE DEF Front
  <2>2. /\ list' \in [Lists -> [Kinds -> Seq(Items)]] /\ list'[a][b] = Front(s)
        /\ \A l \in Lists, kind \in Kinds : l # a \/ kind # b => list'[l][kind] = list[l][kind]
    BY <1>2, <1>4, <2>1
  <2> QED BY <1>1, <1>4, <2>1, <2>2 DEF a, b, j, s
<1> QED BY <1>1, <1>3, <1>4

LEMMA RegroupRemoveKeeps ==
    ASSUME WalkInv, RegroupRemove
    PROVE  WalkInv'
<1>0. PICK a \in Lists, m \in Items : moving.from = a /\ moving.item = m
  BY Overwritten DEF WalkInv, AnnouncedUnlessLate, WalkTypeOK, Removal
<1>1. PICK j \in Nat, s \in Seq(Items) :
          /\ moving.slot = j /\ s = list[a][Kind(m)] /\ j \in 1 .. Len(s)
          /\ s[j] = m \/ (j > 1 /\ s[j] = s[j - 1])
          /\ walk.at # "rest" => m \in moved
          /\ a # moving.to
  BY <1>0, Overwritten, WalkTypes, Numbers DEF WalkInv, AnnouncedUnlessLate, WalkTypeOK, Removal
<1>2. /\ missed' = IF InTheWay THEN missed \cup {s[j]} ELSE missed
      /\ UNCHANGED <<missions, moves, walk, shown, down, moved, late>>
  BY <1>0, <1>1 DEF RegroupRemove, walker
<1>3. /\ list' \in [Lists -> [Kinds -> Seq(Items)]]
      /\ \A l \in Lists, kind \in Kinds : l # a \/ kind # Kind(m) => list'[l][kind] = list[l][kind]
      /\ \A p \in 1 .. Len(s) : p # j => p \in 1 .. Len(list'[a][Kind(m)]) /\ list'[a][Kind(m)][p] = s[p]
      /\ moving' = NotMoving \/
            /\ moving'.item = m /\ moving'.from = a /\ moving'.to = moving.to /\ moving'.slot = j + 1
            /\ moving' \in [item : Items \cup {NULL}, from : Lists, to : Lists, slot : Nat]
            /\ moving'.slot \in 1 .. Len(list'[a][Kind(m)])
            /\ list'[a][Kind(m)][moving'.slot] = list'[a][Kind(m)][j]
  BY <1>0, <1>1, Overwritten
<1>4. WalkTypeOK'
  <2>1. s[j] \in Items
    BY <1>1, ElementOfSeq
  <2>2. moving' \in [item : Items \cup {NULL}, from : Lists, to : Lists, slot : Nat]
    BY <1>3, Numbers DEF NotMoving
  <2> QED BY <1>2, <1>3, <2>1, <2>2 DEF WalkInv, AnnouncedUnlessLate, WalkTypeOK
<1>5. AnnouncedUnlessLate'
  BY <1>2, <1>4 DEF WalkInv, AnnouncedUnlessLate
<1>6. MissionsFirst' /\ WalkWithin'
  BY <1>2 DEF WalkInv, MissionsFirst, Announced, WalkWithin
<1>7. Removal'
  <2>1. CASE moving' = NotMoving
    BY <2>1 DEF Removal, NotMoving
  <2>2. CASE moving' # NotMoving
    <3>1. j + 1 > 1 /\ j + 1 - 1 = j
      BY <1>1
    <3> QED BY <1>1, <1>2, <1>3, <2>2, <3>1 DEF Removal
  <2> QED BY <2>1, <2>2
\* The place of an item after the step.
<1>8. ASSUME NEW x \in Items, NEW l \in missions \cup {NoGroup}, NEW p \in 1 .. Len(list[l][Kind(x)]),
             list[l][Kind(x)][p] = x, x # m \/ l # a
      PROVE  \E q \in 1 .. Len(list'[l][Kind(x)]) :
                /\ list'[l][Kind(x)][q] = x
                /\ q = p \/ (l = a /\ Kind(x) = Kind(m) /\ p = j /\ s[j] = x /\ q = j - 1)
  <2>1. l \in Lists /\ Kind(x) \in Kinds
    BY WalkTypes, Numbers DEF WalkInv, AnnouncedUnlessLate
  <2>2. CASE l # a \/ Kind(x) # Kind(m)
    BY <1>3, <1>8, <2>1, <2>2
  <2>3. CASE l = a /\ Kind(x) = Kind(m) /\ p # j
    BY <1>1, <1>3, <1>8, <2>3
  <2>4. CASE l = a /\ Kind(x) = Kind(m) /\ p = j
    <3>1. s[j] = x /\ x # m
      BY <1>1, <1>8, <2>4
    <3>2. j - 1 \in 1 .. Len(s) /\ j - 1 # j /\ s[j - 1] = x
      BY <1>1, <3>1
    <3> QED BY <1>3, <2>4, <3>1, <3>2
  <2> QED BY <2>2, <2>3, <2>4
<1>9. ASSUME NEW x \in Items PROVE Kept(x)'
  <2>1. PICK l \in missions \cup {NoGroup} : \E p \in 1 .. Len(list[l][Kind(x)]) :
            list[l][Kind(x)][p] = x /\ (x = m => l # a)
    BY <1>0 DEF WalkInv, Kept
  <2>2. \E q \in 1 .. Len(list'[l][Kind(x)]) : list'[l][Kind(x)][q] = x
    BY <1>8, <2>1
  <2>3. x = moving'.item => l # moving'.from
    BY <1>3, <2>1 DEF NotMoving
  <2> QED BY <1>2, <2>2, <2>3 DEF Kept
<1>10. ShownOrAhead'
  <2>1. ASSUME NEW x \in Items, x \notin missed', x # m, Ahead(x) PROVE Ahead(x)'
    <3>1. PICK l \in missions \cup {NoGroup}, p \in Nat :
              p \in 1 .. Len(list[l][Kind(x)]) /\ list[l][Kind(x)][p] = x /\ NotRead(l, Kind(x), p)
      BY <2>1 DEF Ahead
    <3>2. PICK q \in 1 .. Len(list'[l][Kind(x)]) :
                /\ list'[l][Kind(x)][q] = x
                /\ q = p \/ (l = a /\ Kind(x) = Kind(m) /\ p = j /\ s[j] = x /\ q = j - 1)
      BY <1>8, <2>1, <3>1
    <3>3. NotRead(l, Kind(x), q)
      <4>1. CASE q = p
        BY <3>1, <4>1
      <4>2. CASE l = a /\ Kind(x) = Kind(m) /\ p = j /\ s[j] = x /\ q = j - 1
        <5>1. ~InTheWay
          BY <1>2, <2>1, <4>2
        <5>2. walk.n \in Nat
          BY WalkTypes DEF WalkInv, AnnouncedUnlessLate
        <5>3. walk.at \in {"test", "pack"} /\ l = walk.l /\ Kind(x) = walk.kind => walk.n + 1 # j
          BY <1>0, <1>1, <4>2, <5>1 DEF InTheWay
        <5>4. walk.at \in {"test", "pack"} /\ l = walk.l /\ Kind(x) = walk.kind /\ p > walk.n => q > walk.n
          BY <1>1, <4>2, <5>2, <5>3
        <5> QED BY <3>1, <5>4 DEF NotRead
      <4> QED BY <3>2, <4>1, <4>2
    <3>4. NotRead(l, Kind(x), q)'
      BY <1>2, <3>3 DEF NotRead
    <3> QED BY <1>2, <3>2, <3>4 DEF Ahead
  <2> QED BY <1>1, <1>2, <2>1 DEF WalkInv, ShownOrAhead, Shows
<1> QED BY <1>5, <1>6, <1>7, <1>9, <1>10 DEF WalkInv

-----------------------------------------------------------------------------
(* The walk.                                                               *)

\* A message is packed behind those that are there.
LEMMA Packed ==
    ASSUME WalkTypeOK, NEW m \in [list : Lists, item : Items \cup {NULL}], shown' = Append(shown, m)
    PROVE  /\ shown' \in Seq([list : Lists, item : Items \cup {NULL}]) /\ DOMAIN shown' = 1 .. Len(shown) + 1
           /\ \A k \in 1 .. Len(shown) : shown'[k] = shown[k]
           /\ shown'[Len(shown) + 1] = m /\ Len(shown) \in Nat /\ Len(shown') = Len(shown) + 1
BY AppendProperties DEF WalkTypeOK

\* A step that packs at most one message, for a mission announced if not late.
LEMMA StillAnnounced ==
    ASSUME AnnouncedUnlessLate, WalkTypeOK', UNCHANGED <<missions, late>>,
           \/ shown' = shown
           \/ \E l \in Lists, x \in Items \cup {NULL} :
                 /\ shown' = Append(shown, [list |-> l, item |-> x])
                 /\ x = NULL \/ (l \in Groups \ late => Announced(l))
    PROVE  /\ AnnouncedUnlessLate'
           /\ \A g \in Groups : Announced(g) => Announced(g)'
           /\ \A n \in Items : Shows(n) => Shows(n)'
<1>1. CASE shown' = shown
  BY <1>1 DEF AnnouncedUnlessLate, Announced, Shows
<1>2. ASSUME NEW l \in Lists, NEW x \in Items \cup {NULL},
             shown' = Append(shown, [list |-> l, item |-> x]),
             x = NULL \/ (l \in Groups \ late => Announced(l))
      PROVE  /\ AnnouncedUnlessLate'
             /\ \A g \in Groups : Announced(g) => Announced(g)'
             /\ \A n \in Items : Shows(n) => Shows(n)'
  <2>1. PICK c \in Nat :
            /\ c = Len(shown) /\ DOMAIN shown = 1 .. c /\ DOMAIN shown' = 1 .. c + 1 /\ Len(shown') = c + 1
            /\ \A k \in 1 .. c : shown'[k] = shown[k]
            /\ shown'[c + 1] = [list |-> l, item |-> x]
    BY <1>2, Packed, WalkTypes DEF AnnouncedUnlessLate
  <2>2. \A k \in 1 .. c : k \in 1 .. c + 1
    BY <2>1
  <2>3. ASSUME NEW k \in DOMAIN shown', shown'[k].list \in Groups \ late
        PROVE  \E k2 \in 1 .. k : shown'[k2] = [list |-> shown'[k].list, item |-> NULL]
    <3>1. CASE k = c + 1
      <4>1. shown'[k].list = l
        BY <2>1, <3>1
      <4>2. CASE x = NULL
        <5>1. k \in 1 .. k
          BY <3>1
        <5> QED BY <2>1, <3>1, <4>1, <4>2, <5>1
      <4>3. CASE x # NULL
        <5>1. PICK k2 \in 1 .. c : shown[k2] = [list |-> l, item |-> NULL]
          BY <1>2, <2>1, <2>3, <4>1, <4>3 DEF Announced
        <5>2. k2 \in 1 .. k
          BY <3>1, <5>1
        <5> QED BY <2>1, <4>1, <5>1, <5>2
      <4> QED BY <4>2, <4>3
    <3>2. CASE k # c + 1
      <4>1. k \in 1 .. c /\ shown'[k] = shown[k]
        BY <2>1, <3>2
      <4>2. PICK k2 \in 1 .. k : shown[k2] = [list |-> shown[k].list, item |-> NULL]
        BY <2>1, <2>3, <4>1 DEF AnnouncedUnlessLate
      <4>3. k2 \in 1 .. c
        BY <4>1, <4>2
      <4> QED BY <2>1, <4>1, <4>2, <4>3
    <3> QED BY <3>1, <3>2
  <2>4. AnnouncedUnlessLate'
    BY <2>3 DEF AnnouncedUnlessLate
  <2>5. \A g \in Groups : Announced(g) => Announced(g)'
    BY <2>1, <2>2 DEF Announced
  <2>6. \A n \in Items : Shows(n) => Shows(n)'
    BY <2>1, <2>2 DEF Shows
  <2> QED BY <2>4, <2>5, <2>6
<1> QED BY <1>1, <1>2

\* The walk moves no item.
LEMMA WalkMovesNothing ==
    ASSUME WalkInv, UNCHANGED <<missions, list, moving>>, moved \subseteq moved',
           walk'.at = "rest" \/ walk.at # "rest"
    PROVE  Removal' /\ \A n \in Items : Kept(n)'
<1>1. Removal'
  BY DEF WalkInv, Removal
<1>2. \A n \in Items : Kept(n)'
  BY DEF WalkInv, Kept
<1> QED BY <1>1, <1>2

LEMMA BeginKeeps ==
    ASSUME WalkInv, Begin
    PROVE  WalkInv'
<1>1. /\ walk = Rest /\ shown' = <<>> /\ walk' = [at |-> "groups", l |-> NoGroup, kind |-> "capDev", n |-> 0]
      /\ moved' = IF moving = NotMoving THEN {} ELSE {moving.item}
      /\ missed' = {} /\ late' = {} /\ UNCHANGED <<missions, list, moving, moves, down>>
  BY DEF Begin, At, lists
<1>2. walk'.at = "groups" /\ walk'.l = NoGroup
  BY <1>1
<1>3. WalkTypeOK'
  <2>1. moved' \in SUBSET Items
    BY <1>1 DEF WalkInv, Removal
  <2>2. walk' \in [at : {"rest", "groups", "test", "pack", "results", "push"}, l : Lists, kind : Kinds, n : Nat]
    BY <1>1, Numbers DEF Kinds
  <2> QED BY <1>1, <2>1, <2>2 DEF WalkInv, AnnouncedUnlessLate, WalkTypeOK
<1>4. AnnouncedUnlessLate'
  BY <1>1, <1>3 DEF AnnouncedUnlessLate
<1>5. MissionsFirst'
  <2>1. \A g \in missions' : ~(g <= NoGroup)
    <3>1. missions' \subseteq Groups
      BY <1>1, WalkTypes DEF WalkInv, AnnouncedUnlessLate
    <3> QED BY <3>1, Numbers DEF NoGroup
  <2> QED BY <1>2, <2>1 DEF MissionsFirst
<1>6. WalkWithin'
  BY <1>2 DEF WalkWithin
<1>7. Removal'
  BY <1>1 DEF WalkInv, Removal
<1>8. \A n \in Items : Kept(n)'
  BY <1>1 DEF WalkInv, Kept
<1>9. ShownOrAhead'
  <2> SUFFICES ASSUME NEW n \in Items PROVE Ahead(n)'
    BY DEF ShownOrAhead
  <2> QED BY <1>2, <1>8 DEF Kept, Ahead, NotRead
<1> QED BY <1>4, <1>5, <1>6, <1>7, <1>8, <1>9 DEF WalkInv

LEMMA PackGroupKeeps ==
    ASSUME WalkInv, PackGroup
    PROVE  WalkInv'
<1>1. PICK l \in Lists : walk.at = "groups" /\ walk.l = l /\ l \in missions \cup {NoGroup}
  BY WalkTypes DEF PackGroup, WalkInv, AnnouncedUnlessLate, WalkWithin
<1>2. PICK g \in Lists : g = NextMission(l)
  BY NextMissionIsNext, WalkTypes DEF WalkInv, AnnouncedUnlessLate
<1>3. /\ g \in missions \cup {NoGroup} /\ (g # NoGroup => g > l)
      /\ \A h \in missions : h > l => g # NoGroup /\ g <= h
  BY <1>2, NextMissionIsNext, WalkTypes DEF WalkInv, AnnouncedUnlessLate
<1>4. PICK f \in Lists : f = NextMission(NoGroup)
  BY NextMissionIsNext, WalkTypes, Numbers DEF WalkInv, AnnouncedUnlessLate
<1>5. /\ f \in missions \cup {NoGroup}
      /\ \A h \in missions : h > NoGroup => f # NoGroup /\ f <= h
  BY <1>4, NextMissionIsNext, WalkTypes, Numbers DEF WalkInv, AnnouncedUnlessLate
<1>6. /\ UNCHANGED <<missions, list, moving, moves, down, moved, missed, late>>
      /\ IF g # NoGroup
            THEN /\ shown' = Append(shown, [list |-> g, item |-> NULL])
                 /\ walk' = [at |-> "groups", l |-> g, kind |-> "capDev", n |-> 0]
            ELSE /\ shown' = shown
                 /\ walk' = [at |-> "test", l |-> f, kind |-> "capDev", n |-> 0]
  BY <1>1, <1>2, <1>4 DEF PackGroup, Pack, At, lists, ghosts
<1>7. \A h \in missions : h \in Nat /\ h \in Groups /\ h > NoGroup
  BY WalkTypes, Numbers DEF WalkInv, AnnouncedUnlessLate
<1>8. WalkTypeOK'
  <2>1. walk' \in [at : {"rest", "groups", "test", "pack", "results", "push"}, l : Lists, kind : Kinds, n : Nat]
    BY <1>2, <1>4, <1>6 DEF Kinds
  <2>2. [list |-> g, item |-> NULL] \in [list : Lists, item : Items \cup {NULL}]
    BY <1>2
  <2>3. shown' \in Seq([list : Lists, item : Items \cup {NULL}])
    BY <1>6, <2>2, Packed, WalkTypes DEF WalkInv, AnnouncedUnlessLate
  <2> QED BY <1>6, <2>1, <2>3 DEF WalkInv, AnnouncedUnlessLate, WalkTypeOK
<1>9. /\ AnnouncedUnlessLate'
      /\ \A h \in Groups : Announced(h) => Announced(h)'
      /\ \A n \in Items : Shows(n) => Shows(n)'
  BY <1>2, <1>6, <1>8, StillAnnounced DEF WalkInv
<1>10. MissionsFirst'
  <2>1. \A h \in missions \ late : h <= l => Announced(h)
    BY <1>1 DEF WalkInv, MissionsFirst
  <2>2. CASE g # NoGroup
    <3>1. walk'.at = "groups" /\ walk'.l = g
      BY <1>6, <2>2
    <3>2. Announced(g)'
      <4>1. shown' = Append(shown, [list |-> g, item |-> NULL])
            /\ [list |-> g, item |-> NULL] \in [list : Lists, item : Items \cup {NULL}]
        BY <1>2, <1>6, <2>2
      <4>2. shown'[Len(shown) + 1] = [list |-> g, item |-> NULL] /\ Len(shown) \in Nat /\ Len(shown') = Len(shown) + 1
        BY <4>1, Packed DEF WalkInv, AnnouncedUnlessLate
      <4>3. Len(shown) + 1 \in 1 .. Len(shown')
        BY <4>2
      <4> QED BY <4>2, <4>3 DEF Announced
    <3>3. \A h \in missions : h <= g => h <= l \/ h = g
      <4>1. g \in Nat /\ l \in Int
        BY <1>1, <1>3, <1>7, <2>2, Numbers
      <4> QED BY <1>3, <1>7, <4>1
    <3> QED BY <1>6, <1>7, <1>9, <2>1, <3>1, <3>2, <3>3 DEF MissionsFirst
  <2>3. CASE g = NoGroup
    <3>1. walk'.at = "test"
      BY <1>6, <2>3
    <3>2. \A h \in missions : h <= l
      <4>1. l \in Int
        BY <1>1, <1>7, Numbers
      <4> QED BY <1>3, <1>7, <2>3, <4>1
    <3> QED BY <1>6, <1>7, <1>9, <2>1, <3>1, <3>2 DEF MissionsFirst
  <2> QED BY <2>2, <2>3
<1>11. WalkWithin'
  BY <1>3, <1>5, <1>6 DEF WalkWithin
<1>12. Removal' /\ \A n \in Items : Kept(n)'
  BY <1>1, <1>6, WalkMovesNothing
<1>13. ShownOrAhead'
  <2>1. ASSUME NEW n \in Items, Ahead(n) PROVE Ahead(n)'
    <3>1. PICK m \in missions \cup {NoGroup} : \E p \in 1 .. Len(list[m][Kind(n)]) : list[m][Kind(n)][p] = n
      BY <2>1 DEF Ahead
    <3>2. \A p \in 1 .. Len(list[m][Kind(n)]) : NotRead(m, Kind(n), p)'
      <4>1. CASE g # NoGroup
        <5>1. walk'.at = "groups"
          BY <1>6, <4>1
        <5> QED BY <5>1 DEF NotRead
      <4>2. CASE g = NoGroup
        <5>1. walk'.at = "test" /\ walk'.l = f /\ walk'.kind = "capDev" /\ walk'.n = 0
          BY <1>6, <4>2
        <5>2. Kind(n) \in {"capDev", "SDC"} /\ \A p \in 1 .. Len(list[m][Kind(n)]) : p > 0
          BY Numbers DEF Kinds
        <5>3. m = f \/ (f # NoGroup /\ (m > f \/ m = NoGroup))
          <6>1. CASE m = NoGroup
            BY <6>1
          <6>2. CASE m # NoGroup
            <7>1. m \in missions /\ m \in Nat /\ f # NoGroup /\ f <= m
              BY <1>5, <1>7, <3>1, <6>2
            <7>2. f \in Nat
              BY <1>5, <1>7, <7>1
            <7> QED BY <7>1, <7>2
          <6> QED BY <6>1, <6>2
        <5> QED BY <5>1, <5>2, <5>3 DEF NotRead
      <4> QED BY <4>1, <4>2
    <3> QED BY <1>6, <3>1, <3>2 DEF Ahead
  <2> QED BY <1>1, <1>6, <1>9, <2>1 DEF WalkInv, ShownOrAhead
<1> QED BY <1>9, <1>10, <1>11, <1>12, <1>13 DEF WalkInv

\* The end of an array is the end of its items, and the missions are ended in turn.
LEMMA TestSlotKeeps ==
    ASSUME WalkInv, TestSlot
    PROVE  WalkInv'
<1>1. PICK l \in Lists, kind \in Kinds, c \in Nat :
          walk.at = "test" /\ walk.l = l /\ walk.kind = kind /\ walk.n = c
  BY WalkTypes DEF TestSlot, WalkInv, AnnouncedUnlessLate
<1>2. PICK g \in Lists : g = NextMission(l)
  BY NextMissionIsNext, WalkTypes DEF WalkInv, AnnouncedUnlessLate
<1>3. /\ g \in missions \cup {NoGroup}
      /\ \A h \in missions : h > l => g # NoGroup /\ g <= h
  BY <1>2, NextMissionIsNext, WalkTypes DEF WalkInv, AnnouncedUnlessLate
<1>4. /\ UNCHANGED <<missions, list, moving, moves, shown, down, moved, missed, late>>
      /\ IF c < Len(list[l][kind])
            THEN walk' = [walk EXCEPT !.at = "pack"]
            ELSE walk' = IF kind = "capDev" THEN [at |-> "test", l |-> l, kind |-> "SDC", n |-> 0]
                         ELSE IF l # NoGroup THEN [at |-> "test", l |-> g, kind |-> "capDev", n |-> 0]
                         ELSE [at |-> "results", l |-> NoGroup, kind |-> "capDev", n |-> 0]
  BY <1>1, <1>2 DEF TestSlot, Advance, At, lists, ghosts
<1>5. \A h \in missions : h \in Nat /\ h \in Groups
  BY WalkTypes, Numbers DEF WalkInv, AnnouncedUnlessLate
<1>6. walk \in [at : {"rest", "groups", "test", "pack", "results", "push"}, l : Lists, kind : Kinds, n : Nat]
  BY DEF WalkInv, AnnouncedUnlessLate, WalkTypeOK
<1>7. walk' \in [at : {"rest", "groups", "test", "pack", "results", "push"}, l : Lists, kind : Kinds, n : Nat]
      /\ walk'.at \in {"test", "pack", "results"} /\ walk'.l \in missions \cup {NoGroup}
  <2>1. l \in missions \cup {NoGroup}
    BY <1>1 DEF WalkInv, WalkWithin
  <2> QED BY <1>1, <1>3, <1>4, <1>6, <2>1, Numbers DEF Kinds
<1>8. WalkTypeOK'
  BY <1>4, <1>7 DEF WalkInv, AnnouncedUnlessLate, WalkTypeOK
<1>9. AnnouncedUnlessLate'
  BY <1>4, <1>8 DEF WalkInv, AnnouncedUnlessLate
<1>10. MissionsFirst' /\ WalkWithin'
  BY <1>1, <1>4, <1>7 DEF WalkInv, MissionsFirst, Announced, WalkWithin
<1>11. Removal' /\ \A n \in Items : Kept(n)'
  BY <1>1, <1>4, WalkMovesNothing
<1>12. ShownOrAhead'
  <2>1. ASSUME NEW n \in Items, Ahead(n) PROVE Ahead(n)'
    <3>1. PICK m \in missions \cup {NoGroup}, p \in Nat :
              p \in 1 .. Len(list[m][Kind(n)]) /\ list[m][Kind(n)][p] = n /\ NotRead(m, Kind(n), p)
      BY <2>1 DEF Ahead
    <3>2. \/ m = l /\ Kind(n) = kind /\ p > c
          \/ m = l /\ Kind(n) = "SDC" /\ kind = "capDev"
          \/ l # NoGroup /\ (m > l \/ m = NoGroup)
      BY <1>1, <3>1 DEF NotRead
    <3>3. NotRead(m, Kind(n), p)'
      <4>1. CASE c < Len(list[l][kind])
        <5>1. walk'.at = "pack" /\ walk'.l = l /\ walk'.kind = kind /\ walk'.n = c
          BY <1>1, <1>4, <1>6, <4>1
        <5> QED BY <3>2, <5>1 DEF NotRead
      <4>2. CASE ~(c < Len(list[l][kind]))
        <5>1. Len(list[l][kind]) \in Nat
          BY WalkTypes DEF WalkInv, AnnouncedUnlessLate
        <5>2. ~(m = l /\ Kind(n) = kind /\ p > c)
          BY <3>1, <4>2, <5>1
        <5>3. CASE kind = "capDev"
          <6>1. walk'.at = "test" /\ walk'.l = l /\ walk'.kind = "SDC" /\ walk'.n = 0 /\ p > 0
            BY <1>4, <3>1, <4>2, <5>3
          <6> QED BY <3>2, <5>2, <6>1 DEF NotRead
        <5>4. CASE kind # "capDev"
          <6>1. l # NoGroup /\ (m > l \/ m = NoGroup)
            BY <3>2, <5>2, <5>4
          <6>2. walk'.at = "test" /\ walk'.l = g /\ walk'.kind = "capDev" /\ walk'.n = 0 /\ p > 0
            BY <1>4, <3>1, <4>2, <5>4, <6>1
          <6>3. m = g \/ (g # NoGroup /\ (m > g \/ m = NoGroup))
            <7>1. CASE m = NoGroup
              BY <7>1
            <7>2. CASE m # NoGroup
              <8>1. m \in missions /\ m \in Nat /\ g # NoGroup /\ g <= m
                BY <1>3, <1>5, <3>1, <6>1, <7>2
              <8>2. g \in Nat
                BY <1>3, <1>5, <8>1
              <8> QED BY <8>1, <8>2
            <7> QED BY <7>1, <7>2
          <6>4. Kind(n) \in {"capDev", "SDC"}
            BY Numbers DEF Kinds
          <6> QED BY <6>2, <6>3, <6>4 DEF NotRead
        <5> QED BY <5>3, <5>4
      <4> QED BY <4>1, <4>2
    <3> QED BY <1>4, <3>1, <3>3 DEF Ahead
  <2> QED BY <1>1, <1>4, <2>1 DEF WalkInv, ShownOrAhead, Shows
<1> QED BY <1>9, <1>10, <1>11, <1>12 DEF WalkInv

LEMMA PackItemKeeps ==
    ASSUME WalkInv, PackItem
    PROVE  WalkInv'
<1>1. PICK l \in Lists, kind \in Kinds, c \in Nat :
          walk.at = "pack" /\ walk.l = l /\ walk.kind = kind /\ walk.n = c
  BY WalkTypes DEF PackItem, WalkInv, AnnouncedUnlessLate
<1>2. PICK s \in Seq(Items) : s = list[l][kind]
  BY WalkTypes DEF WalkInv, AnnouncedUnlessLate
<1>3. /\ UNCHANGED <<missions, list, moving, moves, down, moved, missed, late>>
      /\ \/ c + 1 <= Len(s) /\ shown' = Append(shown, [list |-> l, item |-> s[c + 1]])
         \/ c + 1 > Len(s) /\ shown' = shown
      /\ walk' = [walk EXCEPT !.at = "test", !.n = c + 1]
  BY <1>1, <1>2 DEF PackItem, Pack, lists, ghosts
<1>4. /\ walk'.at = "test" /\ walk'.l = l /\ walk'.kind = kind /\ walk'.n = c + 1
      /\ walk' \in [at : {"rest", "groups", "test", "pack", "results", "push"}, l : Lists, kind : Kinds, n : Nat]
  <2>1. walk \in [at : {"rest", "groups", "test", "pack", "results", "push"}, l : Lists, kind : Kinds, n : Nat]
    BY DEF WalkInv, AnnouncedUnlessLate, WalkTypeOK
  <2>2. walk = [at |-> "pack", l |-> l, kind |-> kind, n |-> c]
    BY <1>1, <2>1
  <2>3. walk' = [at |-> "test", l |-> l, kind |-> kind, n |-> c + 1]
    BY <1>3, <2>2
  <2> QED BY <2>3
<1>5. c + 1 <= Len(s) => s[c + 1] \in Items /\ c + 1 \in 1 .. Len(s)
  <2>1. c + 1 <= Len(s) => c + 1 \in 1 .. Len(s)
    BY <1>2
  <2> QED BY <1>2, <2>1, ElementOfSeq
<1>6. WalkTypeOK'
  <2>1. shown' \in Seq([list : Lists, item : Items \cup {NULL}])
    <3>1. CASE c + 1 <= Len(s) /\ shown' = Append(shown, [list |-> l, item |-> s[c + 1]])
      <4>1. [list |-> l, item |-> s[c + 1]] \in [list : Lists, item : Items \cup {NULL}]
        BY <1>5, <3>1
      <4> QED BY <3>1, <4>1, Packed DEF WalkInv, AnnouncedUnlessLate
    <3>2. CASE shown' = shown
      BY <3>2 DEF WalkInv, AnnouncedUnlessLate, WalkTypeOK
    <3> QED BY <1>3, <3>1, <3>2
  <2> QED BY <1>3, <1>4, <2>1 DEF WalkInv, AnnouncedUnlessLate, WalkTypeOK
<1>7. l \in missions \cup {NoGroup}
  BY <1>1 DEF WalkInv, WalkWithin
<1>8. /\ AnnouncedUnlessLate'
      /\ \A h \in Groups : Announced(h) => Announced(h)'
      /\ \A n \in Items : Shows(n) => Shows(n)'
  <2>1. l \in Groups \ late => Announced(l)
    BY <1>1, <1>7, Numbers DEF WalkInv, MissionsFirst
  <2> QED BY <1>3, <1>5, <1>6, <2>1, StillAnnounced DEF WalkInv
<1>9. MissionsFirst' /\ WalkWithin'
  <2>1. \A h \in missions : h \in Groups
    BY WalkTypes DEF WalkInv, AnnouncedUnlessLate
  <2> QED BY <1>1, <1>3, <1>4, <1>7, <1>8, <2>1 DEF WalkInv, MissionsFirst, WalkWithin
<1>10. Removal' /\ \A n \in Items : Kept(n)'
  BY <1>1, <1>3, WalkMovesNothing
<1>11. ShownOrAhead'
  <2>1. ASSUME NEW n \in Items, Ahead(n) PROVE Ahead(n)' \/ Shows(n)'
    <3>1. PICK m \in missions \cup {NoGroup}, p \in Nat :
              p \in 1 .. Len(list[m][Kind(n)]) /\ list[m][Kind(n)][p] = n /\ NotRead(m, Kind(n), p)
      BY <2>1 DEF Ahead
    <3>2. CASE m = l /\ Kind(n) = kind /\ p = c + 1
      <4>1. s[c + 1] = n /\ c + 1 <= Len(s) /\ ~(c + 1 > Len(s))
        BY <1>2, <3>1, <3>2
      <4>2. shown' = Append(shown, [list |-> l, item |-> n])
            /\ [list |-> l, item |-> n] \in [list : Lists, item : Items \cup {NULL}]
        BY <1>3, <4>1
      <4>3. /\ DOMAIN shown' = 1 .. Len(shown) + 1 /\ Len(shown) \in Nat
            /\ shown'[Len(shown) + 1] = [list |-> l, item |-> n]
        BY <4>2, Packed DEF WalkInv, AnnouncedUnlessLate
      <4>4. Len(shown) + 1 \in DOMAIN shown'
        BY <4>3
      <4> QED BY <4>3, <4>4 DEF Shows
    <3>3. CASE ~(m = l /\ Kind(n) = kind /\ p = c + 1)
      <4>1. p > c /\ p # c + 1 => p > c + 1
        BY <3>1
      <4>2. NotRead(m, Kind(n), p)'
        BY <1>1, <1>4, <3>1, <3>3, <4>1 DEF NotRead
      <4> QED BY <1>3, <3>1, <4>2 DEF Ahead
    <3> QED BY <3>2, <3>3
  <2> QED BY <1>1, <1>3, <1>8, <2>1 DEF WalkInv, ShownOrAhead
<1> QED BY <1>8, <1>9, <1>10, <1>11 DEF WalkInv

\* The walk over the results begins when nothing is ahead, and ends the update.
LEMMA PackResultsKeeps ==
    ASSUME WalkInv, PackResults
    PROVE  WalkInv'
<1>1. /\ UNCHANGED <<missions, list, moving, moves, shown, down, moved, missed, late>>
      /\ \/ walk.at = "results" /\ walk' = [walk EXCEPT !.at = "push"]
         \/ walk.at = "push" /\ walk' = walk
         \/ walk.at = "push" /\ walk' = Rest
  BY DEF PackResults, lists, ghosts
<1>2. walk \in [at : {"rest", "groups", "test", "pack", "results", "push"}, l : Lists, kind : Kinds, n : Nat]
  BY DEF WalkInv, AnnouncedUnlessLate, WalkTypeOK
<1>3. /\ walk' \in [at : {"rest", "groups", "test", "pack", "results", "push"}, l : Lists, kind : Kinds, n : Nat]
      /\ \/ walk'.at = "push" /\ walk'.l = walk.l
         \/ walk' = Rest /\ walk'.at = "rest" /\ walk'.l = NoGroup
      /\ walk.at \in {"results", "push"}
  BY <1>1, <1>2, Numbers DEF Rest, Kinds
<1>4. WalkTypeOK'
  BY <1>1, <1>3 DEF WalkInv, AnnouncedUnlessLate, WalkTypeOK
<1>5. AnnouncedUnlessLate'
  BY <1>1, <1>4 DEF WalkInv, AnnouncedUnlessLate
<1>6. MissionsFirst' /\ WalkWithin'
  BY <1>1, <1>3 DEF WalkInv, MissionsFirst, Announced, WalkWithin
<1>7. Removal' /\ \A n \in Items : Kept(n)'
  BY <1>1, <1>3, WalkMovesNothing
<1>8. ShownOrAhead'
  <2>1. \A n \in Items : ~Ahead(n)
    BY <1>3 DEF Ahead, NotRead
  <2> QED BY <1>1, <1>3, <2>1 DEF WalkInv, ShownOrAhead, Shows
<1> QED BY <1>5, <1>6, <1>7, <1>8 DEF WalkInv

-----------------------------------------------------------------------------
(* The update as a whole.                                                  *)

LEMMA InitWalkInv == WalkInit => WalkInv
<1> SUFFICES ASSUME WalkInit PROVE WalkInv
  OBVIOUS
<1>1. PICK home \in [Items -> missions \cup {NoGroup}] :
          list = [l \in Lists |-> [kind \in Kinds |->
                     SetToSeq({n \in Items : Kind(n) = kind /\ home[n] = l})]]
  BY DEF WalkInit
<1>2. /\ missions \in SUBSET Groups /\ moving = NotMoving /\ moves = 0 /\ walk = Rest /\ shown = <<>>
      /\ down = FALSE /\ moved = {} /\ missed = {} /\ late = {}
  BY DEF WalkInit
<1>3. \A l \in Lists, kind \in Kinds :
          /\ list[l][kind] \in Seq(Items)
          /\ \A x \in Items : Kind(x) = kind /\ home[x] = l =>
                \E p \in 1 .. Len(list[l][kind]) : list[l][kind][p] = x
  <2> TAKE l \in Lists, kind \in Kinds
  <2> DEFINE S == {n \in Items : Kind(n) = kind /\ home[n] = l}
  <2>1. S \in SUBSET Items /\ list[l][kind] = SetToSeq(S)
    BY <1>1
  <2>2. IsFiniteSet(S)
    BY <2>1, FS_Subset
  <2>3. SetToSeq(S) \in Seq(S) /\ \A x \in S : \E p \in 1 .. Len(SetToSeq(S)) : SetToSeq(S)[p] = x
    BY <2>2, ArrayOf
  <2>4. SetToSeq(S) \in Seq(Items)
    BY <2>1, <2>3
  <2> QED BY <2>1, <2>3, <2>4
<1>4. WalkTypeOK
  <2>1. list \in [Lists -> [Kinds -> Seq(Items)]]
    BY <1>1, <1>3
  <2>2. moving \in [item : Items \cup {NULL}, from : Lists, to : Lists, slot : Nat]
        /\ walk \in [at : {"rest", "groups", "test", "pack", "results", "push"}, l : Lists, kind : Kinds, n : Nat]
    BY <1>2, Numbers DEF NotMoving, Rest, Kinds
  <2>3. <<>> \in Seq([list : Lists, item : Items \cup {NULL}])
    OBVIOUS
  <2>4. shown \in Seq([list : Lists, item : Items \cup {NULL}])
    BY <1>2, <2>3, Zenon
  <2>5. missions \in SUBSET Groups /\ moves \in 0 .. MaxMoves /\ down \in BOOLEAN
        /\ moved \in SUBSET Items /\ missed \in SUBSET Items /\ late \in SUBSET Groups
    <3>1. 0 \in 0 .. MaxMoves
      BY WalkAssumption
    <3> QED BY <1>2, <3>1, Zenon
  <2> QED BY <2>1, <2>2, <2>4, <2>5, Zenon DEF WalkTypeOK
<1>5. AnnouncedUnlessLate
  BY <1>2, <1>4 DEF AnnouncedUnlessLate
<1>6. MissionsFirst /\ WalkWithin /\ Removal /\ ShownOrAhead
  BY <1>2 DEF MissionsFirst, WalkWithin, Removal, ShownOrAhead, Rest
<1>7. ASSUME NEW n \in Items PROVE Kept(n)
  <2>1. n # moving.item
    BY <1>2 DEF NotMoving
  <2>2. home[n] \in missions \cup {NoGroup} /\ home[n] \in Lists /\ Kind(n) \in Kinds
    BY <1>2, Numbers
  <2>3. \E p \in 1 .. Len(list[home[n]][Kind(n)]) : list[home[n]][Kind(n)][p] = n
    BY <1>3, <2>2
  <2> QED BY <2>1, <2>2, <2>3 DEF Kept
<1> QED BY <1>5, <1>6, <1>7 DEF WalkInv

\* Only the end of the walk over the results ends an update.
LEMMA StepWalkInv ==
    ASSUME WalkInv, [UpdateNext]_allVars
    PROVE  WalkInv' /\ (walk # Rest /\ walk' = Rest =>
                           walk.at = "push" /\ UNCHANGED <<shown, moved, missed>>)
<1>1. CASE Begin
  BY <1>1, BeginKeeps DEF Begin
<1>2. CASE PackGroup
  BY <1>2, PackGroupKeeps DEF PackGroup, At, Rest
<1>3. CASE TestSlot
  <2>1. walk'.at # "rest"
    BY <1>3, WalkTypes DEF TestSlot, Advance, At, WalkInv, AnnouncedUnlessLate, WalkTypeOK
  <2> QED BY <1>3, <2>1, TestSlotKeeps DEF Rest
<1>4. CASE PackItem
  <2>1. walk'.at # "rest"
    <3>1. walk \in [at : {"rest", "groups", "test", "pack", "results", "push"}, l : Lists, kind : Kinds, n : Nat]
      BY DEF WalkInv, AnnouncedUnlessLate, WalkTypeOK
    <3> QED BY <1>4, <3>1 DEF PackItem
  <2> QED BY <1>4, <2>1, PackItemKeeps DEF Rest
<1>5. CASE PackResults
  <2>1. walk # Rest /\ walk' = Rest => walk.at = "push"
    <3>1. walk \in [at : {"rest", "groups", "test", "pack", "results", "push"}, l : Lists, kind : Kinds, n : Nat]
      BY DEF WalkInv, AnnouncedUnlessLate, WalkTypeOK
    <3> QED BY <1>5, <3>1 DEF PackResults, Rest
  <2> QED BY <1>5, <2>1, PackResultsKeeps DEF PackResults, ghosts
<1>6. CASE Crash
  <2>1. UNCHANGED <<missions, list, moving, moves, walk, shown, moved, missed, late>> /\ down' \in BOOLEAN
    BY <1>6 DEF Crash, lists, ghosts
  <2>2. AnnouncedUnlessLate'
    BY <2>1 DEF WalkInv, AnnouncedUnlessLate, WalkTypeOK
  <2>3. /\ MissionsFirst' /\ WalkWithin' /\ Removal' /\ ShownOrAhead'
        /\ \A n \in Items : Kept(n)'
    BY <2>1 DEF WalkInv, MissionsFirst, Announced, WalkWithin, Removal, ShownOrAhead, Shows, Ahead, NotRead, Kept
  <2> QED BY <2>1, <2>2, <2>3 DEF WalkInv
<1>7. CASE RegroupRemove
  BY <1>7, RegroupRemoveKeeps DEF RegroupRemove, walker
<1>8. ASSUME NEW g \in Groups, MissionAdd(g) PROVE WalkInv' /\ walk' = walk
  BY <1>8, MissionAddKeeps DEF MissionAdd, walker
<1>9. ASSUME NEW n \in Items, NEW from \in Lists, NEW to \in Lists, RegroupAdd(n, from, to)
      PROVE  WalkInv' /\ walk' = walk
  BY <1>9, RegroupAddKeeps DEF RegroupAdd, walker
<1>10. CASE UNCHANGED <<lists, walker, ghosts>>
  <2>1. UNCHANGED <<missions, list, moving, moves, walk, shown, down, moved, missed, late>>
    BY <1>10 DEF lists, walker, ghosts
  <2>2. AnnouncedUnlessLate'
    BY <2>1 DEF WalkInv, AnnouncedUnlessLate, WalkTypeOK
  <2>3. /\ MissionsFirst' /\ WalkWithin' /\ Removal' /\ ShownOrAhead'
        /\ \A n \in Items : Kept(n)'
    BY <2>1 DEF WalkInv, MissionsFirst, Announced, WalkWithin, Removal, ShownOrAhead, Shows, Ahead, NotRead, Kept
  <2> QED BY <2>1, <2>2, <2>3 DEF WalkInv
<1>11. CASE UNCHANGED allVars
  BY <1>10, <1>11 DEF allVars
<1> QED BY <1>1, <1>2, <1>3, <1>4, <1>5, <1>6, <1>7, <1>8, <1>9, <1>10, <1>11 DEF UpdateNext, Step

LEMMA UpdateInvariance == UpdateSpec => []WalkInv
<1>1. WalkInv /\ [UpdateNext]_allVars => WalkInv'
  BY StepWalkInv
<1> QED BY <1>1, InitWalkInv, PTL DEF UpdateSpec

\* Wherever missions are added and items moved under the walk, a client knows
\* the mission of an item before the item, unless the mission came too late.
THEOREM MissionsAreAnnounced == UpdateSpec => []AnnouncedUnlessLate
<1>1. WalkInv => AnnouncedUnlessLate
  BY DEF WalkInv
<1> QED BY <1>1, UpdateInvariance, PTL

\* An update that ends has shown every item but those regrouped meanwhile and
\* those shifted into a slot already read, for any missions and items.
THEOREM UpdatesAreComplete == UpdateSpec => CompleteUnlessDisturbed
<1>1. ASSUME WalkInv, [UpdateNext]_allVars, walk # Rest, walk' = Rest
      PROVE  (\A n \in Items \ (moved \cup missed) : Shows(n))
  <2>1. walk.at = "push"
    BY <1>1, StepWalkInv
  <2>2. \A n \in Items : ~Ahead(n)
    BY <2>1 DEF Ahead, NotRead
  <2> QED BY <1>1, <2>1, <2>2 DEF WalkInv, ShownOrAhead
<1>2. WalkInv /\ [UpdateNext]_allVars =>
         [walk # Rest /\ walk' = Rest => \A n \in Items \ (moved \cup missed) : Shows(n)]_allVars
  BY <1>1
<1> QED BY <1>2, UpdateInvariance, PTL DEF UpdateSpec, CompleteUnlessDisturbed

\* The results are pushed within an update as ResultPush says, so that what is
\* proved of it holds of updates too.
THEOREM UpdatesPushResults == UpdateSpec => Spec
<1>1. WalkInit => Init
  BY DEF WalkInit
<1>2. ASSUME [UpdateNext]_allVars PROVE [Next]_vars
  BY <1>2 DEF UpdateNext, Step, Begin, PackGroup, TestSlot, PackItem, PackResults, Crash, RegroupRemove,
              MissionAdd, RegroupAdd, Next, allVars
<1> QED BY <1>1, <1>2, PTL DEF UpdateSpec, Spec

-----------------------------------------------------------------------------
(* The session that runs the updates (ConfigSession), for any number of     *)
(* threads and messages.  Only the holder of cfg_mtx packs and writes       *)
(* (Packing), so the buffer holds what it is about to write (InBuffer), and *)
(* a write is left waiting only by a client that is behind.                 *)

CONSTANTS MaxStarts, Messages, Room, MaxReads, MaxOps, MaxInbox

VARIABLES inbox, data_, waiting, writing, room, queue, closed, run, thread, packed,
          cfg_mtx, data_write, timed, pend, ready, stopped, behind, garbled

Session == INSTANCE ConfigSession WITH pc <- thread, i <- packed

\* Threads are numbered in the order they were started.
InOrder ==
    \E n \in 0 .. MaxStarts : \A k \in Session!Threads : thread[k] # "none" <=> k <= n

Packing ==
    \A k \in Session!Threads :
        /\ thread[k] \in {"pack", "write"} <=> cfg_mtx = k
        /\ thread[k] = "pack" => packed[k] < Messages
        /\ thread[k] = "write" => packed[k] > 0

InBuffer ==
    \A k \in Session!Threads : thread[k] = "write" => data_write = <<k, packed[k]>>

SessionInv ==
    /\ Session!TypeOK
    /\ garbled => behind
    /\ writing # <<>> => behind
    /\ InOrder
    /\ Packing
    /\ InBuffer

LEMMA SameCardinality == ASSUME NEW S PROVE Session!Cardinality(S) = Cardinality(S)
BY Zenon DEF Session!Cardinality, Cardinality

LEMMA NextThread ==
    ASSUME Session!ConfigAssumption, SessionInv, Session!starts < MaxStarts
    PROVE  /\ Session!starts \in 0 .. MaxStarts - 1 /\ Session!starts + 1 \in Session!Threads
           /\ \A k \in Session!Threads : thread[k] # "none" <=> k <= Session!starts
<1>1. PICK n \in 0 .. MaxStarts : \A k \in Session!Threads : thread[k] # "none" <=> k <= n
  BY DEF SessionInv, InOrder
<1>2. MaxStarts \in Nat /\ n \in Nat /\ Session!Threads = 1 .. MaxStarts
  BY DEF Session!ConfigAssumption, Session!Threads
<1>3. {k \in Session!Threads : thread[k] # "none"} = 1 .. n
  BY <1>1, <1>2
<1>4. Session!Cardinality(1 .. n) = n
  BY <1>2, FS_Interval, SameCardinality
<1>5. Session!starts = n
  BY <1>2, <1>3, <1>4 DEF Session!starts
<1> QED BY <1>1, <1>2, <1>5

\* A step of one thread that neither has it nor gives it the buffer.
LEMMA ThreadMoves ==
    ASSUME SessionInv, NEW k \in Session!Threads, NEW q \in {"arm", "loop", "lock", "exit"},
           thread[k] \in {"new", "arm", "loop", "rearm"},
           thread' = [thread EXCEPT ![k] = q],
           UNCHANGED <<packed, cfg_mtx, data_write>>
    PROVE  /\ thread' \in [Session!Threads -> {"none", "new", "arm", "loop", "lock", "pack", "write", "rearm", "exit"}]
           /\ InOrder' /\ Packing' /\ InBuffer'
<1>1. thread \in [Session!Threads -> {"none", "new", "arm", "loop", "lock", "pack", "write", "rearm", "exit"}]
  BY DEF SessionInv, Session!TypeOK
<1>2. \A j \in Session!Threads : thread'[j] = IF j = k THEN q ELSE thread[j]
  BY <1>1
<1>3. InOrder'
  BY <1>2 DEF SessionInv, InOrder, Session!Threads
<1>4. Packing'
  BY <1>2 DEF SessionInv, Packing, Session!Threads
<1>5. InBuffer'
  BY <1>2 DEF SessionInv, InBuffer, Session!Threads
<1> QED BY <1>1, <1>3, <1>4, <1>5

LEMMA SessionTypes ==
    ASSUME Session!ConfigAssumption, SessionInv
    PROVE  /\ inbox \in Seq(Session!Kinds) /\ Len(inbox) \in Nat
           /\ data_ \in Session!Kinds \cup {"none"} /\ waiting \in 0 .. MaxReads
           /\ writing \in Seq(Session!Threads \X (1 .. Messages))
           /\ room \in 0 .. Room /\ queue \in Seq({"read", "write", "error"})
           /\ closed \in BOOLEAN /\ run \in BOOLEAN /\ timed \in BOOLEAN /\ stopped \in BOOLEAN
           /\ pend \in Nat /\ ready \in Nat
           /\ MaxStarts \in Nat /\ Messages \in Nat \ {0} /\ Room \in Nat
           /\ MaxReads \in Nat \ {0} /\ MaxInbox \in Nat
BY DEF SessionInv, Session!TypeOK, Session!ConfigAssumption

LEMMA SendRequestKeeps ==
    ASSUME Session!ConfigAssumption, SessionInv, Session!SendRequest
    PROVE  SessionInv'
<1>1. PICK m \in Session!Kinds : inbox' = Append(inbox, m)
  BY DEF Session!SendRequest
<1>2. inbox' \in Seq(Session!Kinds) /\ Len(inbox') = Len(inbox) + 1
  BY <1>1, SessionTypes
<1>3. Len(inbox') <= MaxInbox
  BY <1>2, SessionTypes DEF Session!SendRequest
<1>4. UNCHANGED <<closed, data_, waiting, writing, room, queue, run, thread, packed, cfg_mtx,
                  data_write, timed, pend, ready, stopped, behind, garbled>>
  BY DEF Session!SendRequest, Session!reading, Session!threads, Session!clock, Session!ghosts
<1> QED BY <1>2, <1>3, <1>4 DEF SessionInv, Session!TypeOK, InOrder, Packing, InBuffer

\* What is read or handled is no matter of the buffer.
LEMMA ReadingKeeps ==
    ASSUME Session!ConfigAssumption, SessionInv,
           inbox' \in {inbox, <<>>}, data_' \in Session!Kinds \cup {"none"},
           waiting' \in 0 .. MaxReads, queue' \in Seq({"read", "write", "error"}),
           run' \in BOOLEAN, closed' \in BOOLEAN,
           UNCHANGED <<writing, room, thread, packed, cfg_mtx, data_write, timed, pend, ready,
                       stopped, behind, garbled>>
    PROVE  SessionInv'
<1>1. inbox \in Seq(Session!Kinds) /\ Len(inbox) <= MaxInbox /\ MaxInbox \in Nat
  BY SessionTypes DEF SessionInv, Session!TypeOK
<1>2. <<>> \in Seq(Session!Kinds) /\ Len(<<>>) <= MaxInbox
  BY <1>1
<1>3. inbox' \in Seq(Session!Kinds) /\ Len(inbox') <= MaxInbox
  BY <1>1, <1>2
<1> QED BY <1>3 DEF SessionInv, Session!TypeOK, InOrder, Packing, InBuffer

LEMMA ReadReadyKeeps ==
    ASSUME Session!ConfigAssumption, SessionInv, Session!ReadReady
    PROVE  SessionInv'
<1>1. /\ UNCHANGED <<closed, writing, room, run, thread, packed, cfg_mtx, data_write, timed, pend,
                     ready, stopped, behind, garbled>>
      /\ inbox' = <<>> /\ waiting > 0 /\ waiting' = waiting - 1
      /\ \/ inbox # <<>> /\ data_' = Head(inbox) /\ queue' = Append(queue, "read")
         \/ UNCHANGED data_ /\ queue' = Append(queue, "error")
  BY DEF Session!ReadReady, Session!threads, Session!clock, Session!ghosts
<1>2. inbox # <<>> => Head(inbox) \in Session!Kinds
  BY SessionTypes
<1>3. data_' \in Session!Kinds \cup {"none"}
  BY <1>1, <1>2, SessionTypes
<1>4. Append(queue, "read") \in Seq({"read", "write", "error"}) /\ Append(queue, "error") \in Seq({"read", "write", "error"})
  BY SessionTypes
<1>5. queue' \in Seq({"read", "write", "error"})
  BY <1>1, <1>4
<1>6. waiting' \in 0 .. MaxReads
  BY <1>1, SessionTypes
<1> QED BY <1>1, <1>3, <1>5, <1>6, ReadingKeeps, SessionTypes

LEMMA TailOfQueue ==
    ASSUME Session!ConfigAssumption, SessionInv, queue # <<>>
    PROVE  Tail(queue) \in Seq({"read", "write", "error"})
BY SessionTypes

LEMMA handle_writeKeeps ==
    ASSUME Session!ConfigAssumption, SessionInv, Session!handle_write
    PROVE  SessionInv'
<1> DEFINE q == Tail(queue)
<1>1. q \in Seq({"read", "write", "error"})
  BY TailOfQueue DEF Session!handle_write, Session!Handles
<1>2. /\ UNCHANGED <<closed, writing, room, run, thread, packed, cfg_mtx, data_write, timed, pend,
                     ready, stopped, behind, garbled>>
      /\ Session!AsyncRead(q)
  BY DEF Session!handle_write, Session!threads, Session!clock, Session!ghosts
<1> HIDE DEF q
<1>3. /\ inbox' \in {inbox, <<>>}
      /\ queue' \in {q, Append(q, "read"), Append(q, "error")}
      /\ (inbox # <<>> /\ data_' = Head(inbox)) \/ UNCHANGED data_
      /\ waiting' \in {waiting, MaxReads} \/ (waiting # MaxReads /\ waiting' = waiting + 1)
  BY <1>2 DEF Session!AsyncRead
<1>4. queue' \in Seq({"read", "write", "error"})
  BY <1>1, <1>3
<1>5. data_' \in Session!Kinds \cup {"none"}
  BY <1>3, SessionTypes
<1>6. waiting' \in 0 .. MaxReads
  BY <1>3, SessionTypes
<1> QED BY <1>2, <1>3, <1>4, <1>5, <1>6, ReadingKeeps, SessionTypes

\* Nothing the other handlers do but HandleStart, or the client but send.
LEMMA OthersKeep ==
    ASSUME Session!ConfigAssumption, SessionInv,
           Session!Close \/ Session!HandleRequest \/ Session!HandleError
    PROVE  SessionInv'
<1>1. /\ UNCHANGED <<inbox, data_, waiting, writing, room, thread, packed, cfg_mtx, data_write,
                     timed, pend, ready, stopped, behind, garbled>>
      /\ run' \in {run, FALSE} /\ closed' \in {closed, TRUE}
      /\ queue' = queue \/ (queue # <<>> /\ queue' = Tail(queue))
  BY DEF Session!Close, Session!HandleRequest, Session!HandleError, Session!Handles,
         Session!client, Session!reading, Session!threads, Session!clock, Session!ghosts
<1>2. queue' \in Seq({"read", "write", "error"})
  BY <1>1, TailOfQueue, SessionTypes
<1> QED BY <1>1, <1>2, ReadingKeeps, SessionTypes

LEMMA ReceiveKeeps ==
    ASSUME Session!ConfigAssumption, SessionInv, Session!Receive
    PROVE  SessionInv'
<1>1. room < Room /\ room' = room + 1
      /\ UNCHANGED <<inbox, closed, data_, waiting, writing, queue, run, thread, packed, cfg_mtx,
                     data_write, timed, pend, ready, stopped, behind, garbled>>
  BY DEF Session!Receive, Session!client, Session!reading, Session!threads, Session!clock, Session!ghosts
<1>2. room' \in 0 .. Room
  BY <1>1, SessionTypes
<1> QED BY <1>1, <1>2 DEF SessionInv, Session!TypeOK, InOrder, Packing, InBuffer

\* What goes out is what it was started for, unless the client was behind.
LEMMA OutKeeps ==
    ASSUME Session!ConfigAssumption, SessionInv, NEW m, Session!Out(m),
           data_write = m \/ behind
    PROVE  /\ room' \in 0 .. Room /\ queue' \in Seq({"read", "write", "error"})
           /\ garbled' \in BOOLEAN /\ (garbled' => behind)
<1>1. /\ queue' \in {Append(queue, "error"), Append(queue, "write")}
      /\ room' = room \/ (room > 0 /\ room' = room - 1)
      /\ garbled' = garbled \/ garbled' = (garbled \/ data_write # m)
  BY DEF Session!Out
<1>2. room' \in 0 .. Room
  BY <1>1, SessionTypes
<1>3. /\ Append(queue, "error") \in Seq({"read", "write", "error"})
      /\ Append(queue, "write") \in Seq({"read", "write", "error"})
  BY SessionTypes
<1>4. queue' \in Seq({"read", "write", "error"})
  BY <1>1, <1>3
<1> QED BY <1>1, <1>2, <1>4 DEF SessionInv, Session!TypeOK

LEMMA WriteReadyKeeps ==
    ASSUME Session!ConfigAssumption, SessionInv, Session!WriteReady
    PROVE  SessionInv'
<1>1. /\ writing # <<>> /\ behind /\ Session!Out(Head(writing)) /\ writing' = Tail(writing)
      /\ UNCHANGED <<inbox, closed, data_, waiting, run, thread, packed, cfg_mtx, data_write,
                     timed, pend, ready, stopped, behind>>
  BY DEF SessionInv, Session!WriteReady, Session!client, Session!reading, Session!threads, Session!clock
<1>2. /\ room' \in 0 .. Room /\ queue' \in Seq({"read", "write", "error"}) /\ garbled' \in BOOLEAN
  BY <1>1, OutKeeps
<1>3. writing' \in Seq(Session!Threads \X (1 .. Messages))
  BY <1>1, SessionTypes
<1> QED BY <1>1, <1>2, <1>3 DEF SessionInv, Session!TypeOK, InOrder, Packing, InBuffer

LEMMA HandleStartKeeps ==
    ASSUME Session!ConfigAssumption, SessionInv, Session!HandleStart
    PROVE  SessionInv'
<1> DEFINE n == Session!starts
<1>1. /\ queue # <<>> /\ n < MaxStarts /\ queue' = Tail(queue)
      /\ thread' = [thread EXCEPT ![n + 1] = "new"]
      /\ UNCHANGED <<inbox, closed, data_, waiting, writing, room, run, packed, cfg_mtx, data_write,
                     timed, pend, ready, stopped, behind, garbled>>
  BY DEF Session!HandleStart, Session!Handles, Session!client, Session!reading, Session!clock, Session!ghosts
<1>2. /\ n \in 0 .. MaxStarts - 1 /\ n + 1 \in Session!Threads
      /\ \A k \in Session!Threads : thread[k] # "none" <=> k <= n
  BY <1>1, NextThread
<1> HIDE DEF n
<1>3. n \in Nat /\ MaxStarts \in Nat /\ Session!Threads = 1 .. MaxStarts
  BY <1>2, SessionTypes DEF Session!Threads
<1>4. thread[n + 1] = "none"
  BY <1>2, <1>3
<1>5. thread' \in [Session!Threads -> {"none", "new", "arm", "loop", "lock", "pack", "write", "rearm", "exit"}]
      /\ \A k \in Session!Threads : thread'[k] = IF k = n + 1 THEN "new" ELSE thread[k]
  BY <1>1, <1>2 DEF SessionInv, Session!TypeOK
<1>6. \A k \in Session!Threads : thread'[k] # "none" <=> k <= n + 1
  BY <1>2, <1>3, <1>5
<1>7. InOrder'
  BY <1>2, <1>3, <1>6 DEF InOrder, Session!Threads
<1>8. Packing'
  BY <1>1, <1>2, <1>4, <1>5 DEF SessionInv, Packing, Session!Threads
<1>9. InBuffer'
  BY <1>1, <1>5 DEF SessionInv, InBuffer, Session!Threads
<1>10. queue' \in Seq({"read", "write", "error"})
  BY <1>1, TailOfQueue
<1> QED BY <1>1, <1>5, <1>7, <1>8, <1>9, <1>10 DEF SessionInv, Session!TypeOK, Session!Threads

LEMMA ThreadMovesKeeps ==
    ASSUME Session!ConfigAssumption, SessionInv, NEW k \in Session!Threads,
           \/ Session!NewTimer(k) \/ Session!Arm(k) \/ Session!StartUpdate(k)
           \/ Session!ReArm(k) \/ Session!ThreadEnd(k)
    PROVE  SessionInv'
<1>1. /\ UNCHANGED <<inbox, closed, data_, waiting, writing, room, queue, run, packed, cfg_mtx,
                     data_write, behind, garbled>>
      /\ thread[k] \in {"new", "arm", "loop", "rearm"}
      /\ \E q \in {"arm", "loop", "lock", "exit"} : thread' = [thread EXCEPT ![k] = q]
      /\ timed' \in {timed, TRUE} /\ stopped' \in {stopped, TRUE}
      /\ pend' \in {0, 1, pend, pend + 1}
      /\ ready' \in {ready, ready + pend} \/ (ready > 0 /\ ready' = ready - 1)
  BY DEF Session!NewTimer, Session!Arm, Session!StartUpdate, Session!ReArm, Session!ThreadEnd,
         Session!Dispatch, Session!client, Session!reading, Session!ghosts
<1>2. PICK q \in {"arm", "loop", "lock", "exit"} : thread' = [thread EXCEPT ![k] = q]
  BY <1>1
<1>3. /\ thread' \in [Session!Threads -> {"none", "new", "arm", "loop", "lock", "pack", "write", "rearm", "exit"}]
      /\ InOrder' /\ Packing' /\ InBuffer'
  BY <1>1, <1>2, ThreadMoves
<1>4. pend' \in Nat /\ ready' \in Nat
  BY <1>1, SessionTypes
<1> QED BY <1>1, <1>3, <1>4 DEF SessionInv, Session!TypeOK, Session!Threads

LEMMA ClockKeeps ==
    ASSUME Session!ConfigAssumption, SessionInv,
           Session!Expire \/ \E k \in Session!Threads : Session!StopUpdates(k)
    PROVE  SessionInv'
<1>1. /\ UNCHANGED <<inbox, closed, data_, waiting, writing, room, queue, run, thread, packed, cfg_mtx,
                     data_write, timed, stopped, behind, garbled>>
      /\ pend' = 0
      /\ ready' = ready + pend \/ (ready > 0 /\ ready' = ready - 1 + pend)
  BY DEF Session!Expire, Session!StopUpdates, Session!Dispatch,
         Session!client, Session!reading, Session!threads, Session!ghosts
<1>2. pend' \in Nat /\ ready' \in Nat
  BY <1>1, SessionTypes
<1> QED BY <1>1, <1>2 DEF SessionInv, Session!TypeOK, InOrder, Packing, InBuffer

LEMMA LockKeeps ==
    ASSUME Session!ConfigAssumption, SessionInv, NEW k \in Session!Threads, Session!Lock(k)
    PROVE  SessionInv'
<1>1. /\ thread[k] = "lock" /\ cfg_mtx = Session!NoThread /\ cfg_mtx' = k
      /\ packed' = [packed EXCEPT ![k] = 0] /\ thread' = [thread EXCEPT ![k] = "pack"]
      /\ UNCHANGED <<inbox, closed, data_, waiting, writing, room, queue, run, data_write, timed, pend,
                     ready, stopped, behind, garbled>>
  BY DEF Session!Lock, Session!client, Session!reading, Session!clock, Session!ghosts
<1>2. /\ thread' \in [Session!Threads -> {"none", "new", "arm", "loop", "lock", "pack", "write", "rearm", "exit"}]
      /\ \A j \in Session!Threads : thread'[j] = IF j = k THEN "pack" ELSE thread[j]
  BY <1>1 DEF SessionInv, Session!TypeOK
<1>3. /\ packed' \in [Session!Threads -> 0 .. Messages]
      /\ \A j \in Session!Threads : packed'[j] = IF j = k THEN 0 ELSE packed[j]
  BY <1>1, SessionTypes DEF SessionInv, Session!TypeOK
<1>4. \A j \in Session!Threads : j # Session!NoThread
  BY DEF Session!Threads, Session!NoThread
<1>5. InOrder'
  BY <1>1, <1>2 DEF SessionInv, InOrder, Session!Threads
<1>6. Packing'
  <2>1. \A j \in Session!Threads : thread[j] \notin {"pack", "write"}
    BY <1>1, <1>4 DEF SessionInv, Packing
  <2>2. 0 < Messages
    BY SessionTypes
  <2>3. \A j \in Session!Threads :
           /\ thread'[j] \in {"pack", "write"} <=> j = k
           /\ thread'[j] # "write"
           /\ j = k => packed'[j] < Messages
    BY <1>2, <1>3, <2>1, <2>2
  <2> QED BY <1>1, <2>3 DEF Packing, Session!Threads
<1>7. InBuffer'
  BY <1>1, <1>2, <1>3 DEF SessionInv, InBuffer, Session!Threads
<1> QED BY <1>1, <1>2, <1>3, <1>5, <1>6, <1>7 DEF SessionInv, Session!TypeOK, Session!Threads

LEMMA PackKeeps ==
    ASSUME Session!ConfigAssumption, SessionInv, NEW k \in Session!Threads, Session!Pack(k)
    PROVE  SessionInv'
<1> DEFINE m == packed[k] + 1
<1>1. /\ thread[k] = "pack" /\ data_write' = <<k, m>>
      /\ packed' = [packed EXCEPT ![k] = m] /\ thread' = [thread EXCEPT ![k] = "write"]
      /\ UNCHANGED <<inbox, closed, data_, waiting, writing, room, queue, run, cfg_mtx, timed, pend,
                     ready, stopped, behind, garbled>>
  BY DEF Session!Pack, Session!client, Session!reading, Session!clock, Session!ghosts,
         SessionInv, Session!TypeOK
<1>2. packed[k] \in 0 .. Messages /\ packed[k] < Messages /\ cfg_mtx = k
  BY <1>1 DEF SessionInv, Packing, Session!TypeOK
<1>3. m \in 0 .. Messages /\ m > 0
  BY <1>2, SessionTypes
<1> HIDE DEF m
<1>4. /\ thread' \in [Session!Threads -> {"none", "new", "arm", "loop", "lock", "pack", "write", "rearm", "exit"}]
      /\ \A j \in Session!Threads : thread'[j] = IF j = k THEN "write" ELSE thread[j]
  BY <1>1 DEF SessionInv, Session!TypeOK
<1>5. /\ packed' \in [Session!Threads -> 0 .. Messages]
      /\ \A j \in Session!Threads : packed'[j] = IF j = k THEN m ELSE packed[j]
  BY <1>1, <1>3 DEF SessionInv, Session!TypeOK
<1>6. InOrder'
  BY <1>1, <1>4 DEF SessionInv, InOrder, Session!Threads
<1>7. Packing'
  BY <1>1, <1>2, <1>3, <1>4, <1>5 DEF SessionInv, Packing, Session!Threads
<1>8. \A j \in Session!Threads : thread'[j] = "write" => j = k
  BY <1>2, <1>4 DEF SessionInv, Packing
<1>9. InBuffer'
  BY <1>1, <1>5, <1>8 DEF InBuffer, Session!Threads
<1>10. data_write' \in (Session!Threads \cup {Session!NoThread}) \X (0 .. Messages)
  BY <1>1, <1>3
<1> QED BY <1>1, <1>4, <1>5, <1>6, <1>7, <1>9, <1>10 DEF SessionInv, Session!TypeOK, Session!Threads, Session!NoThread

LEMMA WriteKeeps ==
    ASSUME Session!ConfigAssumption, SessionInv, NEW k \in Session!Threads, Session!Write(k)
    PROVE  SessionInv'
<1> DEFINE m == <<k, packed[k]>>
<1>1. /\ thread[k] = "write" /\ cfg_mtx = k /\ data_write = m
      /\ packed[k] \in 1 .. Messages
      /\ UNCHANGED <<inbox, closed, data_, waiting, run, packed, data_write, timed, pend, ready, stopped>>
      /\ \/ packed[k] = Messages /\ cfg_mtx' = Session!NoThread /\ thread' = [thread EXCEPT ![k] = "rearm"]
         \/ packed[k] < Messages /\ cfg_mtx' = cfg_mtx /\ thread' = [thread EXCEPT ![k] = "pack"]
  BY SessionTypes DEF Session!Write, Session!Last, Session!client, Session!reading, Session!clock,
         SessionInv, Session!TypeOK, Packing, InBuffer
<1>2. m \in Session!Threads \X (1 .. Messages)
  BY <1>1
<1>3. /\ room' \in 0 .. Room /\ queue' \in Seq({"read", "write", "error"})
      /\ writing' \in Seq(Session!Threads \X (1 .. Messages)) /\ behind' \in BOOLEAN
      /\ garbled' \in BOOLEAN /\ (garbled' => behind') /\ (writing' # <<>> => behind')
  <2>1. CASE Session!Out(m) /\ UNCHANGED <<writing, behind>>
    BY <1>1, <2>1, OutKeeps DEF SessionInv, Session!TypeOK
  <2>2. CASE writing' = Append(writing, m) /\ behind' = TRUE /\ UNCHANGED <<queue, room, garbled>>
    BY <1>2, <2>2, SessionTypes DEF SessionInv, Session!TypeOK
  <2> QED BY <2>1, <2>2 DEF Session!Write
<1>4. PICK q \in {"rearm", "pack"} :
         /\ thread' = [thread EXCEPT ![k] = q]
         /\ q = "rearm" => cfg_mtx' = Session!NoThread
         /\ q = "pack" => cfg_mtx' = k /\ packed[k] < Messages
  BY <1>1
<1>5. /\ thread' \in [Session!Threads -> {"none", "new", "arm", "loop", "lock", "pack", "write", "rearm", "exit"}]
      /\ \A j \in Session!Threads : thread'[j] = IF j = k THEN q ELSE thread[j]
  BY <1>4 DEF SessionInv, Session!TypeOK
<1>6. \A j \in Session!Threads : j # Session!NoThread
  BY DEF Session!Threads, Session!NoThread
<1>7. InOrder'
  BY <1>1, <1>5 DEF SessionInv, InOrder, Session!Threads
<1>8. \A j \in Session!Threads : j # k => thread[j] \notin {"pack", "write"}
  BY <1>1 DEF SessionInv, Packing
<1>9. Packing'
  BY <1>1, <1>4, <1>5, <1>6, <1>8 DEF Packing, Session!Threads
<1>10. InBuffer'
  BY <1>5, <1>8 DEF InBuffer, Session!Threads
<1>11. cfg_mtx' \in Session!Threads \cup {Session!NoThread}
  BY <1>4
<1> QED BY <1>1, <1>3, <1>5, <1>7, <1>9, <1>10, <1>11 DEF SessionInv, Session!TypeOK, Session!Threads, Session!NoThread

LEMMA InitSessionInv == Session!ConfigAssumption /\ Session!Init => SessionInv
<1> SUFFICES ASSUME Session!ConfigAssumption, Session!Init PROVE SessionInv
  OBVIOUS
<1>1. MaxStarts \in Nat /\ 1 \in 0 .. MaxReads /\ 0 <= MaxInbox /\ Room \in 0 .. Room /\ 0 \in 0 .. Messages
  BY DEF Session!ConfigAssumption
<1>2. Session!TypeOK
  <2>1. /\ thread \in [Session!Threads -> {"none", "new", "arm", "loop", "lock", "pack", "write", "rearm", "exit"}]
        /\ packed \in [Session!Threads -> 0 .. Messages]
        /\ data_write \in (Session!Threads \cup {Session!NoThread}) \X (0 .. Messages)
    BY <1>1 DEF Session!Init
  <2>2. inbox \in Seq(Session!Kinds) /\ Len(inbox) <= MaxInbox
    BY <1>1 DEF Session!Init
  <2>3. /\ writing \in Seq(Session!Threads \X (1 .. Messages))
        /\ queue \in Seq({"read", "write", "error"})
    BY DEF Session!Init
  <2>4. data_ \in Session!Kinds \cup {"none"} /\ waiting \in 0 .. MaxReads /\ room \in 0 .. Room
        /\ pend \in Nat /\ ready \in Nat /\ cfg_mtx \in Session!Threads \cup {Session!NoThread}
    BY <1>1 DEF Session!Init
  <2>5. /\ behind \in BOOLEAN /\ garbled \in BOOLEAN /\ closed \in BOOLEAN /\ run \in BOOLEAN
        /\ timed \in BOOLEAN /\ stopped \in BOOLEAN
    BY DEF Session!Init
  <2> QED BY <2>1, <2>2, <2>3, <2>4, <2>5 DEF Session!TypeOK
<1>3. \A k \in Session!Threads : thread[k] = "none" /\ k > 0 /\ cfg_mtx # k
  BY DEF Session!Init, Session!Threads, Session!NoThread
<1>4. InOrder
  BY <1>1, <1>3 DEF InOrder, Session!Threads
<1>5. Packing /\ InBuffer
  BY <1>3 DEF Packing, InBuffer
<1> QED BY <1>2, <1>4, <1>5 DEF Session!Init, SessionInv

LEMMA StepSessionInv ==
    ASSUME Session!ConfigAssumption, SessionInv, [Session!Next]_Session!vars
    PROVE  SessionInv'
<1>1. CASE UNCHANGED Session!vars
  BY <1>1 DEF Session!vars, Session!client, Session!reading, Session!threads, Session!clock, Session!ghosts,
              SessionInv, Session!TypeOK, InOrder, Packing, InBuffer
<1>2. CASE Session!Handler
  BY <1>2, HandleStartKeeps, OthersKeep, handle_writeKeeps DEF Session!Handler
<1>3. CASE \E k \in Session!Threads : Session!Thread(k)
  BY <1>3, ThreadMovesKeeps, ClockKeeps, LockKeeps, PackKeeps, WriteKeeps DEF Session!Thread
<1> QED
  BY <1>1, <1>2, <1>3, SendRequestKeeps, ReceiveKeeps, OthersKeep, ReadReadyKeeps, WriteReadyKeeps,
     ClockKeeps DEF Session!Next

\* Every message of every update goes out as it was packed until the client
\* falls behind, however many threads share the session's one write buffer.
THEOREM MessagesGoOutAsPacked ==
    ASSUME Session!ConfigAssumption
    PROVE  Session!Spec => []Session!SentAsPacked
<1>1. Session!Init => SessionInv
  BY InitSessionInv
<1>2. SessionInv /\ [Session!Next]_Session!vars => SessionInv'
  BY StepSessionInv
<1>3. SessionInv => Session!SentAsPacked
  BY DEF SessionInv, Session!SentAsPacked
<1> QED BY <1>1, <1>2, <1>3, PTL DEF Session!Spec
=============================================================================
