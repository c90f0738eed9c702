------------------------ MODULE CameraObjectsProofs ------------------------
(***************************************************************************)
(* Proofs about CameraObjects, for any sessions and missions and any       *)
(* number of objects: a regrouped camera is offered at most once at a      *)
(* time, is driven twice only by missions one of which drives an object    *)
(* that has left its list, and such an object is never granted again.      *)
(*                                                                         *)
(* The strengthening says which objects are on a list at all (Listed: the  *)
(* newest, and during a request the one before it) and what is known of    *)
(* the object a session drives (Driving).                                  *)
(***************************************************************************)
EXTENDS CameraObjects, FiniteSetTheorems, TLAPS

Listed ==
    /\ place[made] \in Lists
    /\ place[made] # leaving
    /\ \A o \in Objects : o # made =>
          place[o] = IF leaving # Nowhere /\ o = made - 1 THEN leaving ELSE Nowhere
    /\ leaving \in Groups => place[made] = Unstart
    /\ leaving # Nowhere => made - 1 \in Objects

Driving ==
    /\ \A s \in Sessions : drives[s] # NoObject =>
          /\ isUsing[drives[s]] = "BUSY"
          /\ place[drives[s]] # Unstart
          /\ place[drives[s]] = Nowhere => drives[s] \in moved
    /\ \A s, t \in Sessions : s # t /\ drives[s] # NoObject => drives[s] # drives[t]
    /\ \A o \in moved : o <= made /\ place[o] = Nowhere

IInv == TypeOK /\ Listed /\ Driving

-----------------------------------------------------------------------------

\* What is driven is an object.
LEMMA DrivenIsObject ==
    ASSUME TypeOK, NEW s \in Sessions, drives[s] # NoObject
    PROVE  drives[s] \in Objects /\ drives[s] <= made
BY ObjectsAssumption DEF TypeOK, Objects, NoObject

\* The initial states.
LEMMA InitInv == Init => IInv
BY ObjectsAssumption DEF Init, IInv, TypeOK, Listed, Driving, Objects, NoObject, Lists, Nowhere, Unstart

\* A grant changes no list, and marks an object nobody drives.
LEMMA GrantInv ==
    ASSUME IInv, NEW s \in Sessions, NEW g \in Groups, Grant(s, g)
    PROVE  IInv'
<1>1. PICK o \in On(g) : /\ isUsing[o] = "FREE"
                         /\ isUsing' = [isUsing EXCEPT ![o] = "BUSY"]
                         /\ drives' = [drives EXCEPT ![s] = o]
  BY DEF Grant
<1>2. o \in Objects /\ place[o] = g
  BY DEF On
<1>3. o <= made
  BY <1>2, ObjectsAssumption DEF IInv, TypeOK, Objects
<1>4. UNCHANGED <<place, made, leaving, moved>>
  BY DEF Grant
<1>5. TypeOK'
  BY <1>1, <1>2, <1>3, <1>4 DEF IInv, TypeOK, Objects
<1>6. Listed'
  BY <1>4 DEF IInv, Listed
<1>7. \A t \in Sessions : drives[t] # o
  BY <1>1, <1>2, ObjectsAssumption DEF IInv, TypeOK, Driving, Objects, NoObject
<1>8. Driving'
  BY <1>1, <1>2, <1>4, <1>7, DrivenIsObject, ObjectsAssumption
     DEF IInv, TypeOK, Driving, Objects, NoObject
<1> QED
  BY <1>5, <1>6, <1>8 DEF IInv

\* A release frees an object that nobody else drives.
LEMMA ReleaseInv ==
    ASSUME IInv, NEW s \in Sessions, Release(s)
    PROVE  IInv'
<1>1. UNCHANGED <<place, made, leaving, moved>>
  BY DEF Release
<1>2. TypeOK'
  <2>1. 0 \in 0..made
    BY ObjectsAssumption DEF IInv, TypeOK, Objects
  <2> QED
    BY <1>1, <2>1 DEF IInv, TypeOK, Release, NoObject
<1>3. Listed'
  BY <1>1 DEF IInv, Listed
<1>4. Driving'
  BY <1>1, DrivenIsObject DEF IInv, TypeOK, Driving, Release, NoObject, Objects
<1> QED
  BY <1>2, <1>3, <1>4 DEF IInv

\* The new object is on the other list and driven by nobody.
LEMMA RegroupAddInv ==
    ASSUME IInv, NEW from \in Lists, RegroupAdd(from)
    PROVE  IInv'
<1>1. PICK to \in Destination(from) : place' = [place EXCEPT ![made + 1] = to]
  BY DEF RegroupAdd
<1>2. /\ leaving = Nowhere
      /\ leaving' = from
      /\ made' = made + 1
      /\ made + 1 \in Objects
      /\ UNCHANGED <<isUsing, drives, moved>>
  BY ObjectsAssumption DEF RegroupAdd, IInv, TypeOK, Objects
<1>3. place[made] = from
  <2>1. PICK o \in Objects : place[o] = from
    BY DEF RegroupAdd, On
  <2>2. from # Nowhere
    BY ObjectsAssumption DEF Lists, Unstart, Nowhere
  <2> QED
    BY <1>2, <2>1, <2>2 DEF IInv, Listed
<1>4. to \in Lists /\ to # from /\ (from \in Groups => to = Unstart)
  BY ObjectsAssumption DEF Destination, Lists, Unstart
<1>5. TypeOK'
  BY <1>1, <1>2, <1>4, ObjectsAssumption DEF IInv, TypeOK, Objects
<1>6. Listed'
  BY <1>1, <1>2, <1>3, <1>4, ObjectsAssumption DEF IInv, TypeOK, Listed, Objects, Lists, Unstart, Nowhere
<1>7. Driving'
  BY <1>1, <1>2, DrivenIsObject, ObjectsAssumption DEF IInv, TypeOK, Driving, Objects, NoObject
<1> QED
  BY <1>5, <1>6, <1>7 DEF IInv

\* What leaves its list while driven is moved from then on.
LEMMA RegroupRemoveInv ==
    ASSUME IInv, RegroupRemove
    PROVE  IInv'
<1>1. /\ leaving \in Lists
      /\ leaving' = Nowhere
      /\ place' = [o \in Objects |-> IF place[o] = leaving THEN Nowhere ELSE place[o]]
      /\ moved' = moved \cup {o \in On(leaving) : Driven(o)}
      /\ UNCHANGED <<made, isUsing, drives>>
  BY DEF RegroupRemove, IInv, TypeOK
<1>2. TypeOK'
  BY <1>1 DEF IInv, TypeOK, On
<1>3. Listed'
  BY <1>1, ObjectsAssumption DEF IInv, TypeOK, Listed, Objects, Lists, Unstart, Nowhere
<1>4. Driving'
  BY <1>1, DrivenIsObject, ObjectsAssumption
     DEF IInv, TypeOK, Driving, Listed, Objects, NoObject, On, Driven, Lists, Unstart, Nowhere
<1> QED
  BY <1>2, <1>3, <1>4 DEF IInv

\* Every step keeps the invariant.
LEMMA StepInv == IInv /\ [Next]_vars => IInv'
<1> SUFFICES ASSUME IInv, [Next]_vars PROVE IInv'
  OBVIOUS
<1>1. CASE UNCHANGED vars
  BY <1>1 DEF vars, IInv, TypeOK, Listed, Driving
<1>2. CASE \E s \in Sessions : Release(s) \/ \E g \in Groups : Grant(s, g)
  BY <1>2, ReleaseInv, GrantInv
<1>3. CASE \E l \in Lists : RegroupAdd(l)
  BY <1>3, RegroupAddInv
<1>4. CASE RegroupRemove
  BY <1>4, RegroupRemoveInv
<1> QED
  BY <1>1, <1>2, <1>3, <1>4 DEF Next

\* The invariant holds of every behaviour.
LEMMA Invariant == Spec => []IInv
BY InitInv, StepInv, PTL DEF Spec

-----------------------------------------------------------------------------

\* Types of the variables; nothing is on a list before it is made.
THEOREM TypeCorrect == Spec => []TypeOK
<1>1. IInv => TypeOK
  BY DEF IInv
<1> QED
  BY <1>1, Invariant, PTL

\* At most one object of the camera is on a list that missions take cameras
\* from, also between addSDC and removeSDC.
LEMMA OneInGroups ==
    ASSUME IInv, NEW o \in Objects, NEW p \in Objects,
           place[o] \in Groups, place[p] \in Groups
    PROVE  o = p
BY ObjectsAssumption DEF IInv, TypeOK, Listed, Lists, Unstart, Nowhere, Objects

THEOREM Offered == Spec => []OfferedOnce
<1>1. IInv => OfferedOnce
  <2> SUFFICES ASSUME IInv PROVE OfferedOnce
    OBVIOUS
  <2> DEFINE S == {o \in Objects : place[o] \in Groups}
  <2>1. CASE S = {}
    BY <2>1, FS_EmptySet DEF OfferedOnce
  <2>2. CASE S # {}
    <3>1. PICK o \in S : TRUE
      BY <2>2
    <3>2. S = {o}
      BY <3>1, OneInGroups
    <3>3. Cardinality(S) = 1
      BY <3>2, FS_Singleton
    <3> QED
      BY <3>3 DEF OfferedOnce
  <2> QED
    BY <2>1, <2>2
<1> QED
  BY <1>1, Invariant, PTL

\* Two missions drive the camera only if one of them drives an object that was
\* taken off its list meanwhile.
THEOREM OneDriver == Spec => []OneDriverUnlessMoved
<1>1. IInv => OneDriverUnlessMoved
  <2> SUFFICES ASSUME IInv, NEW s \in Sessions, NEW t \in Sessions, s # t,
                      drives[s] # NoObject, drives[t] # NoObject
               PROVE  drives[s] # drives[t] /\ (drives[s] \in moved \/ drives[t] \in moved)
    BY DEF OneDriverUnlessMoved
  <2>1. drives[s] # drives[t]
    BY DEF IInv, Driving
  <2>2. drives[s] \in Objects /\ drives[t] \in Objects
    BY DrivenIsObject DEF IInv
  <2>3. \A u \in Sessions : drives[u] # NoObject /\ drives[u] \notin moved
                            => place[drives[u]] \in Groups
    BY DrivenIsObject, ObjectsAssumption DEF IInv, TypeOK, Driving, Lists
  <2> QED
    BY <2>1, <2>2, <2>3, OneInGroups
<1> QED
  BY <1>1, Invariant, PTL

\* No session is ever granted an object that has left its list.
THEOREM NeverGranted == Spec => MovedNeverGranted
<1> DEFINE Kept == \A s \in Sessions : drives[s] # drives'[s] => drives'[s] \notin moved
<1>1. IInv /\ [Next]_vars => [Kept]_vars
  <2> SUFFICES ASSUME IInv, Next, NEW s \in Sessions, drives[s] # drives'[s]
               PROVE  drives'[s] \notin moved
    OBVIOUS
  <2>1. CASE \E t \in Sessions : Release(t)
    BY <2>1 DEF Release, IInv, TypeOK, NoObject, Objects
  <2>2. CASE \E t \in Sessions, g \in Groups : Grant(t, g)
    <3>1. PICK t \in Sessions, g \in Groups : \E o \in On(g) : drives' = [drives EXCEPT ![t] = o]
      BY <2>2 DEF Grant
    <3>2. PICK o \in On(g) : drives' = [drives EXCEPT ![t] = o]
      BY <3>1
    <3>3. drives'[s] = o /\ place[o] = g
      BY <3>2 DEF IInv, TypeOK, On
    <3> QED
      BY <3>3, ObjectsAssumption DEF IInv, Driving
  <2>3. CASE RegroupRemove \/ \E l \in Lists : RegroupAdd(l)
    BY <2>3 DEF RegroupRemove, RegroupAdd
  <2> QED
    BY <2>1, <2>2, <2>3 DEF Next
<1> QED
  BY <1>1, Invariant, PTL DEF Spec, MovedNeverGranted
=============================================================================
