------------------------------ MODULE ResultPush ------------------------------
(***************************************************************************)
(* How a configuration client gets the snapshot results: capture sessions  *)
(* append to the vector G_illegalCapVectorMap, and the timer thread of the *)
(* client's session walks the vector every 3 s and sends from it, keeping  *)
(* its place in curCapResult.  The walk advances its counter i twice for   *)
(* an element it skips (once in the loop header, once in the branch), so   *)
(* the cursor is not the number of results sent; the properties say what   *)
(* the client gets all the same.                                           *)
(*                                                                         *)
(* An append takes no lock and can fall between any two elements of a      *)
(* walk.  Where it moves the vector the walk's iterator dangles; the model *)
(* takes the outcome in which the iterator still stands at its element.    *)
(***************************************************************************)
EXTENDS Integers

CONSTANT MaxResults  \* bound on the results recorded; the vector is never cut

ASSUME MaxResultsAssumption == MaxResults \in Nat

VARIABLES size,          \* G_illegalCapVectorMap.size()
          curCapResult,  \* the session's cursor
          pc,            \* "idle" between two walks, "walk" inside one
          pos, i,        \* the walk's iterator and its counter
          sent,          \* ghost: indices of results sent at least once
          seen,          \* ghost: size at the end of the last walk
          walkSent,      \* ghost: results sent by this walk so far
          lastSent       \* ghost: results sent by the last walk

vars == <<size, curCapResult, pc, pos, i, sent, seen, walkSent, lastSent>>

TypeOK ==
    /\ size \in 0 .. MaxResults
    /\ curCapResult \in Nat
    /\ pc \in {"idle", "walk"}
    /\ pos \in 0 .. size
    /\ i \in Nat
    /\ sent \in SUBSET (0 .. MaxResults - 1)
    /\ seen \in 0 .. size
    /\ walkSent \in Nat
    /\ lastSent \in Nat

Init ==
    /\ size \in 0 .. MaxResults
    /\ curCapResult = 0
    /\ pc = "idle"
    /\ pos = 0
    /\ i = 0
    /\ sent = {}
    /\ seen = 0
    /\ walkSent = 0
    /\ lastSent = 0

\* A capture session has received a whole picture.
PushBack ==
    /\ size < MaxResults
    /\ size' = size + 1
    /\ UNCHANGED <<curCapResult, pc, pos, i, sent, seen, walkSent, lastSent>>

\* The 3 s timer of updateMissionInfo.
StartWalk ==
    /\ pc = "idle"
    /\ pc' = "walk"
    /\ pos' = 0
    /\ i' = 0
    /\ walkSent' = 0
    /\ UNCHANGED <<size, curCapResult, sent, seen, lastSent>>

\* The current element is passed over, the iterator moving to index k.
SkipTo(k) ==
    /\ pc = "walk"
    /\ pos < size
    /\ i < curCapResult
    /\ pos' = k
    /\ i' = i + 2
    /\ UNCHANGED <<size, curCapResult, pc, sent, seen, walkSent, lastSent>>

\* i++ is done in the branch and in the header, iter++ in the header.
Skip == SkipTo(pos + 1)

\* The current element is sent, the counter reaching k.
SendAs(k) ==
    /\ pc = "walk"
    /\ pos < size
    /\ i >= curCapResult
    /\ sent' = sent \cup {pos}
    /\ walkSent' = walkSent + 1
    /\ pos' = pos + 1
    /\ i' = k
    /\ UNCHANGED <<size, curCapResult, pc, seen, lastSent>>

Send == SendAs(i + 1)

EndWalkAs(cursor) ==
    /\ pc = "walk"
    /\ pos = size
    /\ pc' = "idle"
    /\ curCapResult' = cursor
    /\ seen' = size
    /\ lastSent' = walkSent
    /\ UNCHANGED <<size, pos, i, sent, walkSent>>

\* Mutant: the cursor goes one past the counter.
MutEndWalkPast == EndWalkAs(i + 1)

EndWalk == EndWalkAs(i)

Next == PushBack \/ StartWalk \/ Skip \/ Send \/ EndWalk

Spec == Init /\ [][Next]_vars

-----------------------------------------------------------------------------

\* No result is lost: after a walk, every result recorded before its end has
\* been sent, although skipped elements count twice towards the cursor.
NoResultLost == pc = "idle" => 0 .. seen - 1 \subseteq sent

\* Results are sent again, but a walk that finds no new result sends at most
\* half as many as the walk before it.
RepeatsHalve ==
    [][pc = "walk" /\ pc' = "idle" /\ seen' = seen
         => 2 * lastSent' <= lastSent]_vars
=============================================================================
