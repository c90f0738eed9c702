----------------------------- MODULE SDCPoolFair -----------------------------
(***************************************************************************)
(* SDCPool with a history variable: for every camera, which others were    *)
(* granted since it last became FREE (or since the slots were last         *)
(* renumbered by a removal, which makes the camera that slides under the   *)
(* cursor lose its turn once).                                             *)
(***************************************************************************)
EXTENDS SDCPool

VARIABLE overtakers

fairVars == <<vars, overtakers>>

FairInit == Init /\ overtakers = [c \in Cameras |-> {}]

\* What a grant of camera g does to the record: it is held against all others.
Overtake(g) ==
    overtakers' = [c \in Cameras |-> IF c = g THEN {} ELSE overtakers[c] \cup {g}]

FairNext ==
    \/ \E c \in Cameras : /\ addSDC(c)
                          /\ overtakers' = [overtakers EXCEPT ![c] = {}]
    \/ \E n \in CamNums : /\ removeSDC(n)
                          /\ overtakers' = [c \in Cameras |-> {}]
    \/ \E s \in Sessions : Claim(s) /\ Overtake(SpdDomeCam[j[s]])
    \/ \E s \in Sessions : /\ Release(s)
                           /\ overtakers' = [overtakers EXCEPT ![ptr[s]] = {}]
    \/ \E s \in Sessions : /\ Lock(s) \/ ExamineBusy(s) \/ ExamineFree(s) \/ Refuse(s)
                           /\ UNCHANGED overtakers

FairSpec == FairInit /\ [][FairNext]_fairVars /\ Fairness

\* No starvation by the round robin: while a camera stays listed and FREE, no
\* other camera is granted twice (curSpdDomeCam in getFreeSDC).
NoOvertaking ==
    [][\A c \in Listed, s \in Sessions :
          /\ isUsing[c] = "FREE"
          /\ ~holds[s] /\ holds'[s] /\ ptr'[s] # c
          => ptr'[s] \notin overtakers[c]]_fairVars
=============================================================================
