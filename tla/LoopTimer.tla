------------------------------ MODULE LoopTimer ------------------------------
(***************************************************************************)
(* The timer of a mission loop, and what becomes of it when the session    *)
(* calls start() again: at a repeated login, or at a heartbeat after an    *)
(* upload that found the device in no mission.                             *)
(*                                                                         *)
(* Every start() makes a thread with an io_service of its own, and a       *)
(* deadline_timer on it that replaces the one the member `timer` points    *)
(* to.  A handler (MissoinLoop) runs on the thread whose io_service its    *)
(* wait belongs to, and waits again on the timer the member points to at   *)
(* that moment.  MissoinLoop ignores its error code and expires_at cancels *)
(* every wait pending on the timer: a cancelled wait is one more iteration *)
(* at once.                                                                *)
(*                                                                         *)
(* A handler that grants the device a camera is two steps: it replaces the *)
(* pointer, and then writes the status and may start a loop; the loops     *)
(* there are go on in between.                                             *)
(*                                                                         *)
(* Time is counted in ticks, and it is relative: `due` is what is left of  *)
(* the current timer, below zero when the timer is late.  Handlers take no *)
(* time but for the calls of the SDK (up to MaxDelay) and sleep.           *)
(***************************************************************************)
EXTENDS Integers, FiniteSets

CONSTANTS Cameras,        \* cameras the device can be granted
          PresetTotal,    \* number of presets configured in each camera
          TurnFailLimit,  \* failed turns tolerated: 3 in the code
          MaxStarts,      \* bound: calls of start() in the life of the session
          Hold,           \* ticks a preset is held (holdSeconds, 120 s at least)
          MaxDelay,       \* ticks that logging in and turning may take
          MaxLag,         \* bound: a timer later than this counts as this late
          MaxLead,        \* bound: and one further ahead than this as this far
          NULL            \* an empty shared_ptr

ASSUME TimerAssumption ==
    /\ PresetTotal \in [Cameras -> Nat]
    /\ TurnFailLimit \in Nat /\ MaxDelay \in Nat /\ MaxLag \in Nat
    /\ MaxLead \in Nat /\ MaxLead >= Hold
    /\ MaxStarts \in Nat \ {0} /\ Hold \in Nat \ {0}
    /\ NULL \notin Cameras

Threads == 1..MaxStarts  \* thread k is the one of the k-th start()
NoTimer == 0
NotHeld == -1

VARIABLES
    cam,        \* SpdDomeCam
    status,     \* missionStatus
    run,        \* FALSE once MISSION_EXIT
    grouped,    \* capDev.missionNum # -1
    changing,   \* what a handler that has set the pointer still has to do
    isUsing,    \* FREE or BUSY, per camera
    curPTZ,     \* curPTZposion, per camera
    failCnt,    \* turnPresetFailedCnt
    pc,         \* control point of each thread
    timer,      \* the thread whose timer the member points to
    due,        \* ticks left of that timer
    pend,       \* waits pending on that timer
    ready,      \* handlers ready to run, per io_service
    left,       \* ticks the thread's call or sleep may take, or has to
    held,       \* ghost: ticks the camera has faced the last preset turned to
    behind,     \* ghost: the timer may be late: a turn failed, or a mission began late
    lost        \* ghost: cameras still BUSY when the pointer to them was replaced

device == <<cam, status, run, grouped, changing, isUsing, curPTZ, failCnt, lost>>
clock  == <<timer, due, pend, ready>>
vars   == <<device, clock, pc, left, held, behind>>

Over == {"COMPLETED", "FAILD"}

TypeOK ==
    /\ cam \in Cameras \cup {NULL}
    /\ status \in Over \cup {"READY"}
    /\ run \in BOOLEAN /\ grouped \in BOOLEAN /\ behind \in BOOLEAN
    /\ changing \in {"no", "ready", "start"}
    /\ isUsing \in [Cameras -> {"FREE", "BUSY"}]
    /\ curPTZ \in [Cameras -> Nat]
    /\ failCnt \in 0..TurnFailLimit
    /\ pc \in [Threads -> {"none", "new", "arm", "loop", "turn", "send", "hold", "release", "exit"}]
    /\ timer \in Threads \cup {NoTimer}
    /\ due \in -MaxLag..MaxLead
    /\ pend \in Nat
    /\ ready \in [Threads -> Nat]
    /\ left \in [Threads -> Nat]
    /\ held \in NotHeld..Hold
    /\ lost \in SUBSET Cameras

Init ==
    /\ cam = NULL
    /\ status = "READY"
    /\ run = TRUE
    /\ grouped = FALSE
    /\ changing = "no"
    /\ isUsing = [c \in Cameras |-> "FREE"]
    /\ curPTZ = [c \in Cameras |-> 0]
    /\ failCnt = 0
    /\ pc = [k \in Threads |-> "none"]
    /\ timer = NoTimer
    /\ due = 0
    /\ pend = 0
    /\ ready = [k \in Threads |-> 0]
    /\ left = [k \in Threads |-> 0]
    /\ held = NotHeld
    /\ behind = FALSE
    /\ lost = {}

-----------------------------------------------------------------------------
(* The session.  Other devices have cameras too: a lookup may find none.   *)

starts == Cardinality({k \in Threads : pc[k] # "none"})

\* The thread of the session is free to take up a handler.
Serving == run /\ changing = "no"

\* The camera of getFreeSDC becomes the device's.
Grant(c) ==
    /\ isUsing[c] = "FREE"
    /\ isUsing' = [isUsing EXCEPT ![c] = "BUSY"]
    /\ lost' = IF cam # NULL /\ isUsing[cam] = "BUSY" THEN lost \cup {cam} ELSE lost
    /\ cam' = c
    /\ grouped' = TRUE

\* A loop is started on a thread of its own.
start == pc' = [pc EXCEPT ![starts + 1] = "new"]

\* Without a mission or a free camera only missionNum is set.
GrantAndStart ==
    /\ \/ /\ \E c \in Cameras : Grant(c)
          /\ starts < MaxStarts
          /\ changing' = "start"
       \/ /\ grouped' \in BOOLEAN
          /\ UNCHANGED <<cam, changing, isUsing, lost>>
    /\ UNCHANGED <<status, run, curPTZ, failCnt, clock, pc, left, held, behind>>

\* Nothing keeps a device from logging in again on the same connection.
Login ==
    /\ Serving
    /\ GrantAndStart

\* The heartbeat of a device without a camera, or whose last upload found it in
\* no mission: it starts a loop whether or not there is one.
FirstMission ==
    /\ Serving
    /\ status \notin Over
    /\ cam = NULL \/ ~grouped
    /\ GrantAndStart

\* The heartbeat after a mission, refused or not.
NextMission ==
    /\ Serving
    /\ status \in Over
    /\ \/ grouped' = FALSE /\ UNCHANGED <<cam, changing, isUsing, lost>>
       \/ (\E c \in Cameras : Grant(c)) /\ changing' = "ready"
       \/ grouped' = TRUE /\ changing' = "ready" /\ UNCHANGED <<cam, isUsing, lost>>
    /\ UNCHANGED <<status, run, curPTZ, failCnt, clock, pc, left, held, behind>>

\* The same handler goes on: missionStatus = MISSION_READY, and start() if it is
\* one that starts a loop.
MissionReady ==
    /\ changing # "no"
    /\ changing' = "no"
    /\ status' = "READY"
    /\ IF changing = "start" THEN start ELSE UNCHANGED pc
    /\ behind' = (behind \/ due < 0)
    /\ UNCHANGED <<cam, run, grouped, isUsing, curPTZ, failCnt, lost, clock, left, held>>

\* The last packet of a picture looks the device's mission up again.
PictureReceived ==
    /\ Serving
    /\ grouped' \in BOOLEAN
    /\ UNCHANGED <<cam, status, changing, run, isUsing, curPTZ, failCnt, lost, clock, pc, left, held, behind>>

\* A read or write error.  Before the first grant there is no loop to stop.
stop ==
    /\ Serving
    /\ cam # NULL
    /\ run' = FALSE
    /\ isUsing' = [isUsing EXCEPT ![cam] = "FREE"]
    /\ UNCHANGED <<cam, status, changing, grouped, curPTZ, failCnt, lost, clock, pc, left, held, behind>>

-----------------------------------------------------------------------------
(* Threads and timers.                                                     *)

\* What cancelling every wait on the current timer adds to the ready handlers.
Cancelled == [k \in Threads |-> IF k = timer THEN pend ELSE 0]

\* _start() up to the new timer.  The old one is destroyed, which completes its
\* waits; their handlers run on the old thread and find the new timer.
NewTimer(k) ==
    /\ pc[k] = "new"
    /\ IF run
          THEN /\ timer' = k
               /\ due' = 1
               /\ ready' = [j \in Threads |-> ready[j] + Cancelled[j]]
               /\ pend' = 0
               /\ pc' = [pc EXCEPT ![k] = "arm"]
          ELSE /\ pc' = [pc EXCEPT ![k] = "exit"]
               /\ UNCHANGED clock
    /\ UNCHANGED <<device, left, held, behind>>

Arm(k) ==
    /\ pc[k] = "arm"
    /\ pend' = pend + 1
    /\ pc' = [pc EXCEPT ![k] = "loop"]
    /\ UNCHANGED <<device, timer, due, ready, left, held, behind>>

\* The timer expires: all its waits complete.
Expire ==
    /\ pend > 0
    /\ due <= 0
    /\ ready' = [j \in Threads |-> ready[j] + Cancelled[j]]
    /\ pend' = 0
    /\ UNCHANGED <<device, timer, due, pc, left, held, behind>>

\* ioTimer.run() of thread k takes up a handler that waits to run.
Dispatch(k) ==
    /\ pc[k] = "loop"
    /\ ready[k] > 0

\* expires_at(expires_at() + ticks), which cancels, and async_wait; `queued` is
\* what is ready by then.
ReArm(ticks, queued) ==
    /\ due' = IF due + ticks > MaxLead THEN MaxLead ELSE due + ticks
    /\ ready' = [j \in Threads |-> queued[j] + Cancelled[j]]
    /\ pend' = 1
    /\ UNCHANGED timer

Taken(k) == [ready EXCEPT ![k] = @ - 1]

\* Mutant: the timer is armed whatever run says.
MutLoopExit(k) ==
    /\ Dispatch(k)
    /\ ~run
    /\ ReArm(1, Taken(k))
    /\ UNCHANGED <<device, pc, left, held, behind>>

\* MISSION_EXIT: the waits left are cancelled, and nothing is armed again.
LoopExit(k) ==
    /\ Dispatch(k)
    /\ ~run
    /\ ready' = [j \in Threads |-> Taken(k)[j] + Cancelled[j]]
    /\ pend' = 0
    /\ UNCHANGED <<device, timer, due, pc, left, held, behind>>

Idle == status \in Over \/ PresetTotal[cam] = 0

\* Mutant: a mission that is over leaves the loop without a wait.
MutIdleTurn(k) ==
    /\ Dispatch(k)
    /\ run
    /\ Idle
    /\ ready' = Taken(k)
    /\ UNCHANGED <<device, timer, due, pend, pc, left, held, behind>>

\* Nothing to do: a second later again.
IdleTurn(k) ==
    /\ Dispatch(k)
    /\ run
    /\ Idle
    /\ ReArm(1, Taken(k))
    /\ behind' = (behind /\ due' <= 0)
    /\ UNCHANGED <<device, pc, left, held>>

\* Init() and TurnPTZPreset() begin.
Fire(k) ==
    /\ Dispatch(k)
    /\ run
    /\ ~Idle
    /\ ready' = Taken(k)
    /\ pc' = [pc EXCEPT ![k] = "turn"]
    /\ left' = [left EXCEPT ![k] = MaxDelay]
    /\ UNCHANGED <<device, timer, due, pend, held, behind>>

TurnOk(k) ==
    /\ pc[k] = "turn"
    /\ ReArm(Hold, ready)
    /\ pc' = [pc EXCEPT ![k] = "send"]
    /\ left' = [left EXCEPT ![k] = 0]
    /\ held' = 0
    /\ UNCHANGED <<device, behind>>

TurnFail(k) ==
    /\ pc[k] = "turn"
    /\ ReArm(1, ready)
    /\ IF failCnt + 1 > TurnFailLimit
          THEN /\ status' = "FAILD"
               /\ isUsing' = [isUsing EXCEPT ![cam] = "FREE"]
               /\ failCnt' = 0
          ELSE /\ failCnt' = failCnt + 1
               /\ UNCHANGED <<status, isUsing>>
    /\ pc' = [pc EXCEPT ![k] = "send"]
    /\ left' = [left EXCEPT ![k] = 0]
    /\ held' = NotHeld
    /\ behind' = TRUE
    /\ UNCHANGED <<cam, run, grouped, changing, curPTZ, lost>>

\* curPTZposion saturates one past the last preset, from where on all values
\* act alike.  After the last preset the handler sleeps as long as it is held.
Send(k) ==
    /\ pc[k] = "send"
    /\ LET next == curPTZ[cam] + 1
           last == next >= PresetTotal[cam]
       IN /\ curPTZ' = [curPTZ EXCEPT ![cam] = IF next > PresetTotal[cam] THEN @ ELSE next]
          /\ pc' = [pc EXCEPT ![k] = IF last THEN "hold" ELSE "loop"]
          /\ left' = [left EXCEPT ![k] = IF last THEN Hold ELSE 0]
    /\ UNCHANGED <<cam, status, run, grouped, changing, isUsing, failCnt, lost, clock, held, behind>>

\* Mutant: the last preset is not slept out.
MutHoldEnd(k) ==
    /\ pc[k] = "hold"
    /\ curPTZ' = [curPTZ EXCEPT ![cam] = 0]
    /\ status' = "COMPLETED"
    /\ pc' = [pc EXCEPT ![k] = "release"]
    /\ left' = [left EXCEPT ![k] = 0]
    /\ held' = NotHeld
    /\ UNCHANGED <<cam, run, grouped, changing, isUsing, failCnt, lost, clock, behind>>

HoldEnd(k) ==
    /\ pc[k] = "hold"
    /\ left[k] = 0
    /\ curPTZ' = [curPTZ EXCEPT ![cam] = 0]
    /\ status' = "COMPLETED"
    /\ pc' = [pc EXCEPT ![k] = "release"]
    /\ held' = NotHeld
    /\ UNCHANGED <<cam, run, grouped, changing, isUsing, failCnt, lost, clock, left, behind>>

\* Mutant: the camera is not given back.
MutRelease(k) ==
    /\ pc[k] = "release"
    /\ pc' = [pc EXCEPT ![k] = "loop"]
    /\ UNCHANGED <<device, clock, left, held, behind>>

Release(k) ==
    /\ pc[k] = "release"
    /\ isUsing' = [isUsing EXCEPT ![cam] = "FREE"]
    /\ pc' = [pc EXCEPT ![k] = "loop"]
    /\ UNCHANGED <<cam, status, run, grouped, changing, curPTZ, failCnt, lost, clock, left, held, behind>>

\* ioTimer.run() returns when no wait and no handler is left; the thread ends.
ThreadEnd(k) ==
    /\ pc[k] = "loop"
    /\ ready[k] = 0
    /\ timer # k \/ pend = 0
    /\ pc' = [pc EXCEPT ![k] = "exit"]
    /\ UNCHANGED <<device, clock, left, held, behind>>

Thread(k) ==
    \/ NewTimer(k) \/ Arm(k) \/ LoopExit(k) \/ IdleTurn(k) \/ Fire(k)
    \/ TurnOk(k) \/ TurnFail(k) \/ Send(k) \/ HoldEnd(k) \/ Release(k) \/ ThreadEnd(k)

\* Time passes when nobody has anything to do at once.  A new thread may be
\* slow to begin.
Tick ==
    /\ pend > 0 => due > 0
    /\ \A k \in Threads :
          /\ pc[k] \notin {"arm", "send", "release"}
          /\ pc[k] \in {"turn", "hold"} => left[k] > 0
          /\ pc[k] = "loop" => ready[k] = 0
    /\ due' = IF timer = NoTimer \/ due = -MaxLag THEN due ELSE due - 1
    /\ left' = [k \in Threads |-> IF left[k] > 0 THEN left[k] - 1 ELSE 0]
    /\ held' = IF held \in {NotHeld, Hold} THEN held ELSE held + 1
    /\ UNCHANGED <<device, timer, pend, ready, pc, behind>>

Next ==
    \/ Login \/ FirstMission \/ NextMission \/ MissionReady \/ PictureReceived \/ stop
    \/ \E k \in Threads : Thread(k)
    \/ Expire
    \/ Tick

\* Threads run, timers fire and time passes; nothing is assumed of the device.
Fairness ==
    /\ WF_vars(MissionReady)
    /\ \A k \in Threads : WF_vars(Thread(k))
    /\ WF_vars(Expire)
    /\ WF_vars(Tick)

Spec == Init /\ [][Next]_vars /\ Fairness

-----------------------------------------------------------------------------
(* Properties.                                                             *)

Begun == {k \in Threads : pc[k] \notin {"none", "new", "arm"}}

\* The handlers ready to run, told apart by their thread and their number.
ReadyOn(r) == UNION {{k} \X (1 .. r[k]) : k \in Threads}
TotalReady == Cardinality(ReadyOn(ready))

\* Every start() that has come so far keeps exactly one iteration going, as a
\* wait, as a handler ready to run, or in the SDK's calls: none of the ways a
\* timer is replaced or re-armed loses the loop of a connected device, and none
\* multiplies it.  And no wait is armed where nobody runs it: the thread whose
\* io_service the timer lives on has not ended.
OneIterationPerStart ==
    /\ TypeOK
    /\ run => pend + TotalReady + Cardinality({k \in Threads : pc[k] = "turn"})
                = Cardinality(Begun)
    /\ run /\ timer # NoTimer => pc[timer] # "exit"

\* A camera that faces a preset is left there for the time configured, less
\* what logging in and turning took (the expiry is counted from the last one),
\* when the device started one loop, no turn has failed and no mission begun
\* late since the timer was on time.
LeftTooSoon ==
    /\ held # NotHeld
    /\ held < Hold - MaxDelay
    /\ \E k \in Threads : \/ pc[k] = "loop" /\ pc'[k] = "turn"
                          \/ pc[k] = "hold" /\ pc'[k] = "release"

HeldWithOneLoop == [][LeftTooSoon => behind \/ starts > 1]_vars

\* A granted camera with presets comes back to the pool, also when several loops
\* share its timer, unless the pointer to it was replaced before.
CameraComesBackUnlessReplaced ==
    \A c \in Cameras :
        isUsing[c] = "BUSY" /\ PresetTotal[c] > 0 ~> isUsing[c] = "FREE" \/ c \in lost

\* All loops of a device that has gone end: the first to see MISSION_EXIT wakes
\* those that wait.
AllLoopsEnd == ~run ~> \A k \in Threads : pc[k] \in {"none", "exit"}
=============================================================================
