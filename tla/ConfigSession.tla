---------------------------- MODULE ConfigSession ----------------------------
(***************************************************************************)
(* The session of a configuration client (class CConfigSession).  A        *)
(* message of type 4 starts a thread whose timer sends everything the      *)
(* server knows, every three seconds, message by message out of the one    *)
(* buffer data_write.  The handlers of the socket run on the session's     *)
(* io_service.                                                             *)
(*                                                                         *)
(* handle_read does not read again.  Only a completed write does: until    *)
(* the first update has gone out the session hears one message, and from   *)
(* then on more and more reads wait.  Another type 4 starts another        *)
(* thread, which runs the same io_service timer_io and replaces the timer; *)
(* what that does to the waits is as in module LoopTimer.                  *)
(***************************************************************************)
EXTENDS Naturals, Sequences, FiniteSets

CONSTANTS MaxStarts,  \* bound: messages of type 4 that start a thread
          Messages,   \* messages of one update
          Room,       \* messages the socket takes before the client must read
          MaxReads,   \* bound: more reads waiting count as this many
          MaxOps,     \* bound: writes not completed or handled when an update begins
          MaxInbox    \* bound: messages of the client not yet read

ASSUME ConfigAssumption ==
    /\ MaxStarts \in Nat \ {0} /\ Messages \in Nat \ {0}
    /\ Room \in Nat /\ MaxReads \in Nat \ {0} /\ MaxOps \in Nat /\ MaxInbox \in Nat

Threads == 1..MaxStarts
NoThread == 0

VARIABLES
    inbox,      \* what the client has sent and the session not read
    data_,      \* the first message in the read buffer
    waiting,    \* reads that wait for data
    writing,    \* writes that wait for room, each by the message it was started for
    room,       \* messages the socket still takes
    queue,      \* completed operations whose handlers have not run
    closed,     \* the client has gone
    run,        \* FALSE once an operation has failed
    pc,         \* control point of each timer thread
    i,          \* messages of its update packed so far
    cfg_mtx,    \* the thread that holds it
    data_write, \* the message packed in the buffer: its thread and its number
    timed,      \* there is a timer
    pend,       \* waits pending on it
    ready,      \* its handlers ready to run, on any thread of timer_io
    stopped,    \* timer_io has run out of work
    behind,     \* ghost: a write had to wait
    garbled     \* ghost: a write sent another message than it was started for

client  == <<inbox, closed>>
reading == <<data_, waiting>>
threads == <<pc, i, cfg_mtx, data_write>>
clock   == <<timed, pend, ready, stopped>>
ghosts  == <<behind, garbled>>
vars    == <<client, reading, writing, room, queue, run, threads, clock, ghosts>>

Kinds == {"start", "edit", "group"}

TypeOK ==
    /\ inbox \in Seq(Kinds) /\ Len(inbox) <= MaxInbox
    /\ data_ \in Kinds \cup {"none"}
    /\ waiting \in 0..MaxReads
    /\ writing \in Seq(Threads \X (1..Messages))
    /\ behind \in BOOLEAN /\ garbled \in BOOLEAN
    /\ room \in 0..Room
    /\ queue \in Seq({"read", "write", "error"})
    /\ closed \in BOOLEAN /\ run \in BOOLEAN /\ timed \in BOOLEAN /\ stopped \in BOOLEAN
    /\ pc \in [Threads -> {"none", "new", "arm", "loop", "lock", "pack", "write", "rearm", "exit"}]
    /\ i \in [Threads -> 0..Messages]
    /\ cfg_mtx \in Threads \cup {NoThread}
    /\ data_write \in (Threads \cup {NoThread}) \X (0..Messages)
    /\ pend \in Nat /\ ready \in Nat

Init ==
    /\ inbox = <<>> /\ closed = FALSE /\ data_ = "none"
    /\ waiting = 1 /\ writing = <<>> /\ room = Room /\ queue = <<>>
    /\ run = TRUE
    /\ pc = [k \in Threads |-> "none"]
    /\ i = [k \in Threads |-> 0]
    /\ cfg_mtx = NoThread /\ data_write = <<NoThread, 0>>
    /\ timed = FALSE /\ pend = 0 /\ ready = 0 /\ stopped = FALSE
    /\ behind = FALSE /\ garbled = FALSE

-----------------------------------------------------------------------------
(* The client and the socket.                                              *)

SendRequest ==
    /\ ~closed
    /\ Len(inbox) < MaxInbox
    /\ \E m \in Kinds : inbox' = Append(inbox, m)
    /\ UNCHANGED <<closed, reading, writing, room, queue, run, threads, clock, ghosts>>

\* The client takes a message off the connection.
Receive ==
    /\ ~closed
    /\ room < Room
    /\ room' = room + 1
    /\ UNCHANGED <<client, reading, writing, queue, run, threads, clock, ghosts>>

Close ==
    /\ ~closed
    /\ closed' = TRUE
    /\ UNCHANGED <<inbox, reading, writing, room, queue, run, threads, clock, ghosts>>

\* async_read_some: all that has arrived is read at once, unless other reads
\* wait, and its first message is what the handler will see.
AsyncRead(q) ==
    IF waiting = 0 /\ (inbox # <<>> \/ closed)
       THEN /\ IF inbox # <<>>
                  THEN data_' = Head(inbox) /\ queue' = Append(q, "read")
                  ELSE queue' = Append(q, "error") /\ UNCHANGED data_
            /\ inbox' = <<>>
            /\ UNCHANGED waiting
       ELSE /\ waiting' = IF waiting = MaxReads THEN MaxReads ELSE waiting + 1
            /\ queue' = q
            /\ UNCHANGED <<inbox, data_>>

ReadReady ==
    /\ waiting > 0
    /\ \/ /\ inbox # <<>>
          /\ data_' = Head(inbox)
          /\ queue' = Append(queue, "read")
       \/ /\ inbox = <<>>
          /\ closed
          /\ queue' = Append(queue, "error")
          /\ UNCHANGED data_
    /\ inbox' = <<>>
    /\ waiting' = waiting - 1
    /\ UNCHANGED <<closed, writing, room, run, threads, clock, ghosts>>

\* The write of message m goes out, with what data_write holds by now.
Out(m) ==
    IF closed
       THEN queue' = Append(queue, "error") /\ UNCHANGED <<room, garbled>>
       ELSE /\ room > 0
            /\ room' = room - 1
            /\ queue' = Append(queue, "write")
            /\ garbled' = (garbled \/ data_write # m)

\* A write that waited.
WriteReady ==
    /\ writing # <<>>
    /\ Out(Head(writing))
    /\ writing' = Tail(writing)
    /\ UNCHANGED <<client, reading, run, threads, clock, behind>>

-----------------------------------------------------------------------------
(* Handlers of the socket.                                                 *)

starts == Cardinality({k \in Threads : pc[k] # "none"})

Handles(op) == queue # <<>> /\ Head(queue) = op

\* Type 4.
HandleStart ==
    /\ Handles("read")
    /\ data_ = "start"
    /\ starts < MaxStarts
    /\ pc' = [pc EXCEPT ![starts + 1] = "new"]
    /\ queue' = Tail(queue)
    /\ UNCHANGED <<client, reading, writing, room, run, i, cfg_mtx, data_write, clock, ghosts>>

\* Types 6 to 9; 6 and 7 change the lists under cfg_mtx.  (Bound: a message of
\* type 4 beyond MaxStarts starts nothing.)
HandleRequest ==
    /\ Handles("read")
    /\ data_ \in {"edit", "group"} \/ starts = MaxStarts
    /\ data_ = "edit" => cfg_mtx = NoThread
    /\ queue' = Tail(queue)
    /\ UNCHANGED <<client, reading, writing, room, run, threads, clock, ghosts>>

\* Mutant: a completed write does not read again either.
MutHandleWrite ==
    /\ Handles("write")
    /\ queue' = Tail(queue)
    /\ UNCHANGED <<client, reading, writing, room, run, threads, clock, ghosts>>

\* start() again, by another name.
handle_write ==
    /\ Handles("write")
    /\ AsyncRead(Tail(queue))
    /\ UNCHANGED <<closed, writing, room, run, threads, clock, ghosts>>

\* Mutant: the thread is not told.
MutHandleError ==
    /\ Handles("error")
    /\ queue' = Tail(queue)
    /\ UNCHANGED <<client, reading, writing, room, run, threads, clock, ghosts>>

\* The session is not deleted; its thread is told to stop.
HandleError ==
    /\ Handles("error")
    /\ run' = FALSE
    /\ queue' = Tail(queue)
    /\ UNCHANGED <<client, reading, writing, room, threads, clock, ghosts>>

-----------------------------------------------------------------------------
(* The timer threads.                                                      *)

\* The timer that is replaced is destroyed: its waits complete.
NewTimer(k) ==
    /\ pc[k] = "new"
    /\ timed' = TRUE
    /\ ready' = ready + pend
    /\ pend' = 0
    /\ pc' = [pc EXCEPT ![k] = "arm"]
    /\ UNCHANGED <<client, reading, writing, room, queue, run, i, cfg_mtx, data_write, stopped, ghosts>>

Arm(k) ==
    /\ pc[k] = "arm"
    /\ pend' = pend + 1
    /\ pc' = [pc EXCEPT ![k] = "loop"]
    /\ UNCHANGED <<client, reading, writing, room, queue, run, i, cfg_mtx, data_write, timed, ready, stopped, ghosts>>

Expire ==
    /\ pend > 0
    /\ ready' = ready + pend
    /\ pend' = 0
    /\ UNCHANGED <<client, reading, writing, room, queue, run, threads, timed, stopped, ghosts>>

Dispatch(k) == pc[k] = "loop" /\ ~stopped /\ ready > 0

StopUpdates(k) ==
    /\ Dispatch(k)
    /\ ~run
    /\ ready' = ready - 1 + pend
    /\ pend' = 0
    /\ UNCHANGED <<client, reading, writing, room, queue, run, threads, timed, stopped, ghosts>>

StartUpdate(k) ==
    /\ Dispatch(k)
    /\ run
    /\ Len(queue) + Len(writing) <= MaxOps
    /\ ready' = ready - 1
    /\ pc' = [pc EXCEPT ![k] = "lock"]
    /\ UNCHANGED <<client, reading, writing, room, queue, run, i, cfg_mtx, data_write, timed, pend, stopped, ghosts>>

\* Mutant: update without cfg_mtx.
MutLock(k) ==
    /\ pc[k] = "lock"
    /\ cfg_mtx' = k
    /\ i' = [i EXCEPT ![k] = 0]
    /\ pc' = [pc EXCEPT ![k] = "pack"]
    /\ UNCHANGED <<client, reading, writing, room, queue, run, data_write, clock, ghosts>>

Lock(k) ==
    /\ pc[k] = "lock"
    /\ cfg_mtx = NoThread
    /\ cfg_mtx' = k
    /\ i' = [i EXCEPT ![k] = 0]
    /\ pc' = [pc EXCEPT ![k] = "pack"]
    /\ UNCHANGED <<client, reading, writing, room, queue, run, data_write, clock, ghosts>>

Pack(k) ==
    /\ pc[k] = "pack"
    /\ i' = [i EXCEPT ![k] = @ + 1]
    /\ data_write' = <<k, i[k] + 1>>
    /\ pc' = [pc EXCEPT ![k] = "write"]
    /\ UNCHANGED <<client, reading, writing, room, queue, run, cfg_mtx, clock, ghosts>>

Last(k) == i[k] = Messages

\* async_write: what fits goes out at once, unless others wait.  After the last
\* message the mutex is given back.
Write(k) ==
    /\ pc[k] = "write"
    /\ IF writing = <<>> /\ (room > 0 \/ closed)
          THEN Out(<<k, i[k]>>) /\ UNCHANGED <<writing, behind>>
          ELSE /\ writing' = Append(writing, <<k, i[k]>>)
               /\ behind' = TRUE
               /\ UNCHANGED <<queue, room, garbled>>
    /\ IF Last(k)
          THEN cfg_mtx' = NoThread /\ pc' = [pc EXCEPT ![k] = "rearm"]
          ELSE UNCHANGED cfg_mtx /\ pc' = [pc EXCEPT ![k] = "pack"]
    /\ UNCHANGED <<client, reading, run, i, data_write, clock>>

\* expires_at, which cancels, and async_wait.
ReArm(k) ==
    /\ pc[k] = "rearm"
    /\ ready' = ready + pend
    /\ pend' = 1
    /\ pc' = [pc EXCEPT ![k] = "loop"]
    /\ UNCHANGED <<client, reading, writing, room, queue, run, i, cfg_mtx, data_write, timed, stopped, ghosts>>

\* timer_io.run() returns on every thread when no wait and no handler is left,
\* and from then on at once.
ThreadEnd(k) ==
    /\ pc[k] = "loop"
    /\ \/ stopped
       \/ /\ pend + ready = 0
          /\ \A j \in Threads : pc[j] \in {"none", "new", "arm", "loop", "exit"}
    /\ stopped' = TRUE
    /\ pc' = [pc EXCEPT ![k] = "exit"]
    /\ UNCHANGED <<client, reading, writing, room, queue, run, i, cfg_mtx, data_write, timed, pend, ready, ghosts>>

Thread(k) ==
    \/ NewTimer(k) \/ Arm(k) \/ StopUpdates(k) \/ StartUpdate(k) \/ Lock(k)
    \/ Pack(k) \/ Write(k) \/ ReArm(k) \/ ThreadEnd(k)

Handler == HandleStart \/ HandleRequest \/ handle_write \/ HandleError

Next ==
    \/ SendRequest \/ Receive \/ Close
    \/ ReadReady \/ WriteReady \/ Handler
    \/ Expire \/ \E k \in Threads : Thread(k)

\* Threads run, mutexes are fair, timers fire and the reactor goes on; nothing is
\* assumed of the client.
Fairness ==
    /\ WF_vars(ReadReady) /\ WF_vars(WriteReady) /\ WF_vars(Expire)
    /\ SF_vars(Handler)
    /\ \A k \in Threads : SF_vars(Thread(k))

Spec == Init /\ [][Next]_vars /\ Fairness
-----------------------------------------------------------------------------
(* Properties.                                                             *)

\* Every message goes out as it was packed, until the client falls behind: one
\* buffer serves all the messages of all the threads, and only cfg_mtx and a
\* socket with room keep a message in it until it is sent (update).
SentAsPacked == TypeOK /\ (garbled => behind)

\* A client that has started the updates and goes on receiving them is heard:
\* only the completed writes of the updates read again (handle_write).
StartedClientHeard ==
    []<>(room > 0) => (inbox # <<>> /\ starts > 0 ~> inbox = <<>> \/ ~run)

\* When the client has gone every thread of its updates ends (handle_read and
\* handle_write clear run, updateMissionInfo waits no more).
UpdatesEnd ==
    closed /\ starts > 0 ~> \A k \in Threads : pc[k] \in {"none", "exit"}
=============================================================================
