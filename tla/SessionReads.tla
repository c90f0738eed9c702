---------------------------- MODULE SessionReads ----------------------------
(***************************************************************************)
(* What a capture-device session reads: the asynchronous operations on its *)
(* socket (class CCaptureDevSession) and the pictures it puts together.    *)
(*                                                                         *)
(* handle_read always reads again, and so does handle_write when an answer *)
(* has gone out: every answer adds a read for good.  All reads fill one    *)
(* buffer, data_, and handlers run later, in the order of completion, one  *)
(* at a time, on the io_service of the session: a read that completes      *)
(* before the handler of another has run overwrites what that one is to    *)
(* handle.                                                                 *)
(*                                                                         *)
(* The stream of the device is a sequence of units: a message, or for an   *)
(* upload (type 11) its first part and its further parts.  A read takes    *)
(* what has arrived, and the handler takes it for one message, whatever    *)
(* comes behind it: the first part of an upload that is read behind        *)
(* another unit begins no picture, and what follows of it is taken for     *)
(* messages, of whatever type its bytes give, another upload included.     *)
(***************************************************************************)
EXTENDS Naturals, Sequences, Functions

CONSTANTS MaxUnits,  \* bound: units the device sends
          MaxFrame,  \* units of the longest frame that is received (10 MB); a frame
                     \* that is sent has at most one more
          MaxRead    \* bound: units one read can take (MAX_PACKET_LEN)

ASSUME ReadsAssumption ==
    /\ MaxUnits \in Nat
    /\ MaxFrame \in Nat \ {0} /\ MaxRead \in Nat \ {0}

VARIABLES
    sent,      \* the units sent, in order
    got,       \* how many of them have been read from the socket
    data_,     \* the read buffer: numbers of units, the latest read at its start
    waiting,   \* reads that wait for data
    writing,   \* writes that wait for room in the socket
    queue,     \* completed operations whose handlers have not run
    recvCaprure, frameSize, pic,  \* a picture is being received; its length; its units so far
    result,    \* the last picture that was parsed and recorded
    closed,    \* the device has closed the connection
    deleted,   \* the session has been deleted
    asked, bads,  \* ghost: answers written; logins refused for their characters
    overlapped, \* ghost: a read completed while another waited for its handler
    lost       \* ghost: uploads whose first part was read and began no picture

socket  == <<sent, got, closed>>
picture == <<recvCaprure, frameSize, pic, result>>
vars    == <<socket, data_, waiting, writing, queue, picture, deleted, asked, bads, overlapped, lost>>

Units == 1..MaxUnits
Unit  == [kind : {"quiet", "ask", "bad", "part"}, size : {1}]
            \cup [kind : {"upload"}, size : 1..(MaxFrame + 1)]

Completion == [op : {"read"}, ids : Seq(Units)] \cup [op : {"write", "error"}]

TypeOK ==
    /\ sent \in Seq(Unit) /\ Len(sent) <= MaxUnits
    /\ got \in 0..Len(sent)
    /\ data_ \in Seq(Units)
    /\ waiting \in Nat /\ writing \in Nat /\ asked \in Nat /\ bads \in Nat
    /\ queue \in Seq(Completion)
    /\ recvCaprure \in BOOLEAN /\ closed \in BOOLEAN
    /\ deleted \in BOOLEAN /\ overlapped \in BOOLEAN
    /\ frameSize \in 0..(MaxFrame + 1)
    /\ pic \in Seq(Units) /\ result \in Seq(Units) /\ lost \in SUBSET Units

Init ==
    /\ sent = <<>> /\ got = 0 /\ data_ = <<>>
    /\ waiting = 1 /\ writing = 0 /\ queue = <<>>
    /\ recvCaprure = FALSE /\ frameSize = 0 /\ pic = <<>> /\ result = <<>>
    /\ closed = FALSE /\ deleted = FALSE
    /\ asked = 0 /\ bads = 0 /\ overlapped = FALSE /\ lost = {}

-----------------------------------------------------------------------------
(* The device and the socket.                                              *)

\* An upload of which parts are missing.
Unfinished == \E h \in 1..Len(sent) : h + sent[h].size - 1 > Len(sent)

Send ==
    /\ ~closed
    /\ Len(sent) < MaxUnits
    /\ \E u \in Unit :
          /\ u.kind = "part" <=> Unfinished
          /\ sent' = Append(sent, u)
    /\ UNCHANGED <<got, closed, data_, waiting, writing, queue, picture, deleted, asked, bads, overlapped, lost>>

Close ==
    /\ ~closed
    /\ closed' = TRUE
    /\ UNCHANGED <<sent, got, data_, waiting, writing, queue, picture, deleted, asked, bads, overlapped, lost>>

\* The units a read takes now.
Arrived ==
    LET n == IF Len(sent) - got > MaxRead THEN MaxRead ELSE Len(sent) - got
    IN [i \in 1..n |-> got + i]

\* The handler of a read is still to come.
Unhandled(q) == \E k \in DOMAIN q : q[k].op = "read"

\* A read completes: the buffer is overwritten from its start, its handler comes
\* behind those of queue q.
Fill(q) ==
    /\ queue' = Append(q, [op |-> "read", ids |-> Arrived])
    /\ data_' = Arrived \o SubSeq(data_, Len(Arrived) + 1, Len(data_))
    /\ got' = got + Len(Arrived)
    /\ overlapped' = (overlapped \/ Unhandled(q))

\* async_read_some: data that is there is read at once, unless others wait.
AsyncRead(q) ==
    \/ /\ waiting = 0 /\ Arrived # <<>>
       /\ Fill(q)
       /\ UNCHANGED waiting
    \/ /\ waiting = 0 /\ Arrived = <<>> /\ closed
       /\ queue' = Append(q, [op |-> "error"])
       /\ UNCHANGED <<data_, got, waiting, overlapped>>
    \/ /\ waiting > 0 \/ (Arrived = <<>> /\ ~closed)
       /\ waiting' = waiting + 1
       /\ queue' = q
       /\ UNCHANGED <<data_, got, overlapped>>

\* The reactor finds the socket readable, or closed, for a read that waits.
ReadReady ==
    /\ waiting > 0
    /\ \/ Arrived # <<>> /\ Fill(queue)
       \/ /\ Arrived = <<>> /\ closed
          /\ queue' = Append(queue, [op |-> "error"])
          /\ UNCHANGED <<data_, got, overlapped>>
    /\ waiting' = waiting - 1
    /\ UNCHANGED <<sent, closed, writing, picture, deleted, asked, bads, lost>>

\* What a write can complete with: an error only when the device is gone.
WriteEnds == {[op |-> "write"]} \cup (IF closed THEN {[op |-> "error"]} ELSE {})

WriteReady ==
    /\ writing > 0
    /\ \E e \in WriteEnds : queue' = Append(queue, e)
    /\ writing' = writing - 1
    /\ UNCHANGED <<socket, data_, waiting, picture, deleted, asked, bads, overlapped, lost>>

-----------------------------------------------------------------------------
(* The handlers.                                                           *)

\* async_write of an answer: the socket takes it at once, and its completion comes
\* behind those of queue q, or it has to wait.
Answers(q) ==
    {[queue |-> Append(q, e), writing |-> writing] : e \in WriteEnds}
        \cup {[queue |-> q, writing |-> writing + 1]}

Answer(a) ==
    /\ asked' = asked + 1
    /\ writing' = a.writing

\* The handler of a read of n units sees what the buffer holds by now.
Content == SubSeq(data_, 1, Len(Head(queue).ids))

Reading ==
    /\ ~deleted
    /\ queue # <<>>
    /\ Head(queue).op = "read"
    /\ UNCHANGED <<sent, closed, deleted>>

\* Mutant: the end is looked for with >=.
MutReceivePicture ==
    /\ Reading
    /\ recvCaprure
    /\ LET whole == pic \o Content
           end   == Len(whole) >= frameSize
       IN /\ pic' = whole
          /\ recvCaprure' = ~end
          /\ result' = IF end THEN whole ELSE result
    /\ AsyncRead(Tail(queue))
    /\ UNCHANGED <<writing, frameSize, asked, bads>>

\* While a picture is received every read belongs to it.
ReceivePicture ==
    /\ Reading
    /\ recvCaprure
    /\ LET whole == pic \o Content
           end   == Len(whole) > frameSize
       IN /\ pic' = whole
          /\ recvCaprure' = ~end
          /\ result' = IF end THEN whole ELSE result
    /\ AsyncRead(Tail(queue))
    /\ UNCHANGED <<writing, frameSize, asked, bads>>

\* Otherwise the first unit says what the message is, and what follows it is
\* not looked at.  A part of an upload can be taken for any message: its fifth
\* byte is the type.
Message(kinds) ==
    /\ Reading
    /\ ~recvCaprure
    /\ sent[Content[1]].kind \in kinds

\* Mutant: a message that needs no answer ends the reading.
MutHandleQuiet ==
    /\ Message({"quiet", "part"})
    /\ queue' = Tail(queue)
    /\ UNCHANGED <<got, data_, waiting, overlapped, writing, picture, asked, bads>>

\* Types 3, 5 and 9, and unknown ones.
HandleQuiet ==
    /\ Message({"quiet", "part"})
    /\ AsyncRead(Tail(queue))
    /\ UNCHANGED <<writing, picture, asked, bads>>

\* A login, heartbeat, report or 3D request that is answered.
HandleAsk ==
    /\ Message({"ask", "part"})
    /\ \E a \in Answers(Tail(queue)) : Answer(a) /\ AsyncRead(a.queue)
    /\ UNCHANGED <<picture, bads>>

\* A login whose number has a special character: answered without a new read.
HandleBad ==
    /\ Message({"bad", "part"})
    /\ \E a \in Answers(Tail(queue)) : Answer(a) /\ queue' = a.queue
    /\ bads' = bads + 1
    /\ UNCHANGED <<got, data_, waiting, picture, overlapped>>

\* Whether the length field of a frame counts itself is the device's matter: it
\* gives the size of the frame or one unit less.  In a part of one it is anything.
FrameSizes(u) ==
    IF sent[u].kind = "upload" THEN {sent[u].size, sent[u].size - 1} ELSE 0..(MaxFrame + 1)

\* An upload: all that was read is the start of the picture, if its length is in
\* range.
HandleUpload ==
    /\ Message({"upload", "part"})
    /\ frameSize' \in FrameSizes(Content[1])
    /\ IF frameSize' \in 1..MaxFrame
          THEN pic' = Content /\ recvCaprure' = TRUE
          ELSE UNCHANGED <<pic, recvCaprure>>
    /\ \E a \in Answers(Tail(queue)) : Answer(a) /\ AsyncRead(a.queue)
    /\ UNCHANGED <<result, bads>>

\* The uploads whose first part is among what was read, but for the one that
\* begins a picture.
Missed ==
    {u \in Range(Content) :
        sent[u].kind = "upload" /\ ~(u = Content[1] /\ ~recvCaprure /\ recvCaprure')}

handle_read ==
    /\ ReceivePicture \/ HandleQuiet \/ HandleAsk \/ HandleBad \/ HandleUpload
    /\ lost' = lost \cup Missed

\* An answer has gone out: start(), one more read.
handle_write ==
    /\ ~deleted
    /\ queue # <<>>
    /\ Head(queue).op = "write"
    /\ AsyncRead(Tail(queue))
    /\ UNCHANGED <<sent, closed, writing, picture, deleted, asked, bads, lost>>

\* Mutant: the session is not deleted while a picture is being received.
MutHandleErrorLater ==
    /\ ~deleted
    /\ queue # <<>>
    /\ Head(queue).op = "error"
    /\ deleted' = ~recvCaprure
    /\ queue' = Tail(queue) \o [i \in 1..(waiting + writing) |-> [op |-> "error"]]
    /\ waiting' = 0
    /\ writing' = 0
    /\ UNCHANGED <<socket, data_, picture, asked, bads, overlapped, lost>>

\* A read or write error deletes the session; with the socket go the operations
\* that wait, whose handlers come all the same.
HandleError ==
    /\ ~deleted
    /\ queue # <<>>
    /\ Head(queue).op = "error"
    /\ deleted' = TRUE
    /\ queue' = Tail(queue) \o [i \in 1..(waiting + writing) |-> [op |-> "error"]]
    /\ waiting' = 0
    /\ writing' = 0
    /\ UNCHANGED <<socket, data_, picture, asked, bads, overlapped, lost>>

Next ==
    \/ Send \/ Close \/ ReadReady \/ WriteReady
    \/ handle_read \/ handle_write \/ HandleError

\* The reactor and the thread of the io_service go on.  A write may wait for ever,
\* unless the device is gone.
Fairness ==
    /\ WF_vars(ReadReady) /\ WF_vars(closed /\ WriteReady)
    /\ WF_vars(handle_read \/ handle_write \/ HandleError)

Spec == Init /\ [][Next]_vars /\ Fairness

-----------------------------------------------------------------------------
(* Properties.                                                             *)

\* While the session exists, the operations outstanding are one for every
\* answer it has sent besides the one it began with, less one for every login refused:
\* they never become fewer by being answered, and none is lost, so that the
\* session never goes deaf either, unless it refused a login without being
\* able to answer.  After it is deleted handlers still come for it, one for
\* every answer but to refused logins, and they use freed memory: a session
\* that never answered is deleted without any.
OneReadPerAnswer ==
    /\ TypeOK
    /\ ~deleted => waiting + writing + Len(queue) = 1 + asked - bads
    /\ deleted => Len(queue) = asked - bads

\* Unit u lies behind the first part of the upload that begins with unit h.
Inside(u, h) == sent[h].kind = "upload" /\ h < u /\ u < h + sent[h].size

\* As long as no read completed before the handler of the one before it had run,
\* a recorded picture is made of consecutive units, and either it is a whole
\* upload, from its first part on, with at most the read that completed it too
\* much, or it begins inside an upload whose first part began no picture: it was
\* read behind another unit, or its length was out of range.  A picture that was
\* begun with its upload is never cut short.
ResultWhole ==
    ~overlapped /\ result # <<>> =>
        LET h == result[1] IN
        /\ \A i \in 1..Len(result) : result[i] = h + i - 1
        /\ \/ sent[h].kind = "upload" /\ Len(result) >= sent[h].size
           \/ sent[h].kind = "part" /\ \E k \in lost : Inside(h, k)

\* The session of a device that has gone is deleted, whatever it was sent and
\* whatever was unread, unanswered or half received.
ClosedIsDeleted == closed ~> deleted
=============================================================================
