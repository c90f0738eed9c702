------------------------- MODULE SessionReadsProofs -------------------------
(***************************************************************************)
(* Proofs about SessionReads, for any number of units, uploads of any      *)
(* length and reads of any size.                                           *)
(*                                                                         *)
(* The strengthening says what the handler of a completed read will find:  *)
(* in any case units that were read, as many as it takes (Bounded, Filled);*)
(* and, as long as no read completed before the handler of another had     *)
(* run, the units of that read, the last ones read from the socket         *)
(* (Latest), so that the picture being received ends where they begin      *)
(* (Gathered), and that an upload of which more is to come is the one being*)
(* received, or one of those whose first part began no picture (Followed). *)
(*                                                                         *)
(* Handlers take the head off the queue, append an answer and a read: the  *)
(* parts that speak of the queue take it as a parameter, and a lemma for   *)
(* each of these three says what it does to them.  NeverIdle and           *)
(* CloseShortens say that a session ends once the device has closed.       *)
(*                                                                         *)
(* The last part is about Accept, which makes the sessions, through an     *)
(* instance, for any number of clients and io_services.                    *)
(***************************************************************************)
EXTENDS SessionReads, FiniteSetTheorems, SequenceTheorems, Integers, TLAPS

\* The buffer holds units that were read.
Bounded == \A m \in DOMAIN data_ : data_[m] <= got

\* Every handler of a read finds as many units as it takes.
Filled(q) ==
    \A k \in DOMAIN q : q[k].op = "read" => Len(q[k].ids) > 0 /\ Len(q[k].ids) <= Len(data_)

\* At most one read has a handler to come, and the buffer holds the units it
\* read, which are the last ones read.
Latest(q) ==
    /\ \A j, k \in DOMAIN q : q[j].op = "read" /\ q[k].op = "read" => j = k
    /\ \A k \in DOMAIN q : q[k].op = "read" =>
          \A m \in 1 .. Len(q[k].ids) : data_[m] = got - Len(q[k].ids) + m

\* The units up to h have been handled.
Handled(q, h) ==
    /\ ~Unhandled(q) => h = got
    /\ \A k \in DOMAIN q : q[k].op = "read" => h = got - Len(q[k].ids)

\* The units of p are consecutive ones that were sent.
Consecutive(p) ==
    /\ p # <<>>
    /\ p[1] \in DOMAIN sent
    /\ \A m \in DOMAIN p : p[m] = p[1] + m - 1

\* Unit u is part of an upload whose first part began no picture.
Cut(u) == sent[u].kind = "part" /\ \E k \in lost \cap DOMAIN sent : Inside(u, k)

\* A picture being received goes as far as reads have been handled, and will not
\* end before its upload does.
Gathered ==
    recvCaprure =>
        /\ Consecutive(pic)
        /\ \/ sent[pic[1]].kind = "upload" /\ frameSize >= sent[pic[1]].size - 1
           \/ Cut(pic[1])
        /\ Handled(queue, pic[1] + Len(pic) - 1)

\* The upload that begins with unit k is being received, to its end.
Reaching(k) == recvCaprure /\ k = pic[1] /\ frameSize >= sent[k].size - 1

\* An upload that goes on behind unit h is being received, or began no picture.
Accounted(h) == \A k \in DOMAIN sent : Inside(h + 1, k) => k \in lost \/ Reaching(k)

\* Such is every upload that goes on behind what has been handled.
Followed(q) == \E h \in 0 .. got : Handled(q, h) /\ Accounted(h)

Recorded ==
    result # <<>> =>
        /\ Consecutive(result)
        /\ \/ sent[result[1]].kind = "upload" /\ Len(result) >= sent[result[1]].size
           \/ Cut(result[1])

InOrder ==
    ~overlapped => Latest(queue) /\ Recorded /\ (~deleted => Gathered /\ Followed(queue))

\* A part belongs to an upload.
Parts == \A u \in DOMAIN sent : sent[u].kind = "part" => \E k \in DOMAIN sent : Inside(u, k)

\* What waited when the session was deleted has failed.
Ended == deleted => waiting = 0 /\ writing = 0

IInv == OneReadPerAnswer /\ Ended /\ Parts /\ Bounded /\ Filled(queue) /\ InOrder

-----------------------------------------------------------------------------
(* The steps handlers are made of.                                         *)

\* The units a read takes are the next ones.
LEMMA ArrivedNext ==
    ASSUME TypeOK
    PROVE  /\ Arrived \in Seq(Units)
           /\ got + Len(Arrived) <= Len(sent)
           /\ \A m \in DOMAIN Arrived : Arrived[m] = got + m
<1> DEFINE n == IF Len(sent) - got > MaxRead THEN MaxRead ELSE Len(sent) - got
<1>1. n \in Nat /\ n <= Len(sent) - got /\ Arrived = [m \in 1 .. n |-> got + m]
  BY ReadsAssumption DEF Arrived, TypeOK
<1> HIDE DEF n
<1>2. \A m \in 1 .. n : got + m \in Units
  BY <1>1, ReadsAssumption DEF TypeOK, Units
<1>3. Arrived \in [1 .. n -> Units]
  BY <1>1, <1>2
<1>4. Arrived \in Seq(Units)
  BY <1>1, <1>3, SeqDef
<1>5. Len(Arrived) = n /\ DOMAIN Arrived = 1 .. n
  BY <1>1, <1>3, <1>4, LenProperties
<1> QED
  BY <1>1, <1>4, <1>5 DEF TypeOK

\* A completion is of a read, and then it has its units, or of something else.
LEMMA Completions ==
    ASSUME NEW e \in Completion
    PROVE  \/ e.op = "read" /\ e.ids \in Seq(Units)
           \/ e.op \in {"write", "error"}
BY DEF Completion

\* A completion that is not of a read disturbs nothing.
LEMMA AppendOther ==
    ASSUME NEW q \in Seq(Completion), NEW e \in [op : {"write", "error"}]
    PROVE  /\ Append(q, e) \in Seq(Completion)
           /\ Len(Append(q, e)) = Len(q) + 1
           /\ Filled(q) => Filled(Append(q, e))
           /\ Latest(q) => Latest(Append(q, e))
           /\ \A h : Handled(q, h) => Handled(Append(q, e), h)
<1>1. e \in Completion /\ e.op # "read"
  BY DEF Completion
<1>2. /\ Append(q, e) \in Seq(Completion)
      /\ Len(Append(q, e)) = Len(q) + 1
      /\ \A k \in DOMAIN q : k \in DOMAIN Append(q, e) /\ Append(q, e)[k] = q[k]
      /\ \A k \in DOMAIN Append(q, e) : k \in DOMAIN q \/ Append(q, e)[k] = e
  BY <1>1
<1>3. \A k \in DOMAIN Append(q, e) : Append(q, e)[k].op = "read" =>
          k \in DOMAIN q /\ Append(q, e)[k] = q[k]
  BY <1>1, <1>2
<1> HIDE DEF Completion
<1>4. Unhandled(q) => Unhandled(Append(q, e))
  BY <1>2 DEF Unhandled
<1> QED
  BY <1>2, <1>3, <1>4 DEF Filled, Latest, Handled

\* What a handler finds when its completion is taken off the queue.
LEMMA TakeHead ==
    ASSUME TypeOK, queue # <<>>
    PROVE  /\ Head(queue) \in Completion
           /\ Tail(queue) \in Seq(Completion)
           /\ Len(Tail(queue)) = Len(queue) - 1
           /\ Filled(queue) => Filled(Tail(queue))
           /\ Latest(queue) => Latest(Tail(queue))
           /\ Head(queue).op # "read" => \A h : Handled(queue, h) => Handled(Tail(queue), h)
           /\ Head(queue).op = "read" /\ Latest(queue) => Handled(Tail(queue), got)
<1> DEFINE q == Tail(queue)
<1>1. /\ queue \in Seq(Completion) /\ Head(queue) = queue[1] /\ queue[1] \in Completion
      /\ q \in Seq(Completion)
      /\ Len(q) = Len(queue) - 1
      /\ \A k \in DOMAIN q : k \in Nat \ {0} /\ k + 1 \in DOMAIN queue /\ q[k] = queue[k + 1]
      /\ \A k \in DOMAIN queue : k = 1 \/ (k - 1 \in DOMAIN q /\ q[k - 1] = queue[k])
      /\ 1 \in DOMAIN queue
  BY DEF TypeOK
<1> HIDE DEF q
<1>2. Filled(queue) => Filled(q)
  BY <1>1 DEF Filled
<1>3. Latest(queue) => Latest(q)
  <2> SUFFICES ASSUME Latest(queue) PROVE Latest(q)
    OBVIOUS
  <2>1. ASSUME NEW a \in DOMAIN q, NEW b \in DOMAIN q, q[a].op = "read", q[b].op = "read"
        PROVE  a = b
    <3>1. a + 1 = b + 1
      BY <1>1, <2>1 DEF Latest
    <3> QED BY <1>1, <3>1
  <2>2. ASSUME NEW a \in DOMAIN q, q[a].op = "read"
        PROVE  \A m \in 1 .. Len(q[a].ids) : data_[m] = got - Len(q[a].ids) + m
    BY <1>1, <2>2 DEF Latest
  <2> QED BY <2>1, <2>2 DEF Latest
<1>4. ASSUME Head(queue).op # "read", NEW h, Handled(queue, h)
      PROVE  Handled(q, h)
  <2>1. Unhandled(queue) => Unhandled(q)
    BY <1>1, <1>4 DEF Unhandled
  <2> QED
    BY <1>1, <1>4, <2>1 DEF Handled
<1>5. ASSUME Head(queue).op = "read", Latest(queue)
      PROVE  Handled(q, got)
  BY <1>1, <1>5 DEF Handled, Unhandled, Latest
<1> QED
  BY <1>1, <1>2, <1>3, <1>4, <1>5 DEF q

\* What an answer does, to those behind queue q.
LEMMA AnswerKeeps ==
    ASSUME TypeOK, NEW q \in Seq(Completion), NEW a \in Answers(q)
    PROVE  /\ a.queue \in Seq(Completion) /\ a.writing \in Nat
           /\ a.writing + Len(a.queue) = writing + Len(q) + 1
           /\ Filled(q) => Filled(a.queue)
           /\ Latest(q) => Latest(a.queue)
           /\ \A h : Handled(q, h) => Handled(a.queue, h)
<1>1. CASE \E e \in WriteEnds : a = [queue |-> Append(q, e), writing |-> writing]
  <2>1. PICK e \in WriteEnds : a = [queue |-> Append(q, e), writing |-> writing]
    BY <1>1
  <2>2. e \in [op : {"write", "error"}]
    BY DEF WriteEnds
  <2> QED
    BY <2>1, <2>2, AppendOther DEF TypeOK
<1>2. CASE a = [queue |-> q, writing |-> writing + 1]
  BY <1>2 DEF TypeOK
<1> QED
  BY <1>1, <1>2 DEF Answers

\* A read completes behind those of queue q.
LEMMA FillKeeps ==
    ASSUME TypeOK, Bounded, NEW q \in Seq(Completion), Filled(q), Arrived # <<>>, Fill(q)
    PROVE  /\ queue' \in Seq(Completion) /\ data_' \in Seq(Units)
           /\ got' \in 0 .. Len(sent) /\ got <= got' /\ overlapped' \in BOOLEAN
           /\ Len(queue') = Len(q) + 1
           /\ Bounded' /\ Filled(queue)'
           /\ ~overlapped' => ~overlapped /\ Latest(queue)'
           /\ ~overlapped' => \A h : Handled(q, h) => Handled(queue, h)'
<1> DEFINE n == Len(Arrived)
           e == [op |-> "read", ids |-> Arrived]
<1>1. /\ Arrived \in Seq(Units)
      /\ n \in Nat \ {0} /\ got + n <= Len(sent)
      /\ \A m \in 1 .. n : Arrived[m] = got + m
  BY ArrivedNext
<1>2. e \in Completion
  BY <1>1 DEF Completion
<1>3. /\ queue' = Append(q, e)
      /\ queue' \in Seq(Completion)
      /\ Len(queue') = Len(q) + 1
      /\ \A k \in DOMAIN q : queue'[k] = q[k] /\ k # Len(q) + 1
      /\ DOMAIN queue' = DOMAIN q \cup {Len(q) + 1}
      /\ queue'[Len(q) + 1] = e
  BY <1>2 DEF Fill
<1>4. got' = got + n /\ got' \in 0 .. Len(sent) /\ overlapped' \in BOOLEAN
  BY <1>1 DEF Fill, TypeOK
<1>5. /\ data_' \in Seq(Units)
      /\ Len(data_') >= n /\ Len(data_') >= Len(data_)
      /\ \A m \in 1 .. n : data_'[m] = Arrived[m]
      /\ \A m \in DOMAIN data_' : m \in 1 .. n \/ (m \in DOMAIN data_ /\ data_'[m] = data_[m])
  <2> DEFINE rest == SubSeq(data_, n + 1, Len(data_))
  <2>1. data_ \in Seq(Units) /\ Len(data_) \in Nat
    BY DEF TypeOK
  <2>2. /\ rest \in Seq(Units)
        /\ Len(rest) = IF n <= Len(data_) THEN Len(data_) - n ELSE 0
        /\ \A m \in 1 .. Len(rest) : rest[m] = data_[n + m]
    BY <1>1, <2>1, SubSeqProperties
  <2>3. data_' = Arrived \o rest
    BY DEF Fill
  <2> HIDE DEF rest, n
  <2>4. /\ data_' \in Seq(Units)
        /\ Len(data_') = n + Len(rest)
        /\ \A m \in 1 .. Len(data_') :
              data_'[m] = IF m <= n THEN Arrived[m] ELSE rest[m - n]
    <3>1. Arrived \in Seq(Units) /\ rest \in Seq(Units) /\ Len(Arrived) = n
      BY <1>1, <2>2 DEF n
    <3> QED
      BY <2>3, <3>1, ConcatProperties
  <2>5. Len(data_') >= n /\ Len(data_') >= Len(data_)
    BY <1>1, <2>1, <2>2, <2>4
  <2>6. ASSUME NEW m \in 1 .. n
        PROVE  data_'[m] = Arrived[m]
    <3>1. m \in Nat /\ 1 <= m /\ m <= n /\ Len(data_') \in Nat
      BY <1>1, <2>1, <2>2, <2>4
    <3>2. m \in 1 .. Len(data_')
      BY <1>1, <2>5, <3>1
    <3> QED
      BY <2>4, <3>1, <3>2
  <2>7. ASSUME NEW m \in DOMAIN data_', m \notin 1 .. n
        PROVE  m \in DOMAIN data_ /\ data_'[m] = data_[m]
    <3>1. m \in Nat /\ m > n /\ m <= n + Len(rest) /\ data_'[m] = rest[m - n]
      BY <1>1, <2>2, <2>4, <2>7
    <3>2. m - n \in 1 .. Len(rest)
      BY <1>1, <2>2, <3>1
    <3>3. rest[m - n] = data_[n + (m - n)] /\ n + (m - n) = m
      BY <1>1, <2>2, <3>1, <3>2
    <3> QED
      BY <1>1, <2>1, <2>2, <3>1, <3>3
  <2> QED
    BY <2>4, <2>5, <2>6, <2>7
<1> HIDE DEF n, e
<1>6. Bounded'
  <2>1. ASSUME NEW m \in DOMAIN data_'
        PROVE  data_'[m] <= got'
    <3>1. CASE m \in 1 .. n
      BY <1>1, <1>4, <1>5, <3>1 DEF TypeOK
    <3>2. CASE m \in DOMAIN data_ /\ data_'[m] = data_[m]
      <4>1. data_[m] \in Nat /\ data_[m] <= got
        <5>1. data_ \in Seq(Units)
          BY DEF TypeOK
        <5>2. data_[m] \in Units
          BY <3>2, <5>1
        <5> QED
          BY <3>2, <5>2 DEF Bounded, Units
      <4> QED
        BY <1>1, <1>4, <3>2, <4>1 DEF TypeOK
    <3> QED
      BY <1>5, <2>1, <3>1, <3>2
  <2> QED
    BY <2>1 DEF Bounded
<1>7. Filled(queue)'
  <2>1. ASSUME NEW k \in DOMAIN q, q[k].op = "read"
        PROVE  Len(q[k].ids) > 0 /\ Len(q[k].ids) <= Len(data_')
    <3>1. Len(q[k].ids) \in Nat
      BY <2>1, Completions
    <3> QED
      BY <1>5, <2>1, <3>1 DEF Filled, TypeOK
  <2>2. Len(e.ids) = n
    BY DEF e, n
  <2> QED
    BY <1>1, <1>3, <1>5, <2>1, <2>2 DEF Filled
<1>8. ASSUME ~overlapped'
      PROVE  ~overlapped /\ \A k \in DOMAIN q : q[k].op # "read"
  BY <1>8 DEF Fill, Unhandled, TypeOK
<1>9. ASSUME ~overlapped'
      PROVE  Latest(queue)'
  <2>1. \A k \in DOMAIN queue' : queue'[k].op = "read" => k = Len(q) + 1
    BY <1>3, <1>8, <1>9
  <2>2. \A m \in 1 .. n : data_'[m] = got' - n + m
    BY <1>1, <1>4, <1>5 DEF TypeOK
  <2>3. Len(queue'[Len(q) + 1].ids) = n
    BY <1>3 DEF e, n
  <2> QED
    BY <2>1, <2>2, <2>3 DEF Latest
<1>10. ASSUME ~overlapped', NEW h, Handled(q, h)
       PROVE  Handled(queue, h)'
  <2>1. h = got
    BY <1>8, <1>10 DEF Handled, Unhandled
  <2>2. \A k \in DOMAIN queue' : queue'[k].op = "read" => k = Len(q) + 1
    BY <1>3, <1>8, <1>10
  <2>3. Len(queue'[Len(q) + 1].ids) = n /\ queue'[Len(q) + 1].op = "read"
    BY <1>3 DEF e, n
  <2>4. got = got' - n
    BY <1>1, <1>4 DEF TypeOK
  <2>5. Unhandled(queue)'
    BY <1>3, <2>3 DEF Unhandled
  <2> QED
    BY <2>1, <2>2, <2>3, <2>4, <2>5 DEF Handled, Unhandled
<1>11. got <= got'
  BY <1>1, <1>4 DEF TypeOK
<1> QED
  BY <1>3, <1>4, <1>5, <1>6, <1>7, <1>8, <1>9, <1>10, <1>11

\* One more read, behind those of queue q.
LEMMA AsyncReadKeeps ==
    ASSUME TypeOK, Bounded, NEW q \in Seq(Completion), Filled(q), AsyncRead(q)
    PROVE  /\ queue' \in Seq(Completion) /\ data_' \in Seq(Units)
           /\ got' \in 0 .. Len(sent) /\ got <= got' /\ overlapped' \in BOOLEAN /\ waiting' \in Nat
           /\ waiting' + Len(queue') = waiting + Len(q) + 1
           /\ Bounded' /\ Filled(queue)'
           /\ ~overlapped' => ~overlapped
           /\ ~overlapped' /\ Latest(q) => Latest(queue)'
           /\ ~overlapped' => \A h : Handled(q, h) => Handled(queue, h)'
<1>1. CASE Arrived # <<>> /\ Fill(q) /\ UNCHANGED waiting
  <2>1. Len(q) \in Nat /\ waiting \in Nat
    BY DEF TypeOK
  <2> QED
    BY <1>1, <2>1, FillKeeps
<1>2. CASE queue' = Append(q, [op |-> "error"]) /\ UNCHANGED <<data_, got, waiting, overlapped>>
  <2>1. /\ Append(q, [op |-> "error"]) \in Seq(Completion)
        /\ Len(Append(q, [op |-> "error"])) = Len(q) + 1
        /\ Filled(Append(q, [op |-> "error"]))
        /\ Latest(q) => Latest(Append(q, [op |-> "error"]))
        /\ \A h : Handled(q, h) => Handled(Append(q, [op |-> "error"]), h)
    BY AppendOther
  <2>2. Bounded' /\ Filled(queue)' /\ (Latest(q) => Latest(queue)')
    BY <1>2, <2>1 DEF Bounded, Filled, Latest
  <2>3. \A h : Handled(q, h) => Handled(queue, h)'
    BY <1>2, <2>1 DEF Handled, Unhandled
  <2>4. Len(q) \in Nat
    OBVIOUS
  <2> QED
    BY <1>2, <2>1, <2>2, <2>3, <2>4 DEF TypeOK
<1>3. CASE waiting' = waiting + 1 /\ queue' = q /\ UNCHANGED <<data_, got, overlapped>>
  <2>1. Bounded' /\ Filled(queue)' /\ (Latest(q) => Latest(queue)')
    BY <1>3 DEF Bounded, Filled, Latest
  <2>2. \A h : Handled(q, h) => Handled(queue, h)'
    BY <1>3 DEF Handled, Unhandled
  <2>3. Len(q) \in Nat
    OBVIOUS
  <2> QED
    BY <1>3, <2>1, <2>2, <2>3 DEF TypeOK
<1> QED
  BY <1>1, <1>2, <1>3 DEF AsyncRead

\* What the handler of a read sees, and what is left to be handled then.
LEMMA ContentRead ==
    ASSUME TypeOK, Bounded, Filled(queue), queue # <<>>, Head(queue).op = "read"
    PROVE  /\ Content \in Seq(Units) /\ Content # <<>>
           /\ Len(Content) = Len(Head(queue).ids)
           /\ Content[1] \in DOMAIN sent
           /\ Latest(queue) =>
                \A m \in DOMAIN Content : Content[m] = got - Len(Content) + m
<1> DEFINE n == Len(Head(queue).ids)
<1>1. /\ queue \in Seq(Completion) /\ 1 \in DOMAIN queue /\ Head(queue) = queue[1]
      /\ data_ \in Seq(Units)
  BY DEF TypeOK
<1>2. n \in Nat
  BY <1>1, TakeHead, Completions
<1>3. n > 0 /\ n <= Len(data_)
  BY <1>1 DEF Filled
<1> HIDE DEF n
<1>4. /\ Content \in Seq(Units)
      /\ Len(Content) = n
      /\ \A m \in 1 .. n : Content[m] = data_[m]
  <2>1. \A m \in 1 .. n : 1 + m - 1 = m
    BY <1>2
  <2> QED
    BY <1>1, <1>2, <1>3, <2>1, SubSeqProperties DEF Content, n
<1>5. Content[1] \in DOMAIN sent
  <2>1. Content[1] = data_[1] /\ 1 \in DOMAIN data_
    BY <1>1, <1>2, <1>3, <1>4
  <2>2. data_[1] \in Units /\ data_[1] <= got
    BY <1>1, <2>1 DEF Bounded
  <2> QED
    BY <2>1, <2>2 DEF TypeOK, Units
<1>6. ASSUME Latest(queue)
      PROVE  \A m \in 1 .. n : data_[m] = got - n + m
  BY <1>1, <1>6 DEF Latest, n
<1> QED
  BY <1>2, <1>3, <1>4, <1>5, <1>6 DEF n

\* Units have a size.
LEMMA SizeIsNat ==
    ASSUME TypeOK, NEW h \in DOMAIN sent
    PROVE  sent[h].size \in Nat /\ (sent[h].kind = "upload" => sent[h].size \in 1 .. MaxFrame + 1)
<1>1. sent[h] \in Unit
  BY DEF TypeOK
<1> QED
  BY <1>1, ReadsAssumption DEF Unit

\* A picture goes on with what is read next.
LEMMA PictureGoesOn ==
    ASSUME TypeOK, NEW c \in Seq(Units), Consecutive(pic), pic[1] + Len(pic) - 1 = got - Len(c),
           \A m \in DOMAIN c : c[m] = got - Len(c) + m
    PROVE  /\ pic \o c \in Seq(Units)
           /\ Consecutive(pic \o c)
           /\ (pic \o c)[1] = pic[1]
           /\ pic[1] + Len(pic \o c) - 1 = got
<1> DEFINE w == pic \o c
<1>1. /\ pic \in Seq(Units) /\ Len(pic) \in Nat \ {0} /\ Len(c) \in Nat /\ got \in Nat
      /\ DOMAIN c = 1 .. Len(c) /\ DOMAIN pic = 1 .. Len(pic) /\ pic[1] \in Nat
  <2>1. pic \in Seq(Units) /\ pic # <<>> /\ sent \in Seq(Unit) /\ pic[1] \in DOMAIN sent
        /\ got \in Nat
    BY DEF TypeOK, Consecutive
  <2> QED
    BY <2>1
<1>2. /\ w \in Seq(Units)
      /\ Len(w) = Len(pic) + Len(c)
      /\ \A m \in 1 .. Len(w) : w[m] = IF m <= Len(pic) THEN pic[m] ELSE c[m - Len(pic)]
  BY <1>1, ConcatProperties
<1> HIDE DEF w
<1>3. w # <<>> /\ w[1] = pic[1] /\ DOMAIN w = 1 .. Len(w)
  BY <1>1, <1>2
<1>4. ASSUME NEW m \in DOMAIN w
      PROVE  w[m] = w[1] + m - 1
  <2>1. CASE m <= Len(pic)
    BY <1>1, <1>2, <1>3, <2>1 DEF Consecutive
  <2>2. CASE m > Len(pic)
    <3>1. m \in Nat /\ m - Len(pic) \in 1 .. Len(c)
      BY <1>1, <1>2, <1>3, <2>2
    <3>2. w[m] = c[m - Len(pic)] /\ c[m - Len(pic)] = got - Len(c) + (m - Len(pic))
      BY <1>1, <1>2, <1>3, <2>2, <3>1
    <3>3. got - Len(c) + (m - Len(pic)) = pic[1] + m - 1
      <4>0. got \in Int /\ Len(c) \in Int /\ Len(pic) \in Int /\ pic[1] \in Int /\ m \in Int
        BY <1>1, <3>1
      <4>g. PICK g \in Int : g = got
        BY <4>0, Zenon
      <4>n. PICK n \in Int : n = Len(c)
        BY <4>0, Zenon
      <4>a. PICK a \in Int : a = Len(pic)
        BY <4>0, Zenon
      <4>h. PICK h \in Int : h = pic[1]
        BY <4>0, Zenon
      <4>k. PICK k \in Int : k = m
        BY <4>0, Zenon
      <4>1. h + a - 1 = g - n
        BY <1>1, <4>g, <4>n, <4>a, <4>h, Zenon
      <4>2. g - n + (k - a) = h + k - 1
        BY <4>1
      <4> QED
        BY <4>g, <4>n, <4>a, <4>h, <4>k, <4>2, Zenon
    <3> QED
      BY <1>3, <3>2, <3>3
  <2> QED
    BY <1>1, <1>2, <1>3, <2>1, <2>2
<1>5. Consecutive(w)
  BY <1>3, <1>4 DEF Consecutive
<1>6. pic[1] + Len(w) - 1 = got
  BY <1>1, <1>2
<1> QED
  BY <1>2, <1>3, <1>5, <1>6 DEF w

\* The count of operations when a handler reads again ...
LEMMA ReadCount ==
    ASSUME TypeOK, TypeOK', ~deleted', waiting + writing + Len(queue) = 1 + asked - bads,
           waiting' + Len(queue') = waiting + Len(Tail(queue)) + 1,
           Len(Tail(queue)) = Len(queue) - 1, UNCHANGED <<writing, asked, bads>>
    PROVE  OneReadPerAnswer'
<1> DEFINE n == Len(queue)  m == Len(queue')  t == Len(Tail(queue))  v == waiting'
<1>1. n \in Nat /\ m \in Nat /\ v \in Nat /\ waiting \in Nat /\ writing \in Nat /\ asked \in Nat /\ bads \in Nat
  <2>1. queue \in Seq(Completion) /\ queue' \in Seq(Completion)
    BY DEF TypeOK
  <2>2. n \in Nat /\ m \in Nat
    BY <2>1
  <2> QED
    BY <2>2 DEF TypeOK
<1>2. t = n - 1 /\ v + m = waiting + t + 1 /\ waiting + writing + n = 1 + asked - bads
  OBVIOUS
<1> HIDE DEF n, m, t, v
<1>3. v + writing + m = 1 + asked - bads
  BY <1>1, <1>2
<1> QED
  BY <1>3 DEF OneReadPerAnswer, m, v

\* ... and when it answers and reads again.
LEMMA AnswerCount ==
    ASSUME TypeOK, TypeOK', ~deleted', waiting + writing + Len(queue) = 1 + asked - bads,
           NEW q \in Seq(Completion), NEW w \in Nat,
           w + Len(q) = writing + Len(Tail(queue)) + 1,
           waiting' + Len(queue') = waiting + Len(q) + 1,
           Len(Tail(queue)) = Len(queue) - 1,
           asked' = asked + 1, writing' = w, bads' = bads
    PROVE  OneReadPerAnswer'
<1> DEFINE n == Len(queue)  m == Len(queue')  t == Len(Tail(queue))  l == Len(q)  v == waiting'
<1>1. /\ n \in Nat /\ m \in Nat /\ l \in Nat /\ v \in Nat
      /\ waiting \in Nat /\ writing \in Nat /\ asked \in Nat /\ bads \in Nat
  <2>1. /\ queue \in Seq(Completion) /\ v \in Nat /\ waiting \in Nat /\ writing \in Nat
        /\ asked \in Nat /\ bads \in Nat
    BY DEF TypeOK
  <2>2. queue' \in Seq(Completion)
    BY DEF TypeOK
  <2> QED
    BY <2>1, <2>2
<1>2. /\ t = n - 1 /\ v + m = waiting + l + 1 /\ w + l = writing + t + 1
      /\ waiting + writing + n = 1 + asked - bads
  OBVIOUS
<1> HIDE DEF n, m, t, l, v
<1>3. v + w + m = 1 + (asked + 1) - bads
  BY <1>1, <1>2
<1> QED
  BY <1>3 DEF OneReadPerAnswer, m, v

\* What the handler of a read leaves behind it: an upload that goes on behind
\* what has been read goes on behind what had been handled, and then it was
\* accounted for, or begins in what the handler sees.
LEMMA ReadAccounted ==
    ASSUME TypeOK, Bounded, Filled(queue), queue # <<>>, Head(queue).op = "read",
           Latest(queue), Followed(queue), lost' = lost \cup Missed
    PROVE  /\ got \in Nat
           /\ \A k \in DOMAIN sent : Inside(got + 1, k) =>
                 \/ k \in lost' \/ Reaching(k)
                 \/ k = Content[1] /\ ~recvCaprure /\ recvCaprure'
           /\ Accounted(Content[1] - 1)
<1>1. /\ Content \in Seq(Units) /\ Content # <<>> /\ Len(Content) = Len(Head(queue).ids)
      /\ \A m \in DOMAIN Content : Content[m] = got - Len(Content) + m
  BY ContentRead
<1>2. got \in Nat /\ DOMAIN sent \subseteq Nat /\ queue[1] = Head(queue) /\ 1 \in DOMAIN queue
  BY DEF TypeOK
<1>3. PICK h \in 0 .. got : Handled(queue, h) /\ Accounted(h)
  BY DEF Followed
<1>4. h = got - Len(Content)
  BY <1>1, <1>2, <1>3 DEF Handled
<1> DEFINE n == Len(Content)
<1>5. n \in Nat \ {0} /\ DOMAIN Content = 1 .. n /\ h = got - n /\ Content[1] = h + 1
  <2>1. n \in Nat \ {0} /\ DOMAIN Content = 1 .. n /\ 1 \in DOMAIN Content
    BY <1>1
  <2>2. Content[1] = got - n + 1
    BY <1>1, <2>1
  <2> QED BY <1>2, <1>4, <2>1, <2>2
<1> HIDE DEF n
<1>6. ASSUME NEW k \in DOMAIN sent, Inside(got + 1, k)
      PROVE  k \in lost' \/ Reaching(k) \/ (k = Content[1] /\ ~recvCaprure /\ recvCaprure')
  <2>1. /\ sent[k].kind = "upload" /\ k \in Nat /\ k <= got /\ got + 1 < k + sent[k].size
        /\ sent[k].size \in Nat
    BY <1>2, <1>6, SizeIsNat DEF Inside
  <2>2. CASE k <= h
    <3>1. k < h + 1 /\ h + 1 < k + sent[k].size
      BY <1>2, <1>5, <2>1, <2>2
    <3> QED BY <1>3, <2>1, <3>1 DEF Accounted, Inside
  <2>3. CASE ~(k <= h)
    <3>1. k - h \in 1 .. n /\ got - n + (k - h) = k
      BY <1>2, <1>5, <2>1, <2>3
    <3>2. Content[k - h] = k
      BY <1>1, <1>5, <3>1 DEF n
    <3>3. k \in Range(Content)
      BY <1>5, <3>1, <3>2 DEF Range
    <3> QED BY <2>1, <3>3 DEF Missed
  <2> QED BY <2>2, <2>3
<1>7. Accounted(Content[1] - 1)
  <2>1. Content[1] - 1 = h
    BY <1>2, <1>5
  <2> QED BY <1>3, <2>1
<1> QED
  BY <1>2, <1>6, <1>7

\* A handler that leaves no picture behind.
LEMMA NothingReceived ==
    ASSUME TypeOK, Bounded, Filled(queue), queue # <<>>, Head(queue).op = "read",
           Latest(queue), Followed(queue), lost' = lost \cup Missed, sent' = sent,
           ~recvCaprure, ~recvCaprure', got <= got', got' \in Nat,
           \A h : h = got => Handled(queue, h)'
    PROVE  Followed(queue)'
<1>1. PICK g \in Nat : g = got
  BY ReadAccounted
<1>2. g \in 0 .. got'
  BY <1>1
<1>3. \A k \in DOMAIN sent : Inside(g + 1, k) => k \in lost'
  BY <1>1, ReadAccounted DEF Reaching
<1>4. Accounted(g)'
  BY <1>3 DEF Accounted, Inside
<1>5. Handled(queue, g)'
  BY <1>1
<1> QED
  BY <1>2, <1>4, <1>5 DEF Followed

\* Steps that handle no read.
LEMMA FollowedStays ==
    ASSUME Followed(queue), got \in Nat, got' \in Nat, got <= got',
           UNCHANGED <<sent, lost, recvCaprure, frameSize, pic>>,
           \A h : Handled(queue, h) => Handled(queue, h)'
    PROVE  Followed(queue)'
<1>1. PICK h \in 0 .. got : Handled(queue, h) /\ Accounted(h)
  BY DEF Followed
<1>2. h \in 0 .. got' /\ Handled(queue, h)'
  BY <1>1
<1>3. Accounted(h)'
  BY <1>1 DEF Accounted, Inside, Reaching
<1> QED
  BY <1>2, <1>3 DEF Followed

LEMMA MissedUnits == ASSUME TypeOK, Content \in Seq(Units) PROVE Missed \subseteq Units
BY DEF Missed, Range

-----------------------------------------------------------------------------
(* One lemma per action.                                                   *)

LEMMA InitInv == Init => IInv
<1> SUFFICES ASSUME Init PROVE IInv
  OBVIOUS
<1>1. TypeOK
  <2>1. /\ <<>> \in Seq(Unit) /\ <<>> \in Seq(Units) /\ <<>> \in Seq(Completion)
        /\ Len(<<>>) = 0
    OBVIOUS
  <2>2. recvCaprure \in BOOLEAN /\ closed \in BOOLEAN /\ deleted \in BOOLEAN /\ overlapped \in BOOLEAN
    BY DEF Init
  <2>3. /\ sent \in Seq(Unit) /\ Len(sent) <= MaxUnits /\ got \in 0 .. Len(sent)
        /\ frameSize \in 0 .. (MaxFrame + 1) /\ lost \in SUBSET Units
    BY <2>1, ReadsAssumption DEF Init
  <2> QED
    BY <2>1, <2>2, <2>3 DEF Init, TypeOK
<1>2. OneReadPerAnswer
  BY <1>1 DEF Init, OneReadPerAnswer
<1>3. Ended /\ Parts /\ Bounded /\ Filled(queue) /\ Latest(queue) /\ Recorded /\ Gathered
  BY DEF Init, Ended, Parts, Bounded, Filled, Latest, Recorded, Gathered
<1>4. Followed(queue)
  <2>1. Handled(queue, 0) /\ 0 \in 0 .. got
    BY DEF Init, Handled, Unhandled
  <2>2. Accounted(0)
    BY DEF Init, Accounted
  <2> QED BY <2>1, <2>2 DEF Followed
<1> QED
  BY <1>2, <1>3, <1>4 DEF IInv, InOrder

\* A part of a picture is added to it, and the last one ends it.
LEMMA ReceivePictureInv ==
    ASSUME IInv, ReceivePicture, lost' = lost \cup Missed
    PROVE  IInv'
<1> DEFINE whole == pic \o Content
<1>1. /\ TypeOK /\ Parts /\ Bounded /\ Filled(queue) /\ InOrder
      /\ ~deleted /\ recvCaprure /\ queue # <<>> /\ Head(queue).op = "read"
      /\ AsyncRead(Tail(queue))
      /\ pic' = whole
      /\ recvCaprure' = ~(Len(whole) > frameSize)
      /\ result' = (IF Len(whole) > frameSize THEN whole ELSE result)
      /\ UNCHANGED <<sent, closed, deleted, writing, frameSize, asked, bads>>
      /\ waiting + writing + Len(queue) = 1 + asked - bads
  BY DEF IInv, OneReadPerAnswer, ReceivePicture, Reading
<1>2. /\ Tail(queue) \in Seq(Completion) /\ Len(Tail(queue)) = Len(queue) - 1
      /\ Filled(Tail(queue))
      /\ Latest(queue) => Latest(Tail(queue)) /\ Handled(Tail(queue), got)
  BY <1>1, TakeHead
<1>3. /\ Content \in Seq(Units) /\ Len(Content) = Len(Head(queue).ids)
      /\ Latest(queue) => \A m \in DOMAIN Content : Content[m] = got - Len(Content) + m
  BY <1>1, ContentRead
<1>4. /\ queue' \in Seq(Completion) /\ data_' \in Seq(Units)
      /\ got' \in 0 .. Len(sent) /\ got <= got' /\ overlapped' \in BOOLEAN /\ waiting' \in Nat
      /\ waiting' + Len(queue') = waiting + Len(Tail(queue)) + 1
      /\ Bounded' /\ Filled(queue)'
      /\ ~overlapped' => ~overlapped
      /\ ~overlapped' /\ Latest(Tail(queue)) => Latest(queue)'
      /\ ~overlapped' => \A h : Handled(Tail(queue), h) => Handled(queue, h)'
  BY <1>1, <1>2, AsyncReadKeeps
<1>5. whole \in Seq(Units)
  BY <1>1, <1>3, ConcatProperties DEF TypeOK
<1> HIDE DEF whole
<1>6. TypeOK'
  BY <1>1, <1>3, <1>4, <1>5, MissedUnits DEF TypeOK
<1>7. OneReadPerAnswer'
  BY <1>1, <1>2, <1>4, <1>6, ReadCount
<1>8. ASSUME ~overlapped'
      PROVE  Latest(queue)' /\ Recorded' /\ Gathered' /\ Followed(queue)'
  <2>1. Latest(queue) /\ Recorded /\ Gathered /\ Followed(queue)
    BY <1>1, <1>4, <1>8 DEF InOrder
  <2>2. /\ Consecutive(pic)
        /\ \/ sent[pic[1]].kind = "upload" /\ frameSize >= sent[pic[1]].size - 1
           \/ Cut(pic[1])
        /\ pic[1] + Len(pic) - 1 = got - Len(Content)
    <3>1. 1 \in DOMAIN queue /\ queue[1].op = "read" /\ Len(queue[1].ids) = Len(Content)
      BY <1>1, <1>3 DEF TypeOK
    <3> QED
      BY <1>1, <2>1, <3>1 DEF Gathered, Handled
  <2>3. Consecutive(whole) /\ whole[1] = pic[1] /\ whole[1] + Len(whole) - 1 = got
    BY <1>1, <1>3, <2>1, <2>2, PictureGoesOn DEF whole
  <2>4. \A h : h = got => Handled(queue, h)'
    BY <1>2, <1>4, <1>8, <2>1
  <2>5. Gathered'
    BY <1>1, <2>2, <2>3, <2>4 DEF Gathered, Consecutive, Cut, Inside
  <2>6. Recorded'
    <3>1. CASE Len(whole) > frameSize
      <4>1. Len(whole) \in Nat /\ frameSize \in Nat
        BY <1>1, <1>5, LenProperties, ReadsAssumption DEF TypeOK
      <4>2. sent[whole[1]].size \in Nat
        BY <1>1, <2>2, <2>3, SizeIsNat DEF Consecutive
      <4>3. frameSize >= sent[whole[1]].size - 1 => Len(whole) >= sent[whole[1]].size
        BY <3>1, <4>1, <4>2
      <4>4. \/ sent[whole[1]].kind = "upload" /\ Len(whole) >= sent[whole[1]].size
            \/ Cut(whole[1])
        BY <2>2, <2>3, <4>3
      <4> QED
        BY <1>1, <2>3, <3>1, <4>4 DEF Recorded, Consecutive, Cut, Inside
    <3>2. CASE ~(Len(whole) > frameSize)
      BY <1>1, <2>1, <3>2 DEF Recorded, Consecutive, Cut, Inside
    <3> QED
      BY <3>1, <3>2
  <2>7. Followed(queue)'
    <3>1. PICK g \in Nat : g = got
      BY <1>1, <2>1, ReadAccounted
    <3>2. ASSUME NEW k \in DOMAIN sent, Inside(g + 1, k)
          PROVE  k \in lost' \/ (recvCaprure' /\ k = whole[1] /\ frameSize >= sent[k].size - 1)
      <4>1. k \in lost' \/ (k = pic[1] /\ frameSize >= sent[k].size - 1)
        BY <1>1, <2>1, <3>1, <3>2, ReadAccounted DEF Reaching
      <4>2. CASE k = pic[1] /\ frameSize >= sent[k].size - 1
        <5>1. PICK l, z, p, f \in Nat : l = Len(whole) /\ z = sent[k].size /\ p = k /\ f = frameSize
          <6>1. Len(whole) \in Nat /\ frameSize \in Nat /\ sent[k].size \in Nat /\ k \in Nat
            BY <1>1, <1>5, <3>2, LenProperties, SizeIsNat, ReadsAssumption DEF TypeOK
          <6> QED BY <6>1, Zenon
        <5>2. g + 1 < p + z /\ p + l - 1 = g /\ f >= z - 1
          BY <2>3, <3>1, <3>2, <4>2, <5>1 DEF Inside
        <5>3. ~(l > f)
          BY <5>2
        <5> QED BY <1>1, <2>3, <4>2, <5>1, <5>3
      <4> QED BY <4>1, <4>2
    <3>3. Accounted(g)'
      BY <1>1, <3>2 DEF Accounted, Inside, Reaching
    <3>4. Handled(queue, g)' /\ g \in 0 .. got'
      BY <1>1, <1>4, <2>4, <3>1
    <3> QED BY <3>3, <3>4 DEF Followed
  <2> QED
    BY <1>2, <1>4, <1>8, <2>1, <2>5, <2>6, <2>7
<1> QED
  BY <1>1, <1>4, <1>7, <1>8 DEF IInv, Ended, InOrder, Parts, Inside

\* A message without an answer is read past.
LEMMA HandleQuietInv ==
    ASSUME IInv, HandleQuiet, lost' = lost \cup Missed
    PROVE  IInv'
<1>1. /\ TypeOK /\ Parts /\ Bounded /\ Filled(queue) /\ InOrder
      /\ ~deleted /\ ~recvCaprure /\ queue # <<>> /\ Head(queue).op = "read"
      /\ AsyncRead(Tail(queue))
      /\ UNCHANGED <<sent, closed, deleted, writing, picture, asked, bads>>
      /\ waiting + writing + Len(queue) = 1 + asked - bads
  BY DEF IInv, OneReadPerAnswer, HandleQuiet, Message, Reading
<1>2. /\ Tail(queue) \in Seq(Completion) /\ Len(Tail(queue)) = Len(queue) - 1
      /\ Filled(Tail(queue))
      /\ Latest(queue) => Latest(Tail(queue)) /\ Handled(Tail(queue), got)
  BY <1>1, TakeHead
<1>3. /\ queue' \in Seq(Completion) /\ data_' \in Seq(Units)
      /\ got' \in 0 .. Len(sent) /\ got <= got' /\ overlapped' \in BOOLEAN /\ waiting' \in Nat
      /\ waiting' + Len(queue') = waiting + Len(Tail(queue)) + 1
      /\ Bounded' /\ Filled(queue)'
      /\ ~overlapped' => ~overlapped
      /\ ~overlapped' /\ Latest(Tail(queue)) => Latest(queue)'
      /\ ~overlapped' => \A h : Handled(Tail(queue), h) => Handled(queue, h)'
  BY <1>1, <1>2, AsyncReadKeeps
<1>c. lost' \in SUBSET Units
  <2>1. Content \in Seq(Units) /\ Missed \subseteq Units
    BY <1>1, ContentRead, MissedUnits
  <2> QED
    BY <1>1, <2>1 DEF TypeOK
<1>4. TypeOK'
  BY <1>1, <1>3, <1>c DEF TypeOK, picture
<1>5. OneReadPerAnswer'
  BY <1>1, <1>2, <1>3, <1>4, ReadCount
<1>6. InOrder'
  <2> SUFFICES ASSUME ~overlapped' PROVE Latest(queue)' /\ Recorded' /\ Gathered' /\ Followed(queue)'
    BY DEF InOrder
  <2>1. Latest(queue) /\ Recorded /\ Followed(queue)
    BY <1>1, <1>3 DEF InOrder
  <2>2. Latest(queue)' /\ Recorded' /\ Gathered'
    BY <1>1, <1>2, <1>3, <2>1 DEF Recorded, Gathered, Consecutive, Cut, Inside, picture
  <2>3. \A h : h = got => Handled(queue, h)'
    BY <1>2, <1>3, <2>1
  <2>4. Followed(queue)'
    BY <1>1, <1>3, <2>1, <2>3, NothingReceived DEF picture
  <2> QED BY <2>2, <2>4
<1> QED
  BY <1>1, <1>3, <1>5, <1>6 DEF IInv, Ended, Parts, Inside

\* A message with an answer: one more operation for the answer.
LEMMA HandleAskInv ==
    ASSUME IInv, HandleAsk, lost' = lost \cup Missed
    PROVE  IInv'
<1>1. /\ TypeOK /\ Parts /\ Bounded /\ Filled(queue) /\ InOrder
      /\ ~deleted /\ ~recvCaprure /\ queue # <<>> /\ Head(queue).op = "read"
      /\ UNCHANGED <<sent, closed, deleted, picture, bads>>
      /\ waiting + writing + Len(queue) = 1 + asked - bads
  BY DEF IInv, OneReadPerAnswer, HandleAsk, Message, Reading
<1>2. PICK a \in Answers(Tail(queue)) : Answer(a) /\ AsyncRead(a.queue)
  BY DEF HandleAsk
<1>3. /\ Tail(queue) \in Seq(Completion) /\ Len(Tail(queue)) = Len(queue) - 1
      /\ Filled(Tail(queue))
      /\ Latest(queue) => Latest(Tail(queue)) /\ Handled(Tail(queue), got)
  BY <1>1, TakeHead
<1>4. /\ a.queue \in Seq(Completion) /\ a.writing \in Nat
      /\ a.writing + Len(a.queue) = writing + Len(Tail(queue)) + 1
      /\ Filled(a.queue)
      /\ Latest(Tail(queue)) => Latest(a.queue)
      /\ \A h : Handled(Tail(queue), h) => Handled(a.queue, h)
  BY <1>1, <1>3, AnswerKeeps
<1>5. /\ queue' \in Seq(Completion) /\ data_' \in Seq(Units)
      /\ got' \in 0 .. Len(sent) /\ got <= got' /\ overlapped' \in BOOLEAN /\ waiting' \in Nat
      /\ waiting' + Len(queue') = waiting + Len(a.queue) + 1
      /\ Bounded' /\ Filled(queue)'
      /\ ~overlapped' => ~overlapped
      /\ ~overlapped' /\ Latest(a.queue) => Latest(queue)'
      /\ ~overlapped' => \A h : Handled(a.queue, h) => Handled(queue, h)'
  BY <1>1, <1>2, <1>4, AsyncReadKeeps
<1>6. asked' = asked + 1 /\ writing' = a.writing
  BY <1>2 DEF Answer
<1>c. lost' \in SUBSET Units
  <2>1. Content \in Seq(Units) /\ Missed \subseteq Units
    BY <1>1, ContentRead, MissedUnits
  <2> QED
    BY <1>1, <2>1 DEF TypeOK
<1>7. TypeOK'
  BY <1>1, <1>4, <1>5, <1>6, <1>c DEF TypeOK, picture
<1>8. OneReadPerAnswer'
  BY <1>1, <1>3, <1>4, <1>5, <1>6, <1>7, AnswerCount
<1>9. InOrder'
  <2> SUFFICES ASSUME ~overlapped' PROVE Latest(queue)' /\ Recorded' /\ Gathered' /\ Followed(queue)'
    BY DEF InOrder
  <2>1. Latest(queue) /\ Recorded /\ Followed(queue)
    BY <1>1, <1>5 DEF InOrder
  <2>2. Latest(queue)' /\ Recorded' /\ Gathered'
    BY <1>1, <1>3, <1>4, <1>5, <2>1 DEF Recorded, Gathered, Consecutive, Cut, Inside, picture
  <2>3. \A h : h = got => Handled(queue, h)'
    BY <1>3, <1>4, <1>5, <2>1
  <2>4. Followed(queue)'
    BY <1>1, <1>5, <2>1, <2>3, NothingReceived DEF picture
  <2> QED BY <2>2, <2>4
<1> QED
  BY <1>1, <1>5, <1>8, <1>9 DEF IInv, Ended, Parts, Inside

\* A refused login is answered without another read.
LEMMA HandleBadInv ==
    ASSUME IInv, HandleBad, lost' = lost \cup Missed
    PROVE  IInv'
<1>1. /\ TypeOK /\ Parts /\ Bounded /\ Filled(queue) /\ InOrder
      /\ ~deleted /\ ~recvCaprure /\ queue # <<>> /\ Head(queue).op = "read"
      /\ UNCHANGED <<sent, closed, deleted, got, data_, waiting, picture, overlapped>>
      /\ bads' = bads + 1
      /\ waiting + writing + Len(queue) = 1 + asked - bads
  BY DEF IInv, OneReadPerAnswer, HandleBad, Message, Reading
<1>2. PICK a \in Answers(Tail(queue)) : Answer(a) /\ queue' = a.queue
  BY DEF HandleBad
<1>3. /\ Tail(queue) \in Seq(Completion) /\ Len(Tail(queue)) = Len(queue) - 1
      /\ Filled(Tail(queue))
      /\ Latest(queue) => Latest(Tail(queue)) /\ Handled(Tail(queue), got)
  BY <1>1, TakeHead
<1>4. /\ a.queue \in Seq(Completion) /\ a.writing \in Nat
      /\ a.writing + Len(a.queue) = writing + Len(Tail(queue)) + 1
      /\ Filled(a.queue)
      /\ Latest(Tail(queue)) => Latest(a.queue)
      /\ \A h : Handled(Tail(queue), h) => Handled(a.queue, h)
  BY <1>1, <1>3, AnswerKeeps
<1>5. asked' = asked + 1 /\ writing' = a.writing
  BY <1>2 DEF Answer
<1>c. lost' \in SUBSET Units
  <2>1. Content \in Seq(Units) /\ Missed \subseteq Units
    BY <1>1, ContentRead, MissedUnits
  <2> QED
    BY <1>1, <2>1 DEF TypeOK
<1>6. TypeOK'
  BY <1>1, <1>2, <1>4, <1>5, <1>c DEF TypeOK, picture
<1>7. OneReadPerAnswer'
  <2> DEFINE n == Len(queue)  m == Len(a.queue)  t == Len(Tail(queue))  w == a.writing
  <2>1. waiting \in Nat /\ writing \in Nat /\ asked \in Nat /\ bads \in Nat /\ n \in Nat
    BY <1>1 DEF TypeOK
  <2>2. m \in Nat /\ w \in Nat
    BY <1>4
  <2>3. t = n - 1 /\ w + m = writing + t + 1 /\ waiting + writing + n = 1 + asked - bads
    BY <1>1, <1>3, <1>4
  <2> HIDE DEF n, m, t, w
  <2>4. waiting + w + m = 1 + (asked + 1) - (bads + 1)
    BY <2>1, <2>2, <2>3
  <2> QED
    BY <1>1, <1>2, <1>5, <1>6, <2>4 DEF OneReadPerAnswer, m, w
<1>8. Bounded' /\ Filled(queue)'
  BY <1>1, <1>2, <1>4 DEF Bounded, Filled
<1>9. Latest(queue) => Latest(queue)'
  BY <1>1, <1>2, <1>3, <1>4 DEF Latest
<1>10. InOrder'
  <2> SUFFICES ASSUME ~overlapped' PROVE Latest(queue)' /\ Recorded' /\ Gathered' /\ Followed(queue)'
    BY DEF InOrder
  <2>1. Latest(queue) /\ Recorded /\ Followed(queue)
    BY <1>1 DEF InOrder
  <2>2. Latest(queue)' /\ Recorded' /\ Gathered'
    BY <1>1, <1>9, <2>1 DEF Recorded, Gathered, Consecutive, Cut, Inside, picture
  <2>3. \A h : h = got => Handled(queue, h)'
    <3>1. Handled(queue', got) /\ got' = got
      BY <1>1, <1>2, <1>3, <1>4, <2>1
    <3> QED BY <3>1 DEF Handled, Unhandled
  <2>4. got \in Nat
    BY <1>1 DEF TypeOK
  <2>5. Followed(queue)'
    BY <1>1, <2>1, <2>3, <2>4, NothingReceived DEF picture
  <2> QED BY <2>2, <2>5
<1> QED
  BY <1>1, <1>7, <1>8, <1>10 DEF IInv, Ended, Parts, Inside

\* The first part of an upload begins a picture with all that was read.
LEMMA HandleUploadInv ==
    ASSUME IInv, HandleUpload, lost' = lost \cup Missed
    PROVE  IInv'
<1> DEFINE u == sent[Content[1]]
<1>1. /\ TypeOK /\ Parts /\ Bounded /\ Filled(queue) /\ InOrder
      /\ ~deleted /\ ~recvCaprure /\ queue # <<>> /\ Head(queue).op = "read"
      /\ u.kind \in {"upload", "part"}
      /\ frameSize' \in FrameSizes(Content[1])
      /\ IF frameSize' \in 1 .. MaxFrame
            THEN pic' = Content /\ recvCaprure' = TRUE
            ELSE UNCHANGED <<pic, recvCaprure>>
      /\ UNCHANGED <<sent, closed, deleted, result, bads>>
      /\ waiting + writing + Len(queue) = 1 + asked - bads
  BY DEF IInv, OneReadPerAnswer, HandleUpload, Message, Reading
<1>2. PICK a \in Answers(Tail(queue)) : Answer(a) /\ AsyncRead(a.queue)
  BY DEF HandleUpload
<1>3. /\ Tail(queue) \in Seq(Completion) /\ Len(Tail(queue)) = Len(queue) - 1
      /\ Filled(Tail(queue))
      /\ Latest(queue) => Latest(Tail(queue)) /\ Handled(Tail(queue), got)
  BY <1>1, TakeHead
<1>4. /\ a.queue \in Seq(Completion) /\ a.writing \in Nat
      /\ a.writing + Len(a.queue) = writing + Len(Tail(queue)) + 1
      /\ Filled(a.queue)
      /\ Latest(Tail(queue)) => Latest(a.queue)
      /\ \A h : Handled(Tail(queue), h) => Handled(a.queue, h)
  BY <1>1, <1>3, AnswerKeeps
<1>5. /\ queue' \in Seq(Completion) /\ data_' \in Seq(Units)
      /\ got' \in 0 .. Len(sent) /\ got <= got' /\ overlapped' \in BOOLEAN /\ waiting' \in Nat
      /\ waiting' + Len(queue') = waiting + Len(a.queue) + 1
      /\ Bounded' /\ Filled(queue)'
      /\ ~overlapped' => ~overlapped
      /\ ~overlapped' /\ Latest(a.queue) => Latest(queue)'
      /\ ~overlapped' => \A h : Handled(a.queue, h) => Handled(queue, h)'
  BY <1>1, <1>2, <1>4, AsyncReadKeeps
<1>6. asked' = asked + 1 /\ writing' = a.writing
  BY <1>2 DEF Answer
<1>7. /\ Content \in Seq(Units) /\ Content # <<>> /\ Content[1] \in DOMAIN sent
      /\ Latest(queue) => \A m \in DOMAIN Content : Content[m] = got - Len(Content) + m
  BY <1>1, ContentRead
<1>8. /\ u.kind = "upload" => u.size \in 1 .. MaxFrame + 1 /\ frameSize' \in {u.size, u.size - 1}
      /\ u.kind # "upload" => frameSize' \in 0 .. (MaxFrame + 1)
      /\ Missed \subseteq Units
  BY <1>1, <1>7, SizeIsNat, MissedUnits DEF FrameSizes
<1>9. TypeOK'
  <2>1. frameSize' \in 0 .. (MaxFrame + 1)
    BY <1>8, ReadsAssumption
  <2>2. pic' \in Seq(Units) /\ recvCaprure' \in BOOLEAN
    BY <1>1, <1>7 DEF TypeOK
  <2> QED
    BY <1>1, <1>4, <1>5, <1>6, <1>8, <2>1, <2>2 DEF TypeOK
<1>10. OneReadPerAnswer'
  BY <1>1, <1>3, <1>4, <1>5, <1>6, <1>9, AnswerCount
<1>11. ASSUME ~overlapped', recvCaprure'
       PROVE  Gathered'
  <2>1. Latest(queue) /\ Followed(queue)
    BY <1>1, <1>5, <1>11 DEF InOrder
  <2>2. pic' = Content
    BY <1>1, <1>11
  <2>3. Consecutive(Content) /\ Content[1] + Len(Content) - 1 = got
    <3> DEFINE n == Len(Content)  h == Content[1]
    <3>1. n \in Nat \ {0} /\ got \in Nat /\ DOMAIN Content = 1 .. n
      BY <1>1, <1>7 DEF TypeOK
    <3>2. \A m \in 1 .. n : Content[m] = got - n + m
      BY <1>7, <2>1, <3>1
    <3>3. h = got - n + 1
      BY <3>1, <3>2
    <3> HIDE DEF n, h
    <3>4. h + n - 1 = got /\ \A m \in 1 .. n : got - n + m = h + m - 1
      BY <3>1, <3>3
    <3>5. \A m \in DOMAIN Content : Content[m] = Content[1] + m - 1
      BY <3>1, <3>2, <3>4 DEF h
    <3> QED
      BY <1>1, <1>7, <3>4, <3>5 DEF Consecutive, n, h
  <2>4. (u.kind = "upload" /\ frameSize' >= u.size - 1) \/ Cut(Content[1])
    <3>1. CASE u.kind = "upload"
      BY <1>8, <3>1
    <3>2. CASE u.kind = "part"
      <4>1. PICK k \in DOMAIN sent : Inside(Content[1], k)
        BY <1>1, <1>7, <3>2 DEF Parts
      <4>2. Accounted(Content[1] - 1) /\ Content[1] \in Nat
        <5>1. Content[1] \in Nat
          <6>1. DOMAIN sent \subseteq Nat
            BY <1>1 DEF TypeOK
          <6> QED
            BY <1>7, <6>1, Zenon
        <5> QED
          BY <1>1, <2>1, <5>1, ReadAccounted, Zenon
      <4> DEFINE h == Content[1]
      <4> HIDE DEF h
      <4>3. h \in Nat /\ Accounted(h - 1) /\ Inside(h, k)
        BY <4>1, <4>2 DEF h
      <4>4. h - 1 + 1 = h
        BY <4>3
      <4>5. k \in lost
        BY <1>1, <4>1, <4>3, <4>4 DEF Accounted, Reaching
      <4> QED BY <3>2, <4>1, <4>5 DEF Cut
    <3> QED BY <1>1, <3>1, <3>2
  <2>5. \A h : h = got => Handled(queue, h)'
    BY <1>3, <1>4, <1>5, <1>11, <2>1
  <2> QED
    BY <1>1, <2>2, <2>3, <2>4, <2>5 DEF Gathered, Consecutive, Cut, Inside
<1>12. InOrder'
  <2>1. ~overlapped' => Latest(queue)' /\ Recorded'
    BY <1>1, <1>3, <1>4, <1>5 DEF InOrder, Recorded, Consecutive, Cut, Inside
  <2>2. ASSUME ~overlapped'
        PROVE  Followed(queue)'
    <3>1. Latest(queue) /\ Followed(queue)
      BY <1>1, <1>5, <2>2 DEF InOrder
    <3>2. PICK g \in Nat : g = got
      BY <1>1, <3>1, ReadAccounted
    <3>3. ASSUME NEW k \in DOMAIN sent, Inside(g + 1, k)
          PROVE  k \in lost' \/ (recvCaprure' /\ k = pic'[1] /\ frameSize' >= sent[k].size - 1)
      <4>1. k \in lost' \/ (k = Content[1] /\ recvCaprure')
        BY <1>1, <3>1, <3>2, <3>3, ReadAccounted DEF Reaching
      <4>2. CASE k = Content[1] /\ recvCaprure'
        <5>1. pic' = Content /\ u.kind = "upload"
          BY <1>1, <3>3, <4>2 DEF Inside
        <5>2. frameSize' >= u.size - 1
          BY <1>8, <5>1
        <5> QED BY <4>2, <5>1, <5>2
      <4> QED BY <4>1, <4>2
    <3>4. Accounted(g)'
      BY <1>1, <3>3 DEF Accounted, Inside, Reaching
    <3>5. Handled(queue, g)' /\ g \in 0 .. got'
      BY <1>1, <1>3, <1>4, <1>5, <2>2, <3>1, <3>2
    <3> QED BY <3>4, <3>5 DEF Followed
  <2> QED
    BY <1>11, <2>1, <2>2 DEF InOrder, Gathered
<1> QED
  BY <1>1, <1>5, <1>10, <1>12 DEF IInv, Ended, Parts, Inside

\* A read for an answer that went out.
LEMMA handle_writeInv ==
    ASSUME IInv, handle_write
    PROVE  IInv'
<1>1. /\ TypeOK /\ Parts /\ Bounded /\ Filled(queue) /\ InOrder
      /\ ~deleted /\ queue # <<>> /\ Head(queue).op = "write"
      /\ AsyncRead(Tail(queue))
      /\ UNCHANGED <<sent, closed, deleted, writing, picture, asked, bads, lost>>
      /\ waiting + writing + Len(queue) = 1 + asked - bads
  BY DEF IInv, OneReadPerAnswer, handle_write
<1>2. /\ Tail(queue) \in Seq(Completion) /\ Len(Tail(queue)) = Len(queue) - 1
      /\ Filled(Tail(queue))
      /\ Latest(queue) => Latest(Tail(queue))
      /\ \A h : Handled(queue, h) => Handled(Tail(queue), h)
  BY <1>1, TakeHead
<1>3. /\ queue' \in Seq(Completion) /\ data_' \in Seq(Units)
      /\ got' \in 0 .. Len(sent) /\ got <= got' /\ overlapped' \in BOOLEAN /\ waiting' \in Nat
      /\ waiting' + Len(queue') = waiting + Len(Tail(queue)) + 1
      /\ Bounded' /\ Filled(queue)'
      /\ ~overlapped' => ~overlapped
      /\ ~overlapped' /\ Latest(Tail(queue)) => Latest(queue)'
      /\ ~overlapped' => \A h : Handled(Tail(queue), h) => Handled(queue, h)'
  BY <1>1, <1>2, AsyncReadKeeps
<1>4. TypeOK'
  BY <1>1, <1>3 DEF TypeOK, picture
<1>5. OneReadPerAnswer'
  BY <1>1, <1>2, <1>3, <1>4, ReadCount
<1>6. ASSUME ~overlapped' PROVE Latest(queue)' /\ Recorded' /\ Gathered' /\ Followed(queue)'
  <2>1. Latest(queue) /\ Recorded /\ Gathered /\ Followed(queue)
    BY <1>1, <1>3, <1>6 DEF InOrder
  <2>2. Latest(queue)' /\ Recorded'
    BY <1>1, <1>2, <1>3, <1>6, <2>1 DEF Recorded, Consecutive, Cut, Inside, picture
  <2>3. \A h : h = pic[1] + Len(pic) - 1 /\ Handled(queue, h) => Handled(queue, h)'
    BY <1>2, <1>3, <1>6
  <2>4. Gathered'
    BY <1>1, <2>1, <2>3 DEF Gathered, Consecutive, Cut, Inside, picture
  <2>5. \A h : Handled(queue, h) => Handled(queue, h)'
    BY <1>2, <1>3, <1>6
  <2>6. got \in Nat /\ got' \in Nat
    BY <1>1, <1>3 DEF TypeOK
  <2>7. Followed(queue)'
    BY <1>1, <1>3, <2>1, <2>5, <2>6, FollowedStays DEF picture
  <2> QED
    BY <2>2, <2>4, <2>7
<1> QED
  BY <1>1, <1>3, <1>5, <1>6 DEF IInv, Ended, InOrder, Parts, Inside

\* A read that waited completes, or fails.
LEMMA ReadReadyInv ==
    ASSUME IInv, ReadReady
    PROVE  IInv'
<1>1. /\ TypeOK /\ Parts /\ Bounded /\ Filled(queue) /\ InOrder /\ OneReadPerAnswer /\ Ended
      /\ queue \in Seq(Completion) /\ waiting \in Nat \ {0} /\ waiting' = waiting - 1
      /\ UNCHANGED <<sent, closed, writing, picture, deleted, asked, bads, lost>>
  BY DEF IInv, OneReadPerAnswer, ReadReady, TypeOK
<1>2. /\ queue' \in Seq(Completion) /\ data_' \in Seq(Units)
      /\ got' \in 0 .. Len(sent) /\ got <= got' /\ overlapped' \in BOOLEAN
      /\ Len(queue') = Len(queue) + 1
      /\ Bounded' /\ Filled(queue)'
      /\ ~overlapped' => ~overlapped
      /\ ~overlapped' /\ Latest(queue) => Latest(queue)'
      /\ ~overlapped' => \A h : Handled(queue, h) => Handled(queue, h)'
  <2>1. CASE Arrived # <<>> /\ Fill(queue)
    BY <1>1, <2>1, FillKeeps
  <2>2. CASE queue' = Append(queue, [op |-> "error"]) /\ UNCHANGED <<data_, got, overlapped>>
    <3>1. /\ Append(queue, [op |-> "error"]) \in Seq(Completion)
          /\ Len(Append(queue, [op |-> "error"])) = Len(queue) + 1
          /\ Filled(Append(queue, [op |-> "error"]))
          /\ Latest(queue) => Latest(Append(queue, [op |-> "error"]))
          /\ \A h : Handled(queue, h) => Handled(Append(queue, [op |-> "error"]), h)
      BY <1>1, AppendOther
    <3>2. Bounded' /\ Filled(queue)' /\ (Latest(queue) => Latest(queue)')
      BY <1>1, <2>2, <3>1 DEF Bounded, Filled, Latest
    <3>3. \A h : Handled(queue, h) => Handled(queue, h)'
      BY <2>2, <3>1 DEF Handled, Unhandled
    <3> QED
      BY <1>1, <2>2, <3>1, <3>2, <3>3 DEF TypeOK
  <2> QED
    BY <2>1, <2>2 DEF ReadReady
<1>3. TypeOK'
  BY <1>1, <1>2 DEF TypeOK, picture
<1>4. OneReadPerAnswer'
  <2>1. ~deleted
    BY <1>1 DEF Ended
  <2> DEFINE n == Len(queue)  m == Len(queue')
  <2>2. n \in Nat /\ writing \in Nat /\ asked \in Nat /\ bads \in Nat /\ m = n + 1
        /\ waiting + writing + n = 1 + asked - bads
    BY <1>1, <1>2, <2>1 DEF OneReadPerAnswer, TypeOK
  <2> HIDE DEF n, m
  <2>3. (waiting - 1) + writing + m = 1 + asked - bads
    BY <1>1, <2>2
  <2> QED
    BY <1>1, <1>3, <2>1, <2>3 DEF OneReadPerAnswer, m
<1>5. ASSUME ~overlapped' PROVE Latest(queue)' /\ Recorded' /\ (~deleted => Gathered' /\ Followed(queue)')
  <2>1. Latest(queue) /\ Recorded
    BY <1>1, <1>2, <1>5 DEF InOrder
  <2>2. Latest(queue)' /\ Recorded'
    BY <1>1, <1>2, <1>5, <2>1 DEF Recorded, Consecutive, Cut, Inside, picture
  <2>3. \A h : h = pic[1] + Len(pic) - 1 /\ Handled(queue, h) => Handled(queue, h)'
    BY <1>2, <1>5
  <2>4. ASSUME ~deleted PROVE Gathered' /\ Followed(queue)'
    <3>1. Gathered /\ Followed(queue)
      BY <1>1, <1>2, <1>5, <2>4 DEF InOrder
    <3>2. Gathered'
      BY <1>1, <2>3, <3>1 DEF Gathered, Consecutive, Cut, Inside, picture
    <3>3. got \in Nat /\ got' \in Nat /\ got <= got'
      BY <1>1, <1>2 DEF TypeOK
    <3>4. \A h : Handled(queue, h) => Handled(queue, h)'
      BY <1>2, <1>5
    <3>5. Followed(queue)'
      BY <1>1, <3>1, <3>3, <3>4, FollowedStays DEF picture
    <3> QED BY <3>2, <3>5
  <2> QED
    BY <2>2, <2>4
<1> QED
  BY <1>1, <1>2, <1>4, <1>5 DEF IInv, Ended, InOrder, Parts, Inside

\* A write that waited completes, or fails.
LEMMA WriteReadyInv ==
    ASSUME IInv, WriteReady
    PROVE  IInv'
<1>1. /\ TypeOK /\ Parts /\ Bounded /\ Filled(queue) /\ InOrder /\ OneReadPerAnswer /\ Ended
      /\ queue \in Seq(Completion) /\ writing \in Nat \ {0} /\ writing' = writing - 1
      /\ UNCHANGED <<sent, got, closed, data_, waiting, picture, deleted, asked, bads, overlapped, lost>>
  BY DEF IInv, OneReadPerAnswer, WriteReady, TypeOK, socket
<1>2. PICK e \in [op : {"write", "error"}] : queue' = Append(queue, e)
  BY DEF WriteReady, WriteEnds
<1>3. /\ queue' \in Seq(Completion) /\ Len(queue') = Len(queue) + 1
      /\ Filled(queue') /\ (Latest(queue) => Latest(queue'))
      /\ \A h : Handled(queue, h) => Handled(queue', h)
  BY <1>1, <1>2, AppendOther
<1>4. TypeOK'
  BY <1>1, <1>3 DEF TypeOK, picture
<1>5. OneReadPerAnswer'
  <2>1. ~deleted
    BY <1>1 DEF Ended
  <2> DEFINE n == Len(queue)  m == Len(queue')
  <2>2. n \in Nat /\ waiting \in Nat /\ asked \in Nat /\ bads \in Nat /\ m = n + 1
        /\ waiting + writing + n = 1 + asked - bads
    BY <1>1, <1>3, <2>1 DEF OneReadPerAnswer, TypeOK
  <2> HIDE DEF n, m
  <2>3. waiting + (writing - 1) + m = 1 + asked - bads
    BY <1>1, <2>2
  <2> QED
    BY <1>1, <1>4, <2>1, <2>3 DEF OneReadPerAnswer, m
<1>6. Bounded' /\ Filled(queue)' /\ (Latest(queue) => Latest(queue)')
  BY <1>1, <1>3 DEF Bounded, Filled, Latest
<1>7. \A h : Handled(queue, h) => Handled(queue, h)'
  BY <1>1, <1>3 DEF Handled, Unhandled
<1>8. Gathered => Gathered'
  <2>1. \A h : h = pic[1] + Len(pic) - 1 /\ Handled(queue, h) => Handled(queue, h)'
    BY <1>7
  <2> QED
    BY <1>1, <2>1 DEF Gathered, Consecutive, Cut, Inside, picture
<1>9. Followed(queue) => Followed(queue)'
  <2>1. got \in Nat /\ got' \in Nat /\ got <= got'
    BY <1>1 DEF TypeOK
  <2> QED
    BY <1>1, <1>7, <2>1, FollowedStays DEF picture
<1>10. InOrder'
  BY <1>1, <1>6, <1>8, <1>9 DEF InOrder, Recorded, Consecutive, Cut, Inside, picture
<1> QED
  BY <1>1, <1>5, <1>6, <1>10 DEF IInv, Ended, Parts, Inside

\* Handlers of reads stay, those of the operations that waited fail.
LEMMA HandleErrorInv ==
    ASSUME IInv, HandleError
    PROVE  IInv'
<1> DEFINE n == waiting + writing
           failed == [k \in 1 .. n |-> [op |-> "error"]]
<1>1. /\ TypeOK /\ Parts /\ Bounded /\ Filled(queue) /\ InOrder
      /\ waiting \in Nat /\ writing \in Nat
      /\ waiting + writing + Len(queue) = 1 + asked - bads
      /\ queue # <<>> /\ Head(queue).op = "error"
      /\ deleted' = TRUE /\ waiting' = 0 /\ writing' = 0
      /\ queue' = Tail(queue) \o failed
      /\ UNCHANGED <<sent, got, closed, data_, picture, asked, bads, overlapped, lost>>
  BY DEF IInv, OneReadPerAnswer, HandleError, TypeOK, socket
<1>2. /\ Tail(queue) \in Seq(Completion) /\ Len(Tail(queue)) = Len(queue) - 1
      /\ Filled(Tail(queue)) /\ (Latest(queue) => Latest(Tail(queue)))
  BY <1>1, TakeHead
<1>3. failed \in Seq(Completion) /\ Len(failed) = n
  <2>1. n \in Nat /\ failed \in [1 .. n -> Completion]
    BY <1>1 DEF Completion
  <2>2. failed \in Seq(Completion)
    BY <2>1, SeqDef
  <2> QED
    BY <2>1, <2>2, LenProperties
<1>4. /\ queue' \in Seq(Completion)
      /\ Len(queue') = Len(Tail(queue)) + n
      /\ \A k \in 1 .. Len(queue') :
            queue'[k] = IF k <= Len(Tail(queue)) THEN Tail(queue)[k] ELSE failed[k - Len(Tail(queue))]
  BY <1>1, <1>2, <1>3, ConcatProperties
<1>5. ASSUME NEW k \in DOMAIN queue', queue'[k].op = "read"
      PROVE  k \in DOMAIN Tail(queue) /\ queue'[k] = Tail(queue)[k]
  <2>1. /\ k \in 1 .. Len(queue') /\ n \in Nat /\ Len(Tail(queue)) \in Nat
        /\ DOMAIN Tail(queue) = 1 .. Len(Tail(queue))
    BY <1>1, <1>2, <1>4
  <2>2. k <= Len(Tail(queue))
    <3>1. SUFFICES ASSUME ~(k <= Len(Tail(queue))) PROVE FALSE
      OBVIOUS
    <3>2. k - Len(Tail(queue)) \in 1 .. n
      BY <1>4, <2>1, <3>1
    <3> QED
      BY <1>4, <1>5, <2>1, <3>1, <3>2
  <2> QED
    BY <1>4, <2>1, <2>2
<1> HIDE DEF failed
<1>6. TypeOK'
  BY <1>1, <1>4 DEF TypeOK, picture
<1>7. OneReadPerAnswer'
  <2> DEFINE l == Len(queue)  m == Len(queue')  t == Len(Tail(queue))
  <2>1. /\ l \in Nat /\ asked \in Nat /\ bads \in Nat /\ t = l - 1 /\ m = t + (waiting + writing)
        /\ waiting + writing + l = 1 + asked - bads
    BY <1>1, <1>2, <1>4 DEF TypeOK
  <2> HIDE DEF l, m, t
  <2>2. m = asked - bads
    BY <1>1, <2>1
  <2> QED
    BY <1>1, <1>6, <2>2 DEF OneReadPerAnswer, m
<1>8. Bounded' /\ Filled(queue)' /\ (Latest(queue) => Latest(queue)')
  <2>1. Bounded' /\ Filled(queue)'
    BY <1>1, <1>2, <1>5 DEF Bounded, Filled
  <2>2. ASSUME Latest(queue)
        PROVE  Latest(queue)'
    <3> DEFINE q == Tail(queue)  r == queue'
    <3>1. Latest(q) /\ got' = got /\ data_' = data_
      BY <1>1, <1>2, <2>2
    <3>2. \A k \in DOMAIN r : r[k].op = "read" => k \in DOMAIN q /\ r[k] = q[k]
      BY <1>5
    <3> HIDE DEF q, r
    <3>3. \A j, k \in DOMAIN r : r[j].op = "read" /\ r[k].op = "read" => j = k
      BY <3>1, <3>2 DEF Latest
    <3>4. \A k \in DOMAIN r : r[k].op = "read" =>
              \A m \in 1 .. Len(r[k].ids) : data_[m] = got - Len(r[k].ids) + m
      BY <3>1, <3>2 DEF Latest
    <3> QED
      BY <3>1, <3>3, <3>4 DEF Latest, r
  <2> QED
    BY <2>1, <2>2
<1>9. InOrder'
  BY <1>1, <1>8 DEF InOrder, Recorded, Consecutive, Cut, Inside, picture
<1> QED
  BY <1>1, <1>7, <1>8, <1>9 DEF IInv, Ended, Parts, Inside

\* The device sends: what was sent before stays.
LEMMA SendInv ==
    ASSUME IInv, Send
    PROVE  IInv'
<1>1. /\ TypeOK /\ Parts /\ Bounded /\ Filled(queue) /\ InOrder /\ OneReadPerAnswer /\ Ended
      /\ sent \in Seq(Unit) /\ Len(sent) < MaxUnits
      /\ UNCHANGED <<got, closed, data_, waiting, writing, queue, picture, deleted, asked, bads, overlapped, lost>>
  BY DEF IInv, OneReadPerAnswer, Send, TypeOK
<1>2. PICK u \in Unit : (u.kind = "part" <=> Unfinished) /\ sent' = Append(sent, u)
  BY DEF Send
<1>3. /\ sent' \in Seq(Unit) /\ Len(sent') = Len(sent) + 1
      /\ \A h \in DOMAIN sent : h \in DOMAIN sent' /\ sent'[h] = sent[h]
      /\ DOMAIN sent' = DOMAIN sent \cup {Len(sent) + 1} /\ sent'[Len(sent) + 1] = u
      /\ DOMAIN sent = 1 .. Len(sent) /\ Len(sent) \in Nat
  BY <1>1, <1>2
<1>4. TypeOK'
  <2>1. Len(sent') <= MaxUnits /\ got \in 0 .. Len(sent')
    BY <1>1, <1>3, ReadsAssumption DEF TypeOK
  <2> QED
    BY <1>1, <1>3, <2>1 DEF TypeOK, picture
<1>5. OneReadPerAnswer'
  BY <1>1, <1>4 DEF OneReadPerAnswer
<1>6. Bounded' /\ Filled(queue)' /\ (Latest(queue) => Latest(queue)')
  BY <1>1 DEF Bounded, Filled, Latest
<1>7. (Recorded => Recorded') /\ (Gathered => Gathered')
  BY <1>1, <1>3 DEF Recorded, Gathered, Consecutive, Cut, Inside, Handled, Unhandled, picture
<1>8. Followed(queue) => Followed(queue)'
  <2> SUFFICES ASSUME Followed(queue) PROVE Followed(queue)'
    OBVIOUS
  <2>1. PICK h \in 0 .. got : Handled(queue, h) /\ Accounted(h)
    BY DEF Followed
  <2>2. Handled(queue, h)' /\ h \in 0 .. got'
    BY <1>1, <2>1 DEF Handled, Unhandled
  <2>3. h <= Len(sent)
    BY <1>1, <1>3, <2>1 DEF TypeOK
  <2>4. ~(Len(sent) + 1 < h + 1)
    BY <1>3, <2>1, <2>3
  <2>5. Accounted(h)'
    BY <1>1, <1>3, <2>1, <2>4 DEF Accounted, Inside, Reaching, picture
  <2> QED BY <2>2, <2>5 DEF Followed
<1>9. Parts'
  <2>1. ASSUME u.kind = "part"
        PROVE  \E k \in DOMAIN sent : Inside(Len(sent) + 1, k)
    <3>1. PICK k \in DOMAIN sent : k + sent[k].size - 1 > Len(sent)
      BY <1>2, <1>3, <2>1 DEF Unfinished
    <3>2. sent[k] \in Unit /\ sent[k].size \in Nat /\ k \in Nat /\ k <= Len(sent)
      BY <1>1, <1>3, <3>1, SizeIsNat
    <3>3. sent[k].size > 1 /\ Len(sent) + 1 < k + sent[k].size /\ k < Len(sent) + 1
      BY <1>3, <3>1, <3>2
    <3>4. sent[k].kind = "upload"
      BY <3>2, <3>3 DEF Unit
    <3> QED BY <3>3, <3>4 DEF Inside
  <2>2. ASSUME NEW v \in DOMAIN sent', sent'[v].kind = "part"
        PROVE  \E k \in DOMAIN sent : Inside(v, k)
    BY <1>1, <1>3, <2>1, <2>2 DEF Parts
  <2>3. ASSUME NEW v \in DOMAIN sent', sent'[v].kind = "part"
        PROVE  \E k \in DOMAIN sent' : Inside(v, k)'
    BY <1>3, <2>2, <2>3 DEF Inside
  <2> QED BY <2>3 DEF Parts
<1> QED
  BY <1>1, <1>5, <1>6, <1>7, <1>8, <1>9 DEF IInv, Ended, InOrder

\* The device closes.
LEMMA CloseInv ==
    ASSUME IInv, Close
    PROVE  IInv'
<1>1. closed' = TRUE
      /\ UNCHANGED <<sent, got, data_, waiting, writing, queue, picture, deleted, asked, bads, overlapped, lost>>
  BY DEF Close
<1>2. OneReadPerAnswer' /\ Ended'
  BY <1>1 DEF IInv, OneReadPerAnswer, Ended, TypeOK, picture
<1>3. Parts' /\ Bounded' /\ Filled(queue)' /\ InOrder'
  BY <1>1 DEF IInv, Parts, Bounded, Filled, InOrder, Latest, Recorded, Gathered, Followed,
     Accounted, Reaching, Cut, Inside, Consecutive, Handled, Unhandled, picture
<1> QED
  BY <1>2, <1>3 DEF IInv

\* Every step keeps the invariant.
LEMMA StepInv == IInv /\ [Next]_vars => IInv'
<1> SUFFICES ASSUME IInv, [Next]_vars PROVE IInv'
  OBVIOUS
<1>1. CASE UNCHANGED vars
  BY <1>1 DEF vars, socket, picture, IInv, OneReadPerAnswer, Ended, TypeOK, Bounded, Filled,
     Parts, InOrder, Latest, Recorded, Gathered, Followed, Accounted, Reaching, Cut, Inside,
     Consecutive, Handled, Unhandled
<1>2. CASE Send \/ Close \/ ReadReady \/ WriteReady
  BY <1>2, SendInv, CloseInv, ReadReadyInv, WriteReadyInv
<1>3. CASE handle_read
  BY <1>3, ReceivePictureInv, HandleQuietInv, HandleAskInv, HandleBadInv, HandleUploadInv
     DEF handle_read
<1>4. CASE handle_write \/ HandleError
  BY <1>4, handle_writeInv, HandleErrorInv
<1> QED
  BY <1>1, <1>2, <1>3, <1>4 DEF Next

LEMMA SpecInv == Spec => []IInv
BY InitInv, StepInv, PTL DEF Spec

-----------------------------------------------------------------------------

\* A live session never loses a read or write, and has one for every answer it
\* sent besides the first (but to refused logins): whatever it is sent, in how
\* many pieces, and however long answers wait.  A deleted one leaves as many
\* handlers behind (session.h, handle_read and handle_write).
THEOREM ReadsGrowWithAnswers == Spec => []OneReadPerAnswer
<1>1. IInv => OneReadPerAnswer
  BY DEF IInv
<1> QED
  BY SpecInv, <1>1, PTL

\* While reads and handlers take turns, what is recorded is in order, and whole
\* unless it begins inside an upload whose first part began no picture
\* (session.h, handle_read: the branch recvCaprure and type 11).
THEOREM ResultsAreWhole == Spec => []ResultWhole
<1>1. IInv => ResultWhole
  <2> SUFFICES ASSUME IInv, ~overlapped, result # <<>>
               PROVE  /\ \A i \in 1 .. Len(result) : result[i] = result[1] + i - 1
                      /\ \/ sent[result[1]].kind = "upload" /\ Len(result) >= sent[result[1]].size
                         \/ /\ sent[result[1]].kind = "part"
                            /\ \E k \in lost : Inside(result[1], k)
    BY DEF ResultWhole
  <2>1. result \in Seq(Units)
    BY DEF IInv, OneReadPerAnswer, TypeOK
  <2> QED
    BY <2>1 DEF IInv, InOrder, Recorded, Consecutive, Cut
<1> QED
  BY SpecInv, <1>1, PTL

\* A session that has been deleted leaves no operation waiting, only handlers
\* that will find it gone.
THEOREM NothingWaitsOnDeleted == Spec => []Ended
<1>1. IInv => Ended
  BY DEF IInv
<1> QED
  BY SpecInv, <1>1, PTL

-----------------------------------------------------------------------------
(* What ClosedIsDeleted rests on besides fairness: a session always has an  *)
(* operation under way whose end it can handle, and once the device has     *)
(* closed, every step either deletes it or leaves less to do (StepsLeft).   *)

\* The completions of one kind in queue q.
Places(q, o) == {k \in DOMAIN q : q[k].op = o}
HowMany(q, o) == Cardinality(Places(q, o))

\* What a completion leads to at most: one of a read to an answer that waits,
\* one of a write to another read.
Weight(o) == IF o = "read" THEN 7 ELSE IF o = "write" THEN 3 ELSE 1
Owed(q) == Len(q) + 6 * HowMany(q, "read") + 2 * HowMany(q, "write")

\* Steps a session has left at most when nothing more is sent; 6 * what is unread.
StepsLeft == 6 * (Len(sent) - got) + 2 * waiting + 4 * writing + Owed(queue)

\* A live session has an operation under way, and its handlers find what they read.
NeverIdle ==
    ~deleted =>
        /\ waiting + writing + Len(queue) >= 1
        /\ queue # <<>> => \/ Head(queue).op \in {"write", "error"}
                          \/ /\ Head(queue).op = "read"
                             /\ Content # <<>> /\ Content[1] \in DOMAIN sent

\* After the device has closed, whatever happens deletes the session or leaves
\* fewer steps to do so.
CloseShortens ==
    [][closed /\ ~deleted => deleted' \/ StepsLeft' \in 0 .. StepsLeft - 1]_vars

LEMMA PlacesCounted ==
    ASSUME NEW q \in Seq(Completion), NEW o
    PROVE  IsFiniteSet(Places(q, o)) /\ HowMany(q, o) \in Nat
<1>1. DOMAIN q = 1 .. Len(q) /\ Len(q) \in Int
  OBVIOUS
<1>2. IsFiniteSet(1 .. Len(q))
  BY <1>1, FS_Interval
<1>3. Places(q, o) \subseteq 1 .. Len(q)
  BY <1>1 DEF Places
<1>4. IsFiniteSet(Places(q, o))
  BY <1>2, <1>3, FS_Subset
<1> QED
  BY <1>4, FS_CardinalityType DEF HowMany

LEMMA AppendCounts ==
    ASSUME NEW q \in Seq(Completion), NEW e \in Completion, NEW o
    PROVE  HowMany(Append(q, e), o) = HowMany(q, o) + (IF e.op = o THEN 1 ELSE 0)
<1> DEFINE r == Append(q, e)  n == Len(q) + 1
<1>1. /\ DOMAIN r = DOMAIN q \cup {n} /\ n \notin DOMAIN q
      /\ r[n] = e /\ \A k \in DOMAIN q : r[k] = q[k]
  OBVIOUS
<1>2. IsFiniteSet(Places(q, o)) /\ HowMany(q, o) \in Nat
  BY PlacesCounted
<1> HIDE DEF r, n
<1>3. CASE e.op = o
  <2>1. Places(r, o) = Places(q, o) \cup {n} /\ n \notin Places(q, o)
    BY <1>1, <1>3 DEF Places
  <2>2. Cardinality(Places(r, o)) = Cardinality(Places(q, o)) + 1
    BY <1>2, <2>1, FS_AddElement
  <2> QED
    BY <1>3, <2>2 DEF HowMany, r
<1>4. CASE e.op # o
  <2>1. Places(r, o) = Places(q, o)
    BY <1>1, <1>4 DEF Places
  <2> QED
    BY <1>2, <1>4, <2>1 DEF HowMany, r
<1> QED
  BY <1>3, <1>4

LEMMA HeadCounts ==
    ASSUME NEW q \in Seq(Completion), q # <<>>, NEW o
    PROVE  HowMany(q, o) = HowMany(Tail(q), o) + (IF Head(q).op = o THEN 1 ELSE 0)
<1> DEFINE t == Tail(q)  S == Places(q, o)  T == Places(t, o)
<1>1. /\ t \in Seq(Completion) /\ Head(q) = q[1] /\ 1 \in DOMAIN q
      /\ \A k \in DOMAIN t : k \in Nat \ {0} /\ k + 1 \in DOMAIN q /\ t[k] = q[k + 1]
      /\ \A k \in DOMAIN q : k \in Nat /\ (k = 1 \/ (k - 1 \in DOMAIN t /\ t[k - 1] = q[k]))
  OBVIOUS
<1>2. /\ IsFiniteSet(S) /\ Cardinality(S) = HowMany(q, o) /\ HowMany(q, o) \in Nat
      /\ IsFiniteSet(T) /\ Cardinality(T) = HowMany(t, o) /\ HowMany(t, o) \in Nat
  <2>1. t \in Seq(Completion)
    BY <1>1
  <2> HIDE DEF t
  <2> QED
    BY <2>1, PlacesCounted DEF HowMany
<1>3. Cardinality(S \ {1}) = Cardinality(T)
  <2> DEFINE f == [k \in T |-> k + 1]
  <2> HIDE DEF t
  <2>1. f \in [T -> S \ {1}]
    BY <1>1 DEF Places
  <2>2. \A j, k \in T : f[j] = f[k] => j = k
    BY <1>1 DEF Places
  <2>3. ASSUME NEW k \in S \ {1} PROVE \E j \in T : f[j] = k
    <3>1. k \in Nat /\ k - 1 \in T
      BY <1>1, <2>3 DEF Places
    <3>2. f[k - 1] = k
      BY <3>1
    <3> QED
      BY <3>1, <3>2
  <2> HIDE DEF f, S, T
  <2>4. f \in Injection(T, S \ {1})
    BY <2>1, <2>2 DEF Injection, IsInjective
  <2>5. f \in Surjection(T, S \ {1})
    BY <2>1, <2>3 DEF Surjection
  <2>6. ExistsBijection(T, S \ {1})
    BY <2>4, <2>5 DEF ExistsBijection, Bijection
  <2> QED
    BY <1>2, <2>6, FS_Bijection
<1>4. 1 \in S <=> Head(q).op = o
  BY <1>1 DEF Places
<1> HIDE DEF S, T
<1>5. Cardinality(S \ {1}) = IF 1 \in S THEN Cardinality(S) - 1 ELSE Cardinality(S)
  BY <1>2, FS_RemoveElement
<1> QED
  BY <1>2, <1>3, <1>4, <1>5 DEF t

\* A completion adds its weight ...
LEMMA AppendOwed ==
    ASSUME NEW q \in Seq(Completion), NEW e \in Completion
    PROVE  Owed(q) \in Nat /\ Owed(Append(q, e)) = Owed(q) + Weight(e.op)
<1>1. /\ HowMany(q, "read") \in Nat /\ HowMany(q, "write") \in Nat /\ Len(q) \in Nat
      /\ Len(Append(q, e)) = Len(q) + 1
  BY PlacesCounted
<1>2. e.op \in {"read", "write", "error"}
  BY Completions
<1> DEFINE r == HowMany(q, "read")    rr == HowMany(Append(q, e), "read")
           w == HowMany(q, "write")   ww == HowMany(Append(q, e), "write")
           n == Len(q)                nn == Len(Append(q, e))
<1>3. /\ rr = r + (IF e.op = "read" THEN 1 ELSE 0)
      /\ ww = w + (IF e.op = "write" THEN 1 ELSE 0)
  BY AppendCounts
<1>4. Owed(q) = n + 6 * r + 2 * w /\ Owed(Append(q, e)) = nn + 6 * rr + 2 * ww
  BY DEF Owed
<1>5. r \in Nat /\ w \in Nat /\ n \in Nat /\ nn = n + 1
  BY <1>1
<1> HIDE DEF r, w, n, rr, ww, nn
<1>6. CASE e.op = "read"
  BY <1>3, <1>4, <1>5, <1>6 DEF Weight
<1>7. CASE e.op = "write"
  BY <1>3, <1>4, <1>5, <1>7 DEF Weight
<1>8. CASE e.op = "error"
  BY <1>3, <1>4, <1>5, <1>8 DEF Weight
<1> QED
  BY <1>2, <1>6, <1>7, <1>8

\* ... and the handler takes it away.
LEMMA HeadOwed ==
    ASSUME NEW q \in Seq(Completion), q # <<>>
    PROVE  /\ Owed(q) \in Nat /\ Owed(Tail(q)) \in Nat
           /\ Owed(q) = Owed(Tail(q)) + Weight(Head(q).op)
<1>1. Tail(q) \in Seq(Completion) /\ Len(Tail(q)) = Len(q) - 1 /\ Head(q) \in Completion
      /\ Len(q) \in Nat
  OBVIOUS
<1>2. /\ HowMany(Tail(q), "read") \in Nat /\ HowMany(Tail(q), "write") \in Nat
      /\ HowMany(q, "read") \in Nat /\ HowMany(q, "write") \in Nat
  BY <1>1, PlacesCounted
<1> DEFINE r == HowMany(Tail(q), "read")    rr == HowMany(q, "read")
           w == HowMany(Tail(q), "write")   ww == HowMany(q, "write")
           n == Len(Tail(q))                nn == Len(q)
           o == Head(q).op
<1>3. o \in {"read", "write", "error"}
  BY <1>1, Completions
<1>4. /\ rr = r + (IF o = "read" THEN 1 ELSE 0)
      /\ ww = w + (IF o = "write" THEN 1 ELSE 0)
  BY HeadCounts
<1>5. Owed(Tail(q)) = n + 6 * r + 2 * w /\ Owed(q) = nn + 6 * rr + 2 * ww
  BY DEF Owed
<1>6. r \in Nat /\ w \in Nat /\ n \in Nat /\ nn = n + 1
  BY <1>1, <1>2
<1> HIDE DEF r, w, n, rr, ww, nn, o
<1>7. Owed(q) \in Nat /\ Owed(Tail(q)) \in Nat /\ Owed(q) = Owed(Tail(q)) + Weight(o)
  <2>1. CASE o = "read"
    BY <1>4, <1>5, <1>6, <2>1 DEF Weight
  <2>2. CASE o = "write"
    BY <1>4, <1>5, <1>6, <2>2 DEF Weight
  <2>3. CASE o = "error"
    BY <1>4, <1>5, <1>6, <2>3 DEF Weight
  <2> QED
    BY <1>3, <2>1, <2>2, <2>3
<1> QED
  BY <1>7 DEF o

\* A read that completes at once leaves six steps less to read, and its handler.
LEMMA FillOwed ==
    ASSUME TypeOK, NEW q \in Seq(Completion), Arrived # <<>>, Fill(q), sent' = sent
    PROVE  /\ Len(sent') - got' \in Nat /\ Owed(queue') \in Nat
           /\ 6 * (Len(sent') - got') + Owed(queue') <= 6 * (Len(sent) - got) + Owed(q) + 1
<1> DEFINE e == [op |-> "read", ids |-> Arrived]
           n == Len(Arrived)  l == Len(sent)  o == Owed(q)  oo == Owed(queue')
<1>1. /\ Arrived \in Seq(Units) /\ got + n <= l /\ n \in Nat /\ n # 0
      /\ l \in Nat /\ got \in Nat
  BY ArrivedNext DEF TypeOK
<1>2. e \in Completion /\ e.op = "read"
  BY <1>1 DEF Completion
<1>3. queue' = Append(q, e) /\ got' = got + n /\ Len(sent') = l
  BY DEF Fill
<1>4. queue' \in Seq(Completion)
  BY <1>2, <1>3
<1>5. o \in Nat /\ oo = o + 7
  BY <1>2, <1>3, AppendOwed DEF Weight
<1>6. PICK g, gg \in Nat : g = got /\ gg = got'
  <2>1. got \in Nat /\ got' \in Nat
    BY <1>1, <1>3
  <2> QED
    BY <2>1, Zenon
<1> HIDE DEF n, l, o, oo
<1>7. gg = g + n /\ g + n <= l
  BY <1>1, <1>3, <1>6
<1>8. l - gg \in Nat /\ 6 * (l - gg) + oo <= 6 * (l - g) + o + 1
  BY <1>1, <1>5, <1>6, <1>7
<1>9. l - got' \in Nat /\ 6 * (l - got') + oo <= 6 * (l - got) + o + 1
  BY <1>6, <1>8, Zenon
<1>10. oo \in Nat
  BY <1>5
<1> QED
  BY <1>3, <1>9, <1>10 DEF l, o, oo

\* To read again takes two more steps at most.
LEMMA AsyncOwed ==
    ASSUME TypeOK, NEW q \in Seq(Completion), AsyncRead(q), sent' = sent
    PROVE  /\ Len(sent') - got' \in Nat /\ waiting' \in Nat /\ Owed(queue') \in Nat
           /\ 6 * (Len(sent') - got') + 2 * waiting' + Owed(queue')
                 <= 6 * (Len(sent) - got) + 2 * waiting + Owed(q) + 2
<1>1. /\ waiting \in Nat /\ Len(sent) - got \in Nat /\ Len(sent') = Len(sent)
      /\ [op |-> "error"] \in Completion
  BY DEF TypeOK, Completion
<1>2. Owed(q) \in Nat /\ Owed(Append(q, [op |-> "error"])) = Owed(q) + 1
  BY <1>1, AppendOwed DEF Weight
<1> DEFINE u == Len(sent) - got  o == Owed(q)
<1>3. CASE Arrived # <<>> /\ Fill(q) /\ UNCHANGED waiting
  <2> DEFINE uu == Len(sent') - got'  oo == Owed(queue')
  <2>1. uu \in Nat /\ oo \in Nat /\ 6 * uu + oo <= 6 * u + o + 1
    BY <1>3, FillOwed
  <2>2. u \in Nat /\ o \in Nat /\ waiting \in Nat /\ waiting' = waiting
    BY <1>1, <1>2, <1>3
  <2> HIDE DEF u, o, uu, oo
  <2>3. 6 * uu + 2 * waiting + oo <= 6 * u + 2 * waiting + o + 2
    BY <2>1, <2>2
  <2> QED
    BY <2>1, <2>2, <2>3 DEF u, o, uu, oo
<1>4. CASE queue' = Append(q, [op |-> "error"]) /\ UNCHANGED <<data_, got, waiting, overlapped>>
  <2>1. Len(sent') - got' = u /\ waiting' = waiting /\ Owed(queue') = o + 1
    BY <1>1, <1>2, <1>4
  <2>2. u \in Nat /\ o \in Nat
    BY <1>1, <1>2
  <2> HIDE DEF u, o
  <2>3. 6 * u + 2 * waiting + (o + 1) <= 6 * u + 2 * waiting + o + 2 /\ o + 1 \in Nat
    BY <1>1, <2>2
  <2> QED
    BY <1>1, <2>1, <2>2, <2>3 DEF u, o
<1>5. CASE waiting' = waiting + 1 /\ queue' = q /\ UNCHANGED <<data_, got, overlapped>>
  <2>1. Len(sent') - got' = u /\ waiting' = waiting + 1 /\ Owed(queue') = o
    BY <1>1, <1>5
  <2>2. u \in Nat /\ o \in Nat
    BY <1>1, <1>2
  <2> HIDE DEF u, o
  <2>3. 6 * u + 2 * (waiting + 1) + o <= 6 * u + 2 * waiting + o + 2 /\ waiting + 1 \in Nat
    BY <1>1, <2>2
  <2> QED
    BY <1>1, <2>1, <2>2, <2>3 DEF u, o
<1> QED
  BY <1>3, <1>4, <1>5 DEF AsyncRead

\* An answer takes four more: it may wait, and then asks for a read.
LEMMA AnswerOwed ==
    ASSUME TypeOK, NEW q \in Seq(Completion), NEW a \in Answers(q)
    PROVE  /\ a.queue \in Seq(Completion) /\ a.writing \in Nat
           /\ 4 * a.writing + Owed(a.queue) <= 4 * writing + Owed(q) + 4
<1>1. a.queue \in Seq(Completion) /\ a.writing \in Nat /\ writing \in Nat
  BY AnswerKeeps DEF TypeOK
<1> DEFINE o == Owed(q)
<1>2. CASE \E e \in WriteEnds : a = [queue |-> Append(q, e), writing |-> writing]
  <2>1. PICK e \in WriteEnds : a = [queue |-> Append(q, e), writing |-> writing]
    BY <1>2
  <2>2. e \in Completion /\ e.op \in {"write", "error"}
    BY DEF WriteEnds, Completion
  <2>3. o \in Nat /\ Owed(a.queue) \in {o + 1, o + 3} /\ a.writing = writing
    BY <2>1, <2>2, AppendOwed DEF Weight
  <2> HIDE DEF o
  <2>4. 4 * a.writing + Owed(a.queue) <= 4 * writing + o + 4
    BY <1>1, <2>3
  <2> QED
    BY <1>1, <2>4 DEF o
<1>3. CASE a = [queue |-> q, writing |-> writing + 1]
  <2>1. PICK e \in {[op |-> "error"]} : e \in Completion
    BY DEF Completion
  <2>2. o \in Nat /\ Owed(a.queue) = o /\ a.writing = writing + 1
    BY <1>3, <2>1, AppendOwed
  <2> HIDE DEF o
  <2>3. 4 * (writing + 1) + o <= 4 * writing + o + 4
    BY <1>1, <2>2
  <2> QED
    BY <1>1, <2>2, <2>3 DEF o
<1> QED
  BY <1>2, <1>3 DEF Answers

\* A handler that leaves queue q and v waiting writes, before it reads again.
LEMMA HandlerShortens ==
    ASSUME TypeOK, NEW q \in Seq(Completion), NEW v \in Nat, sent' = sent, writing' = v,
           Owed(q) \in Nat, Owed(queue) \in Nat,
           4 * v + Owed(q) + 2 < 4 * writing + Owed(queue),
           AsyncRead(q) \/ (queue' = q /\ UNCHANGED <<got, waiting>>)
    PROVE  StepsLeft' \in 0 .. StepsLeft - 1
<1>1. /\ Len(sent') - got' \in Nat /\ waiting' \in Nat /\ Owed(queue') \in Nat
      /\ 6 * (Len(sent') - got') + 2 * waiting' + Owed(queue')
            <= 6 * (Len(sent) - got) + 2 * waiting + Owed(q) + 2
  <2>1. CASE AsyncRead(q)
    BY <2>1, AsyncOwed
  <2>2. CASE queue' = q /\ UNCHANGED <<got, waiting>>
    <3>1. Len(sent) - got \in Nat /\ waiting \in Nat
      BY DEF TypeOK
    <3>2. Len(sent') - got' = Len(sent) - got /\ waiting' = waiting /\ Owed(queue') = Owed(q)
      BY <2>2
    <3> DEFINE u == Len(sent) - got  o == Owed(q)
    <3>3. u \in Nat /\ o \in Nat
      BY <3>1
    <3> HIDE DEF u, o
    <3>4. 6 * u + 2 * waiting + o <= 6 * u + 2 * waiting + o + 2
      BY <3>1, <3>3
    <3> QED
      BY <3>1, <3>2, <3>4 DEF u, o
  <2> QED
    BY <2>1, <2>2
<1>2. Len(sent) - got \in Nat /\ waiting \in Nat /\ writing \in Nat
  BY DEF TypeOK
<1>3. PICK u, w, o \in Nat : u = Len(sent) - got /\ w = waiting /\ o = Owed(queue)
  BY <1>2
<1>4. PICK uu, ww, oo \in Nat : uu = Len(sent') - got' /\ ww = waiting' /\ oo = Owed(queue')
  BY <1>1
<1>5. PICK p, x \in Nat : p = Owed(q) /\ x = writing
  BY <1>2
<1>6. 4 * v + p + 2 < 4 * x + o /\ 6 * uu + 2 * ww + oo <= 6 * u + 2 * w + p + 2
  BY <1>1, <1>3, <1>4, <1>5
<1>7. 6 * uu + 2 * ww + 4 * v + oo \in 0 .. (6 * u + 2 * w + 4 * x + o) - 1
  BY <1>6
<1>8. StepsLeft = 6 * u + 2 * w + 4 * x + o
  BY <1>3, <1>5 DEF StepsLeft
<1>9. StepsLeft' = 6 * uu + 2 * ww + 4 * v + oo
  BY <1>4 DEF StepsLeft
<1> QED
  BY <1>7, <1>8, <1>9

\* A step of the reactor ends an operation, which leaves less than to wait for it.
LEMMA ReactorShortens ==
    ASSUME TypeOK, ReadReady \/ WriteReady
    PROVE  StepsLeft' \in 0 .. StepsLeft - 1
<1>1. PICK u, w, x \in Nat : u = Len(sent) - got /\ w = waiting /\ x = writing
  <2>1. Len(sent) - got \in Nat /\ waiting \in Nat /\ writing \in Nat
    BY DEF TypeOK
  <2> QED
    BY <2>1, Zenon
<1>2. queue \in Seq(Completion) /\ [op |-> "error"] \in Completion /\ [op |-> "write"] \in Completion
  BY DEF TypeOK, Completion
<1>3. /\ Owed(queue) \in Nat
      /\ Owed(Append(queue, [op |-> "error"])) = Owed(queue) + 1
      /\ Owed(Append(queue, [op |-> "write"])) = Owed(queue) + 3
  BY <1>2, AppendOwed DEF Weight
<1>4. PICK o \in Nat : o = Owed(queue)
  BY <1>3, Zenon
<1>5. StepsLeft = 6 * u + 2 * w + 4 * x + o
  BY <1>1, <1>4 DEF StepsLeft
<1>6. CASE ReadReady
  <2>1. /\ w > 0 /\ waiting' = w - 1 /\ writing' = x /\ sent' = sent
    BY <1>1, <1>6 DEF ReadReady
  <2>2. /\ Len(sent') - got' \in Nat /\ Owed(queue') \in Nat
        /\ 6 * (Len(sent') - got') + Owed(queue') <= 6 * u + o + 1
    <3>1. CASE Arrived # <<>> /\ Fill(queue)
      <4>1. /\ Len(sent') - got' \in Nat /\ Owed(queue') \in Nat
            /\ 6 * (Len(sent') - got') + Owed(queue') <= 6 * (Len(sent) - got) + Owed(queue) + 1
        BY <1>2, <2>1, <3>1, FillOwed
      <4> QED
        BY <1>1, <1>4, <4>1
    <3>2. CASE queue' = Append(queue, [op |-> "error"]) /\ UNCHANGED <<data_, got, overlapped>>
      <4>1. Len(sent') - got' = u /\ Owed(queue') = o + 1
        BY <1>1, <1>3, <1>4, <2>1, <3>2
      <4>2. u \in Nat /\ o + 1 \in Nat /\ 6 * u + (o + 1) <= 6 * u + o + 1
        OBVIOUS
      <4> QED
        BY <4>1, <4>2
    <3> QED
      BY <1>6, <3>1, <3>2 DEF ReadReady
  <2>3. PICK uu, oo \in Nat : uu = Len(sent') - got' /\ oo = Owed(queue')
    BY <2>2, Zenon
  <2>4. 6 * uu + oo <= 6 * u + o + 1
    BY <2>2, <2>3
  <2>5. StepsLeft' = 6 * uu + 2 * (w - 1) + 4 * x + oo
    BY <2>1, <2>3 DEF StepsLeft
  <2>6. 6 * uu + 2 * (w - 1) + 4 * x + oo \in 0 .. (6 * u + 2 * w + 4 * x + o) - 1
    BY <2>1, <2>4
  <2> QED
    BY <1>5, <2>5, <2>6
<1>7. CASE WriteReady
  <2>1. /\ x > 0 /\ waiting' = w /\ writing' = x - 1 /\ Len(sent') - got' = u
        /\ \E e \in WriteEnds : queue' = Append(queue, e)
    BY <1>1, <1>7 DEF WriteReady, socket
  <2>2. Owed(queue') \in {o + 1, o + 3}
    <3>1. PICK e \in WriteEnds : queue' = Append(queue, e)
      BY <2>1
    <3>2. e \in {[op |-> "error"], [op |-> "write"]}
      BY DEF WriteEnds
    <3> QED
      BY <1>3, <1>4, <3>1, <3>2
  <2>3. PICK oo \in Nat : oo = Owed(queue') /\ oo <= o + 3
    BY <2>2
  <2>4. StepsLeft' = 6 * u + 2 * w + 4 * (x - 1) + oo
    BY <2>1, <2>3 DEF StepsLeft
  <2>5. 6 * u + 2 * w + 4 * (x - 1) + oo \in 0 .. (6 * u + 2 * w + 4 * x + o) - 1
    BY <2>1, <2>3
  <2> QED
    BY <1>5, <2>4, <2>5
<1> QED
  BY <1>6, <1>7

\* So does a handler that does not delete the session.
LEMMA HandlersShorten ==
    ASSUME TypeOK, handle_read \/ handle_write
    PROVE  StepsLeft' \in 0 .. StepsLeft - 1
<1>1. queue \in Seq(Completion) /\ queue # <<>> /\ sent' = sent /\ writing \in Nat
  BY DEF TypeOK, handle_read, handle_write, ReceivePicture, HandleQuiet, HandleAsk, HandleBad,
         HandleUpload, Message, Reading
<1>2. /\ Tail(queue) \in Seq(Completion) /\ Owed(queue) \in Nat /\ Owed(Tail(queue)) \in Nat
      /\ Owed(queue) = Owed(Tail(queue)) + Weight(Head(queue).op)
  BY <1>1, HeadOwed
<1>3. PICK o, p, x \in Nat : o = Owed(queue) /\ p = Owed(Tail(queue)) /\ x = writing
  BY <1>1, <1>2, Zenon
<1>4. CASE Head(queue).op \in {"read", "write"} /\ AsyncRead(Tail(queue)) /\ writing' = writing
  <2>1. o >= p + 3
    BY <1>2, <1>3, <1>4 DEF Weight
  <2>2. 4 * x + p + 2 < 4 * x + o
    BY <2>1
  <2>3. 4 * writing + Owed(Tail(queue)) + 2 < 4 * writing + Owed(queue)
    BY <1>3, <2>2, Zenon
  <2> QED
    BY <1>1, <1>2, <1>4, <2>3, HandlerShortens
<1>5. CASE /\ Head(queue).op = "read"
           /\ \E a \in Answers(Tail(queue)) :
                 /\ Answer(a)
                 /\ AsyncRead(a.queue) \/ (queue' = a.queue /\ UNCHANGED <<got, waiting>>)
  <2>1. PICK a \in Answers(Tail(queue)) :
          /\ Answer(a)
          /\ AsyncRead(a.queue) \/ (queue' = a.queue /\ UNCHANGED <<got, waiting>>)
    BY <1>5
  <2>2. /\ a.queue \in Seq(Completion) /\ a.writing \in Nat /\ writing' = a.writing
        /\ 4 * a.writing + Owed(a.queue) <= 4 * writing + Owed(Tail(queue)) + 4
    BY <1>2, <2>1, AnswerOwed DEF Answer
  <2>3. Owed(a.queue) \in Nat
    <3>1. [op |-> "error"] \in Completion
      BY DEF Completion
    <3> QED
      BY <2>2, <3>1, AppendOwed
  <2>4. PICK v, r \in Nat : v = a.writing /\ r = Owed(a.queue)
    BY <2>2, <2>3, Zenon
  <2>5. 4 * v + r <= 4 * x + p + 4 /\ o = p + 7
    BY <1>2, <1>3, <1>5, <2>2, <2>4 DEF Weight
  <2>6. 4 * v + r + 2 < 4 * x + o
    BY <2>5
  <2>7. 4 * v + Owed(a.queue) + 2 < 4 * writing + Owed(queue)
    BY <1>3, <2>4, <2>6, Zenon
  <2>8. writing' = v
    BY <2>2, <2>4
  <2> QED
    BY <1>1, <1>2, <2>1, <2>2, <2>3, <2>7, <2>8, HandlerShortens
<1>6. CASE ReceivePicture \/ HandleQuiet \/ handle_write
  BY <1>4, <1>6 DEF ReceivePicture, HandleQuiet, handle_write, Message, Reading
<1>7. CASE HandleAsk \/ HandleUpload
  BY <1>5, <1>7 DEF HandleAsk, HandleUpload, Message, Reading
<1>8. CASE HandleBad
  BY <1>5, <1>8 DEF HandleBad, Message, Reading
<1> QED
  BY <1>6, <1>7, <1>8 DEF handle_read

\* Refused logins are among the answers.
LEMMA BadsAnswered == Spec => [](bads <= asked)
<1>1. Init => bads <= asked
  BY DEF Init
<1>2. IInv /\ bads <= asked /\ [Next]_vars => (bads <= asked)'
  <2> SUFFICES ASSUME IInv, bads <= asked, [Next]_vars
               PROVE  bads' <= asked'
    OBVIOUS
  <2>1. asked \in Nat /\ bads \in Nat
    BY DEF IInv, OneReadPerAnswer, TypeOK
  <2>2. /\ asked' = asked \/ asked' = asked + 1
        /\ bads' = bads \/ (bads' = bads + 1 /\ asked' = asked + 1)
    <3>1. CASE Send \/ Close \/ ReadReady \/ WriteReady \/ handle_write \/ HandleError
      BY <3>1 DEF Send, Close, ReadReady, WriteReady, handle_write, HandleError
    <3>2. CASE ReceivePicture \/ HandleQuiet
      BY <3>2 DEF ReceivePicture, HandleQuiet
    <3>3. CASE HandleAsk \/ HandleBad \/ HandleUpload
      BY <3>3 DEF HandleAsk, HandleBad, HandleUpload, Answer
    <3>4. CASE UNCHANGED vars
      BY <3>4 DEF vars
    <3> QED
      BY <3>1, <3>2, <3>3, <3>4 DEF Next, handle_read
  <2> QED
    BY <2>1, <2>2
<1> QED
  BY SpecInv, <1>1, <1>2, PTL DEF Spec

\* A session is never deaf, and one whose device has closed comes to its end in
\* as many steps as are left, whatever was unread, unanswered or half received
\* (session.h, handle_read and handle_write).
THEOREM ClosedSessionsWindUp == Spec => []NeverIdle /\ CloseShortens
<1>1. IInv /\ bads <= asked => NeverIdle
  <2> SUFFICES ASSUME IInv, bads <= asked, ~deleted
               PROVE  /\ waiting + writing + Len(queue) >= 1
                      /\ queue # <<>> =>
                           \/ Head(queue).op \in {"write", "error"}
                           \/ /\ Head(queue).op = "read"
                              /\ Content # <<>> /\ Content[1] \in DOMAIN sent
    BY DEF NeverIdle
  <2>1. waiting + writing + Len(queue) >= 1
    <3>1. /\ asked \in Nat /\ bads \in Nat
          /\ waiting + writing + Len(queue) = 1 + asked - bads
      BY DEF IInv, OneReadPerAnswer, TypeOK
    <3>2. 1 + asked - bads >= 1
      BY <3>1
    <3> QED
      BY <3>1, <3>2
  <2>2. ASSUME queue # <<>>
        PROVE  Head(queue).op \in {"read", "write", "error"}
    BY <2>2, TakeHead, Completions DEF IInv, OneReadPerAnswer
  <2>3. ASSUME queue # <<>>, Head(queue).op = "read"
        PROVE  Content # <<>> /\ Content[1] \in DOMAIN sent
    BY <2>3, ContentRead DEF IInv, OneReadPerAnswer
  <2> QED
    BY <2>1, <2>2, <2>3
<1>2. IInv /\ [Next]_vars
        => [closed /\ ~deleted => deleted' \/ StepsLeft' \in 0 .. StepsLeft - 1]_vars
  <2> SUFFICES ASSUME IInv, Next, closed, ~deleted
               PROVE  deleted' \/ StepsLeft' \in 0 .. StepsLeft - 1
    OBVIOUS
  <2>1. ~Send /\ ~Close /\ (HandleError => deleted')
    BY DEF Send, Close, HandleError
  <2>2. TypeOK
    BY DEF IInv, OneReadPerAnswer
  <2> QED
    BY <2>1, <2>2, ReactorShortens, HandlersShorten DEF Next
<1> QED
  BY SpecInv, BadsAnswered, <1>1, <1>2, PTL DEF Spec, CloseShortens

-----------------------------------------------------------------------------
(* The server that makes the sessions (Accept), for any number of clients   *)
(* and io_services.  No client is in the backlog twice or has a session     *)
(* already (Queued), and as long as no accept has failed every io_service   *)
(* before the one of the next session has had one turn more than the        *)
(* others (Turn).                                                           *)

CONSTANTS Clients, Services, MaxErrors, MaxTalks, NULL

VARIABLES type, backlog, accept, next_io_service_, service, running, ready, talks, errors

Server == INSTANCE Accept

Sessions(s) == {c \in Clients : service[c] = s}

\* What an io_service has to serve: its sessions, and the acceptor.
Size(s) == Server!Load(s) + (IF s = 0 THEN 1 ELSE 0)

Queued ==
    /\ \A m, n \in DOMAIN backlog : backlog[m] = backlog[n] => m = n
    /\ \A m \in DOMAIN backlog :
          service[backlog[m]] = Server!NoService /\ backlog[m] # accept.client
    /\ accept.client # NULL => service[accept.client] = Server!NoService
    /\ accept.result = "pending" => accept.client = NULL
    /\ accept.result = "ok" => accept.client # NULL

Turn ==
    /\ \A s \in Server!Pool : IsFiniteSet(Sessions(s))
    /\ errors = 0 =>
          /\ accept.result \in {"pending", "ok"} /\ accept.service \in Server!Pool
          /\ next_io_service_ = Server!After(accept.service)
          /\ \E q \in Nat : \A s \in Server!Pool :
                Size(s) = q + (IF s < accept.service THEN 1 ELSE 0)

AcceptInv == Server!TypeOK /\ Queued /\ Turn

LEMMA ServerCardinality == ASSUME NEW S PROVE Server!Cardinality(S) = Cardinality(S)
BY Zenon DEF Server!Cardinality, Cardinality

LEMMA LoadIs == \A s : Server!Load(s) = Cardinality(Sessions(s))
BY ServerCardinality DEF Server!Load, Sessions

LEMMA NextInTurn ==
    ASSUME Server!AcceptAssumption, NEW s \in Server!Pool
    PROVE  Server!After(s) \in Server!Pool
BY DEF Server!AcceptAssumption, Server!Pool, Server!After

LEMMA ServiceSizeIsNat ==
    ASSUME AcceptInv, NEW s \in Server!Pool
    PROVE  Size(s) \in Nat
<1>1. Cardinality(Sessions(s)) \in Nat
  BY FS_CardinalityType DEF AcceptInv, Turn
<1> QED BY <1>1, LoadIs DEF Size

\* Steps that leave the sessions as they are, and the accept its turn.
LEMMA TurnStays ==
    ASSUME AcceptInv, errors' \in Nat, errors' = 0 => errors = 0,
           errors' = 0 => accept'.service = accept.service /\ accept'.result \in {"pending", "ok"},
           UNCHANGED <<next_io_service_, service>>
    PROVE  Turn'
<1>1. \A s : Sessions(s)' = Sessions(s)
  BY DEF Sessions
<1>2. \A s \in Server!Pool : Size(s)' = Size(s)
  BY <1>1, LoadIs DEF Size, Server!Load
<1>3. \A s \in Server!Pool : IsFiniteSet(Sessions(s)')
  BY <1>1 DEF AcceptInv, Turn
<1>4. ASSUME errors' = 0
      PROVE  /\ accept'.result \in {"pending", "ok"} /\ accept'.service \in Server!Pool
             /\ next_io_service_' = Server!After(accept'.service)
             /\ \E q \in Nat : \A s \in Server!Pool :
                   Size(s)' = q + (IF s < accept'.service THEN 1 ELSE 0)
  BY <1>2, <1>4 DEF AcceptInv, Turn
<1> QED BY <1>3, <1>4 DEF Turn, Server!Pool, Server!After

LEMMA AcceptIs ==
    ASSUME AcceptInv
    PROVE  \E r \in {"pending", "ok", "error", "none"}, s \in Server!Pool \cup {Server!NoService},
              c \in Clients \cup {NULL} : accept = [result |-> r, service |-> s, client |-> c]
BY DEF AcceptInv, Server!TypeOK

LEMMA ConnectKeeps ==
    ASSUME Server!AcceptAssumption, AcceptInv, NEW c \in Clients, Server!Connect(c)
    PROVE  AcceptInv'
<1>1. /\ backlog' = Append(backlog, c) /\ backlog \in Seq(Clients) /\ errors \in Nat
      /\ UNCHANGED <<type, accept, next_io_service_, service, running, ready, talks, errors>>
      /\ service[c] = Server!NoService /\ accept.client # c
      /\ \A m \in DOMAIN backlog : backlog[m] # c
  BY DEF AcceptInv, Server!TypeOK, Server!Connect, Server!Connected, Server!Waiting, Server!AcceptAssumption
<1>2. /\ backlog' \in Seq(Clients) /\ DOMAIN backlog = 1 .. Len(backlog) /\ Len(backlog) \in Nat
      /\ DOMAIN backlog' = 1 .. Len(backlog) + 1
      /\ \A m \in DOMAIN backlog : backlog'[m] = backlog[m]
      /\ backlog'[Len(backlog) + 1] = c
  BY <1>1
<1>3. \A m \in DOMAIN backlog' : m \in DOMAIN backlog \/ m = Len(backlog) + 1
  BY <1>2
<1>4. Queued'
  BY <1>1, <1>2, <1>3 DEF AcceptInv, Queued, Server!NoService
<1>5. Turn'
  BY <1>1, TurnStays DEF AcceptInv, Turn
<1>6. Server!TypeOK'
  BY <1>1, <1>2 DEF AcceptInv, Server!TypeOK, Server!Pool, Server!NoService
<1> QED BY <1>4, <1>5, <1>6 DEF AcceptInv

LEMMA AcceptedKeeps ==
    ASSUME Server!AcceptAssumption, AcceptInv, Server!Accepted
    PROVE  AcceptInv'
<1>1. /\ accept.result = "pending" /\ backlog # <<>> /\ backlog' = Tail(backlog)
      /\ accept' = [accept EXCEPT !.result = "ok", !.client = Head(backlog)]
      /\ backlog \in Seq(Clients) /\ errors \in Nat /\ NULL \notin Clients
      /\ UNCHANGED <<type, next_io_service_, service, running, ready, talks, errors>>
  BY DEF AcceptInv, Server!TypeOK, Server!Accepted, Server!AcceptAssumption
<1>2. PICK s \in Server!Pool \cup {Server!NoService}, c \in Clients \cup {NULL} :
         accept = [result |-> "pending", service |-> s, client |-> c]
  BY <1>1, AcceptIs
<1> DEFINE h == backlog[1]
<1>3. /\ backlog' \in Seq(Clients) /\ DOMAIN backlog = 1 .. Len(backlog) /\ Len(backlog) \in Nat \ {0}
      /\ DOMAIN backlog' = 1 .. Len(backlog) - 1
      /\ \A m \in DOMAIN backlog' : m + 1 \in DOMAIN backlog /\ backlog'[m] = backlog[m + 1]
      /\ h \in Clients /\ Head(backlog) = h /\ 1 \in DOMAIN backlog
  BY <1>1
<1>4. accept' = [result |-> "ok", service |-> s, client |-> h]
  BY <1>1, <1>2, <1>3
<1>5. Server!TypeOK'
  BY <1>1, <1>3, <1>4 DEF AcceptInv, Server!TypeOK, Server!Pool, Server!NoService
<1>6. Queued'
  <2>1. \A m \in DOMAIN backlog' : m + 1 # 1
    BY <1>3
  <2>2. \A m, n \in DOMAIN backlog' : m + 1 = n + 1 => m = n
    BY <1>3
  <2>3. \A m, n \in DOMAIN backlog' : backlog'[m] = backlog'[n] => m = n
    BY <1>3, <2>2 DEF AcceptInv, Queued
  <2>4. \A m \in DOMAIN backlog' :
          service'[backlog'[m]] = Server!NoService /\ backlog'[m] # accept'.client
    BY <1>1, <1>3, <1>4, <2>1 DEF AcceptInv, Queued
  <2>5. service'[h] = Server!NoService /\ h # NULL
    BY <1>1, <1>3 DEF AcceptInv, Queued
  <2> QED BY <1>4, <2>3, <2>4, <2>5 DEF Queued, Server!NoService
<1>7. Turn'
  BY <1>1, <1>2, <1>4, TurnStays
<1> QED BY <1>5, <1>6, <1>7 DEF AcceptInv

LEMMA AcceptErrorKeeps ==
    ASSUME Server!AcceptAssumption, AcceptInv, Server!AcceptError
    PROVE  AcceptInv'
<1>1. /\ accept.result = "pending" /\ accept' = [accept EXCEPT !.result = "error"]
      /\ errors' = errors + 1 /\ errors \in 0 .. MaxErrors /\ errors < MaxErrors /\ MaxErrors \in Nat
      /\ UNCHANGED <<type, backlog, next_io_service_, service, running, ready, talks>>
  BY DEF AcceptInv, Server!TypeOK, Server!AcceptError, Server!AcceptAssumption
<1>2. PICK s \in Server!Pool \cup {Server!NoService}, c \in Clients \cup {NULL} :
         accept = [result |-> "pending", service |-> s, client |-> c]
  BY <1>1, AcceptIs
<1>3. accept' = [result |-> "error", service |-> s, client |-> c]
  BY <1>1, <1>2
<1>4. errors' \in 0 .. MaxErrors /\ errors' # 0
  BY <1>1
<1>5. Server!TypeOK'
  BY <1>1, <1>3, <1>4 DEF AcceptInv, Server!TypeOK, Server!Pool, Server!NoService
<1>6. Queued'
  BY <1>1, <1>2, <1>3 DEF AcceptInv, Queued, Server!NoService
<1>7. Turn'
  BY <1>1, <1>4, TurnStays
<1> QED BY <1>5, <1>6, <1>7 DEF AcceptInv

\* A session is started on the io_service whose turn it is.
LEMMA StartKeepsTurn ==
    ASSUME Server!AcceptAssumption, AcceptInv, accept.result = "ok", Server!start, Server!AcceptAgain,
           UNCHANGED errors
    PROVE  Turn' /\ service' \in [Clients -> Server!Pool \cup {Server!NoService}]
<1> DEFINE a == accept.service  c == accept.client
<1>1. /\ c \in Clients /\ service[c] = Server!NoService /\ a \in Server!Pool \cup {Server!NoService}
      /\ service \in [Clients -> Server!Pool \cup {Server!NoService}]
      /\ service' = [service EXCEPT ![c] = a]
      /\ accept' = [result |-> "pending", service |-> next_io_service_, client |-> NULL]
      /\ next_io_service_' = Server!After(next_io_service_) /\ next_io_service_ \in Server!Pool
  BY DEF AcceptInv, Queued, Server!TypeOK, Server!start, Server!AcceptAgain, Server!AsyncAccept
<1>2. \A s \in Server!Pool : s # Server!NoService
  BY DEF Server!Pool, Server!NoService
<1> HIDE DEF a, c
<1>3. \A s \in Server!Pool : Sessions(s)' = IF s = a THEN Sessions(s) \cup {c} ELSE Sessions(s)
  BY <1>1, <1>2 DEF Sessions
<1>4. \A s \in Server!Pool : IsFiniteSet(Sessions(s)) /\ IsFiniteSet(Sessions(s)')
  BY <1>3, FS_AddElement DEF AcceptInv, Turn
<1>5. \A s \in Server!Pool : c \notin Sessions(s)
  BY <1>1, <1>2 DEF Sessions
<1>6. \A s \in Server!Pool : Server!Load(s)' = Cardinality(Sessions(s)')
  BY ServerCardinality DEF Server!Load, Sessions
<1>7. \A s \in Server!Pool : Size(s)' = Size(s) + (IF s = a THEN 1 ELSE 0)
  <2> TAKE s \in Server!Pool
  <2>1. Cardinality(Sessions(s)) \in Nat
    BY <1>4, FS_CardinalityType
  <2>2. Cardinality(Sessions(s) \cup {c}) = Cardinality(Sessions(s)) + 1
    BY <1>4, <1>5, FS_AddElement
  <2>3. Server!Load(s)' = Server!Load(s) + (IF s = a THEN 1 ELSE 0)
    <3>1. Server!Load(s)' = Cardinality(Sessions(s)') /\ Server!Load(s) = Cardinality(Sessions(s))
      BY <1>6, LoadIs
    <3>2. CASE s = a
      <4>1. Sessions(s)' = Sessions(s) \cup {c}
        BY <1>3, <3>2
      <4> QED BY <2>2, <3>1, <3>2, <4>1
    <3>3. CASE s # a
      <4>1. Sessions(s)' = Sessions(s)
        BY <1>3, <3>3
      <4> QED BY <2>1, <3>1, <3>3, <4>1
    <3> QED BY <3>2, <3>3
  <2>4. Server!Load(s) \in Nat
    BY <2>1, LoadIs
  <2> QED BY <2>3, <2>4 DEF Size
<1>8. ASSUME errors = 0
      PROVE  /\ accept'.result \in {"pending", "ok"} /\ accept'.service \in Server!Pool
             /\ next_io_service_' = Server!After(accept'.service)
             /\ \E q \in Nat : \A s \in Server!Pool :
                   Size(s)' = q + (IF s < accept'.service THEN 1 ELSE 0)
  <2>1. a \in Server!Pool /\ next_io_service_ = Server!After(a)
    BY <1>8 DEF AcceptInv, Turn, a
  <2>2. PICK q \in Nat : \A s \in Server!Pool : Size(s) = q + (IF s < a THEN 1 ELSE 0)
    BY <1>8 DEF AcceptInv, Turn, a
  <2>3. \E r \in Nat : \A s \in Server!Pool : Size(s)' = r + (IF s < Server!After(a) THEN 1 ELSE 0)
    <3>1. CASE a + 1 = Services
      <4>1. \A s \in Server!Pool : Size(s)' = (q + 1) + (IF s < Server!After(a) THEN 1 ELSE 0)
        BY <1>7, <2>1, <2>2, <3>1 DEF Server!Pool, Server!After, Server!AcceptAssumption
      <4> QED BY <4>1
    <3>2. CASE a + 1 # Services
      <4>1. \A s \in Server!Pool : Size(s)' = q + (IF s < Server!After(a) THEN 1 ELSE 0)
        BY <1>7, <2>1, <2>2, <3>2 DEF Server!Pool, Server!After, Server!AcceptAssumption
      <4> QED BY <4>1
    <3> QED BY <3>1, <3>2
  <2> QED BY <1>1, <2>1, <2>3
<1> QED BY <1>1, <1>4, <1>8 DEF Turn, Server!Pool, Server!After

LEMMA InitAcceptInv == ASSUME Server!AcceptAssumption, Server!Init PROVE AcceptInv
<1>1. Services \in Nat \ {0} /\ MaxErrors \in Nat /\ MaxTalks \in Nat /\ 0 \in Server!Pool
  BY DEF Server!AcceptAssumption, Server!Pool
<1>2. /\ accept = [result |-> "pending", service |-> Server!After(0), client |-> NULL]
      /\ next_io_service_ = Server!After(Server!After(0)) /\ backlog = <<>> /\ errors = 0
      /\ service = [c \in Clients |-> Server!NoService]
  BY DEF Server!Init, Server!AsyncAccept
<1>3. Server!After(0) \in Server!Pool /\ Server!After(Server!After(0)) \in Server!Pool
  BY <1>1, NextInTurn
<1>4. Server!TypeOK
  BY <1>1, <1>2, <1>3 DEF Server!Init, Server!TypeOK
<1>5. Queued
  BY <1>2 DEF Queued
<1>6. \A s \in Server!Pool : Sessions(s) = {}
  BY <1>2 DEF Sessions, Server!Pool, Server!NoService
<1>7. \A s \in Server!Pool : Size(s) = IF s = 0 THEN 1 ELSE 0
  BY <1>6, LoadIs, FS_EmptySet DEF Size
<1>8. \E q \in Nat : \A s \in Server!Pool : Size(s) = q + (IF s < accept.service THEN 1 ELSE 0)
  <2>1. CASE Services = 1
    <3>1. \A s \in Server!Pool : Size(s) = 1 + (IF s < accept.service THEN 1 ELSE 0)
      BY <1>2, <1>7, <2>1 DEF Server!Pool, Server!After
    <3> QED BY <3>1
  <2>2. CASE Services # 1
    <3>1. \A s \in Server!Pool : Size(s) = 0 + (IF s < accept.service THEN 1 ELSE 0)
      BY <1>1, <1>2, <1>7, <2>2 DEF Server!Pool, Server!After
    <3> QED BY <3>1
  <2> QED BY <2>1, <2>2
<1>9. Turn
  BY <1>2, <1>3, <1>6, <1>8, FS_EmptySet DEF Turn
<1> QED BY <1>4, <1>5, <1>9 DEF AcceptInv

LEMMA AcceptHandlerKeeps ==
    ASSUME Server!AcceptAssumption, AcceptInv, Server!AcceptHandler
    PROVE  AcceptInv'
<1>1. /\ UNCHANGED <<type, backlog, running, ready, talks, errors>>
      /\ NULL \notin Clients
      /\ next_io_service_ \in Server!Pool /\ errors \in Nat
      /\ service \in [Clients -> Server!Pool \cup {Server!NoService}]
  BY DEF Server!AcceptHandler, AcceptInv, Server!TypeOK, Server!AcceptAssumption
<1>2. Server!After(next_io_service_) \in Server!Pool
  BY <1>1, NextInTurn
<1>3. CASE accept.result = "ok" /\ Server!start /\ Server!AcceptAgain
  <2>1. Turn' /\ service' \in [Clients -> Server!Pool \cup {Server!NoService}]
    BY <1>1, <1>3, StartKeepsTurn
  <2>2. /\ accept' = [result |-> "pending", service |-> next_io_service_, client |-> NULL]
        /\ next_io_service_' = Server!After(next_io_service_)
        /\ service' = [service EXCEPT ![accept.client] = accept.service]
    BY <1>3 DEF Server!start, Server!AcceptAgain, Server!AsyncAccept
  <2>3. backlog \in Seq(Clients) /\ \A m \in DOMAIN backlog : backlog[m] \in Clients /\ backlog[m] # NULL
    BY <1>1 DEF AcceptInv, Server!TypeOK
  <2>4. Queued'
    BY <1>1, <2>2, <2>3 DEF AcceptInv, Queued, Server!NoService
  <2>5. Server!TypeOK'
    BY <1>1, <1>2, <2>1, <2>2 DEF AcceptInv, Server!TypeOK, Server!Pool, Server!NoService
  <2> QED BY <2>1, <2>4, <2>5 DEF AcceptInv
<1>4. CASE accept.result = "error" /\ UNCHANGED service /\ errors # 0
           /\ \/ accept' = Server!NoAccept /\ UNCHANGED next_io_service_
              \/ Server!AcceptAgain
  <2>1. /\ accept' \in [result : {"pending", "none"}, service : Server!Pool \cup {Server!NoService}, client : {NULL}]
        /\ next_io_service_' \in Server!Pool
    BY <1>1, <1>2, <1>4 DEF Server!NoAccept, Server!AcceptAgain, Server!AsyncAccept
  <2>2. accept'.client = NULL /\ accept'.result # "ok"
    BY <2>1
  <2>3. backlog \in Seq(Clients) /\ \A m \in DOMAIN backlog : backlog[m] \in Clients /\ backlog[m] # NULL
    BY <1>1 DEF AcceptInv, Server!TypeOK
  <2>4. Queued'
    BY <1>1, <1>4, <2>2, <2>3 DEF AcceptInv, Queued, Server!NoService
  <2>5. Server!TypeOK'
    BY <1>1, <1>4, <2>1 DEF AcceptInv, Server!TypeOK, Server!Pool, Server!NoService
  <2>6. \A s : Sessions(s)' = Sessions(s)
    BY <1>4 DEF Sessions
  <2>7. Turn'
    BY <1>1, <1>4, <2>6 DEF AcceptInv, Turn, Server!Pool
  <2> QED BY <2>4, <2>5, <2>7 DEF AcceptInv
<1>5. accept.result = "error" => errors # 0
  BY DEF AcceptInv, Turn
<1> QED
  BY <1>3, <1>4, <1>5 DEF Server!AcceptHandler, Server!handle_accept, Server!handle_accept_cfg

\* What sessions and their io_services do is no matter of the turn.
LEMMA ServingKeeps ==
    ASSUME Server!AcceptAssumption, AcceptInv,
           \/ \E c \in Clients : Server!Talk(c) \/ Server!Begin(c)
           \/ \E s \in Server!Pool : Server!End(s)
    PROVE  AcceptInv'
<1>1. /\ UNCHANGED <<type, backlog, accept, next_io_service_, service, errors>> /\ errors \in Nat
      /\ running' \in [Server!Pool -> Clients \cup {NULL}]
      /\ ready' \in SUBSET Clients
  BY DEF Server!Talk, Server!Begin, Server!End, AcceptInv, Server!TypeOK
<1>2. talks' \in [Clients -> 0 .. MaxTalks]
  <2>1. talks \in [Clients -> 0 .. MaxTalks] /\ MaxTalks \in Nat
    BY DEF AcceptInv, Server!TypeOK, Server!AcceptAssumption
  <2>2. CASE \E c \in Clients : Server!Talk(c)
    BY <2>1, <2>2 DEF Server!Talk
  <2> QED BY <2>1, <2>2 DEF Server!Begin, Server!End
<1>3. Turn'
  BY <1>1, TurnStays DEF AcceptInv, Turn
<1>4. Queued'
  BY <1>1 DEF AcceptInv, Queued, Server!NoService
<1>5. Server!TypeOK'
  BY <1>1, <1>2 DEF AcceptInv, Server!TypeOK, Server!Pool, Server!NoService
<1> QED BY <1>3, <1>4, <1>5 DEF AcceptInv

LEMMA StepAcceptInv ==
    ASSUME Server!AcceptAssumption, AcceptInv, [Server!Next]_Server!vars
    PROVE  AcceptInv'
<1>1. CASE UNCHANGED Server!vars
  <2>1. /\ UNCHANGED <<type, backlog, accept, next_io_service_, service, running, ready, talks, errors>>
        /\ errors \in Nat
    BY <1>1 DEF Server!vars, AcceptInv, Server!TypeOK
  <2>2. Turn'
    BY <2>1, TurnStays DEF AcceptInv, Turn
  <2>3. Queued' /\ Server!TypeOK'
    BY <2>1 DEF AcceptInv, Queued, Server!TypeOK, Server!NoService, Server!Pool
  <2> QED BY <2>2, <2>3 DEF AcceptInv
<1> QED
  BY <1>1, ConnectKeeps, AcceptedKeeps, AcceptErrorKeeps, AcceptHandlerKeeps, ServingKeeps DEF Server!Next

\* As long as no accept has failed, sessions are spread evenly over any number
\* of io_services, however accepts, errors and slow handlers interleave.
THEOREM SessionsAreSpread ==
    ASSUME Server!AcceptAssumption
    PROVE  Server!Spec => []Server!SpreadUnlessError
<1>1. Server!Init => AcceptInv
  BY InitAcceptInv
<1>2. AcceptInv /\ [Server!Next]_Server!vars => AcceptInv'
  BY StepAcceptInv
<1>3. ASSUME AcceptInv PROVE Server!SpreadUnlessError
  <2>1. ASSUME errors = 0, NEW s \in Server!Pool, NEW t \in Server!Pool
        PROVE  Size(s) <= Size(t) + 1
    BY <1>3, <2>1 DEF AcceptInv, Turn
  <2> QED BY <1>3, <2>1 DEF Server!SpreadUnlessError, Size, AcceptInv
<1> QED BY <1>1, <1>2, <1>3, PTL DEF Server!Spec
=============================================================================
