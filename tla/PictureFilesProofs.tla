------------------------- MODULE PictureFilesProofs -------------------------
(***************************************************************************)
(* Proofs about PictureFiles, for any number of sessions, cars and         *)
(* pictures.  The strengthening says what the session that writes an       *)
(* upload has of its result (Progress), that results being filled in are   *)
(* as good as recorded ones (AllHeld, Described), and why a file is still  *)
(* empty when it is written to: as long as nothing was repeated its name   *)
(* tells the upload (OnceEach, FilesKnown), which one session writes, and  *)
(* which has not come to that index yet (NotYet).                          *)
(***************************************************************************)
EXTENDS PictureFiles, SequenceTheorems, TLAPS

\* The result that session s is filling in keeps pace with the upload.
Progress(s) ==
    LET u == uploads[parsing[s]]
        r == res[s]
    IN parsing[s] # None =>
          /\ parsing[s] \in 1 .. Len(uploads)
          /\ i[s] \in 0 .. Len(u.pics)
          /\ r.of = parsing[s]
          /\ Len(r.picName) = i[s]
          /\ i[s] > 0 => r.capTime = u.pics[1]
          /\ r.tail = PlateLeft(u)
          /\ aligned[s] <=> r.failed = None
          /\ r.failed <= i[s]

\* Result r names files that hold its pictures, up to the first failure.
HeldIn(r, F) ==
    \A n \in 1 .. Len(r.picName) : n \notin r.short /\ (r.failed = None \/ n < r.failed) =>
        \E k \in 1 .. Len(F[r.picName[n]]) :
            F[r.picName[n]][k] = [of |-> r.of, index |-> n, whole |-> TRUE]

AllHeld ==
    /\ \A s \in Sessions : HeldIn(res[s], files)
    /\ \A j \in 1 .. Len(results) : HeldIn(results[j], files)

DescribedIn(r, U) ==
    /\ r.of \in 1 .. Len(U)
    /\ U[r.of].pics # <<>> => r.capTime = U[r.of].pics[1] /\ Len(r.picName) = Len(U[r.of].pics)
    /\ U[r.of].plate <= U[r.of].vedio => r.tail = 0

Described == \A j \in 1 .. Len(results) : DescribedIn(results[j], uploads)

\* What the names of the files of upload u begin with.
Begins(u, f) == u.pics # <<>> /\ f.car = u.car /\ f.dir = u.pics[1]

OnceEach ==
    /\ \A j, k \in 1 .. Len(uploads) : j # k => ~SameNames(uploads[j], uploads[k])
    /\ \A s, t \in Sessions : s # t /\ parsing[s] # None => parsing[s] # parsing[t]

FilesKnown ==
    \A f \in Name : files[f] # <<>> => \E j \in 1 .. Len(uploads) : Begins(uploads[j], f)

NotYet ==
    \A s \in Sessions, f \in Name :
        parsing[s] # None /\ files[f] # <<>> /\ Begins(uploads[parsing[s]], f) => f.index <= i[s]

OneEach == \A f \in Name : Len(files[f]) <= 1

Unrepeated == ~repeated => OnceEach /\ FilesKnown /\ NotYet /\ OneEach

PicInv ==
    /\ TypeOK
    /\ Len(uploads) <= MaxUploads
    /\ \A s \in Sessions : Progress(s)
    /\ AllHeld
    /\ Described
    /\ Unrepeated

-----------------------------------------------------------------------------
(* Uploads and results.                                                    *)

LEMMA PicsOf ==
    ASSUME NEW u \in Upload
    PROVE  /\ u.car \in Cars /\ u.plate \in 0 .. 1 /\ u.vedio \in 0 .. 1
           /\ u.pics \in Seq(Times) /\ Len(u.pics) \in 0 .. MaxPics
           /\ u.pics = <<>> <=> Len(u.pics) = 0
           /\ \A k \in 1 .. Len(u.pics) : u.pics[k] \in Times
<1>1. PICK n \in 0 .. MaxPics : u.pics \in [1 .. n -> Times]
  BY DEF Upload
<1>2. n \in Nat
  BY <1>1, PicturesAssumption
<1>3. u.pics \in Seq(Times) /\ Len(u.pics) = n
  BY <1>1, <1>2
<1>4. u.pics = <<>> <=> Len(u.pics) = 0
  BY <1>3, EmptySeq
<1>5. u.car \in Cars /\ u.plate \in 0 .. 1 /\ u.vedio \in 0 .. 1
  BY DEF Upload
<1>6. \A k \in 1 .. Len(u.pics) : u.pics[k] \in Times
  BY <1>3
<1> QED BY <1>1, <1>3, <1>4, <1>5, <1>6

LEMMA NamesOf ==
    ASSUME NEW r \in Result
    PROVE  /\ r.of \in Ids \cup {None} /\ r.capTime \in Times \cup {Misread} /\ r.tail \in 0 .. 1
           /\ r.failed \in 0 .. MaxPics /\ r.short \in SUBSET Index
           /\ r.picName \in Seq(Name) /\ Len(r.picName) \in 0 .. MaxPics
           /\ \A k \in 1 .. Len(r.picName) : r.picName[k] \in Name
           /\ DOMAIN r.picName = 1 .. Len(r.picName)
<1>1. PICK n \in 0 .. MaxPics : r.picName \in [1 .. n -> Name]
  BY DEF Result
<1>2. n \in Nat
  BY <1>1, PicturesAssumption
<1>3. r.picName \in Seq(Name) /\ Len(r.picName) = n
  BY <1>1, <1>2
<1>4. /\ r.of \in Ids \cup {None} /\ r.capTime \in Times \cup {Misread} /\ r.tail \in 0 .. 1
      /\ r.failed \in 0 .. MaxPics /\ r.short \in SUBSET Index
  BY DEF Result
<1>5. (\A k \in 1 .. Len(r.picName) : r.picName[k] \in Name) /\ DOMAIN r.picName = 1 .. Len(r.picName)
  BY <1>3
<1> QED BY <1>1, <1>3, <1>4, <1>5

LEMMA NamesBuilt ==
    ASSUME NEW q \in Seq(Name), Len(q) <= MaxPics
    PROVE  q \in UNION {[1 .. n -> Name] : n \in 0 .. MaxPics}
<1>1. q \in [1 .. Len(q) -> Name] /\ Len(q) \in Nat
  OBVIOUS
<1>2. Len(q) \in 0 .. MaxPics
  BY <1>1, PicturesAssumption
<1> QED BY <1>1, <1>2

\* What a result names is still there when files have grown.
LEMMA HeldGrows ==
    ASSUME NEW r \in Result, NEW F \in [Name -> Seq(Written)], NEW G \in [Name -> Seq(Written)],
           \A f \in Name : G[f] = F[f] \/ \E w \in Written : G[f] = Append(F[f], w),
           HeldIn(r, F)
    PROVE  HeldIn(r, G)
<1> SUFFICES ASSUME NEW n \in 1 .. Len(r.picName), n \notin r.short, r.failed = None \/ n < r.failed
             PROVE  \E k \in 1 .. Len(G[r.picName[n]]) :
                        G[r.picName[n]][k] = [of |-> r.of, index |-> n, whole |-> TRUE]
  BY DEF HeldIn
<1>1. r.picName[n] \in Name
  BY NamesOf
<1>2. PICK f \in Name : f = r.picName[n]
  BY <1>1
<1>3. PICK k \in 1 .. Len(F[f]) : F[f][k] = [of |-> r.of, index |-> n, whole |-> TRUE]
  BY <1>2 DEF HeldIn
<1>4. F[f] \in Seq(Written)
  OBVIOUS
<1>5. k \in 1 .. Len(G[f]) /\ G[f][k] = F[f][k]
  <2>1. CASE G[f] = F[f]
    BY <1>3, <2>1
  <2>2. CASE \E w \in Written : G[f] = Append(F[f], w)
    BY <1>3, <1>4, <2>2
  <2> QED BY <2>1, <2>2
<1> QED BY <1>2, <1>3, <1>5

LEMMA HeaderFacts ==
    ASSUME NEW u \in Upload, NEW id \in Ids
    PROVE  /\ ParseHeader(u, id) \in Result
           /\ ParseHeader(u, id).of = id /\ ParseHeader(u, id).picName = <<>>
           /\ ParseHeader(u, id).tail = PlateLeft(u) /\ ParseHeader(u, id).failed = None
<1> DEFINE time == IF u.plate = 0 /\ u.pics # <<>> THEN u.pics[1] ELSE Misread
<1>1. time \in Times \cup {Misread}
  BY PicsOf
<1>2. PlateLeft(u) \in 0 .. 1
  BY DEF PlateLeft
<1>3. ParseHeader(u, id) = [NoResult EXCEPT !.of = id, !.capTime = time, !.tail = PlateLeft(u)]
  BY DEF ParseHeader
<1>4. <<>> \in Seq(Name) /\ Len(<<>>) = 0
  OBVIOUS
<1>5. <<>> \in UNION {[1 .. n -> Name] : n \in 0 .. MaxPics}
  BY <1>4, NamesBuilt, PicturesAssumption
<1>6. None \in 0 .. MaxPics
  BY PicturesAssumption DEF None
<1> HIDE DEF time
<1>7. ParseHeader(u, id) = [of |-> id, capTime |-> time, tail |-> PlateLeft(u), picName |-> <<>>,
                            failed |-> None, short |-> {}]
  BY <1>3 DEF NoResult
<1>8. ParseHeader(u, id) \in Result
  BY <1>1, <1>2, <1>7, <1>5, <1>6 DEF Result
<1> QED BY <1>7, <1>8

LEMMA NothingHeld ==
    ASSUME NEW r, r.picName = <<>>, NEW F
    PROVE  HeldIn(r, F)
BY DEF HeldIn

LEMMA NoResultTyped == NoResult \in Result
<1>1. <<>> \in Seq(Name) /\ Len(<<>>) = 0
  OBVIOUS
<1>2. <<>> \in UNION {[1 .. n -> Name] : n \in 0 .. MaxPics}
  BY <1>1, NamesBuilt, PicturesAssumption
<1>3. None \in 0 .. MaxPics
  BY PicturesAssumption DEF None
<1> QED BY <1>2, <1>3 DEF NoResult, Result

-----------------------------------------------------------------------------
(* The steps.                                                              *)

LEMMA InitPicInv == Init => PicInv
<1> SUFFICES ASSUME Init PROVE PicInv
  OBVIOUS
<1>1. TypeOK
  <2>1. uploads \in Seq(Upload) /\ results \in Seq(Result) /\ files \in [Name -> Seq(Written)]
    BY DEF Init
  <2>2. received \in 0 .. MaxReceived /\ i \in [Sessions -> 0 .. MaxPics]
    BY PicturesAssumption DEF Init
  <2>3. res \in [Sessions -> Result]
    BY NoResultTyped DEF Init
  <2>4. parsing \in [Sessions -> Ids \cup {None}] /\ aligned \in [Sessions -> BOOLEAN] /\ repeated \in BOOLEAN
    BY DEF Init, Idle
  <2> QED BY <2>1, <2>2, <2>3, <2>4 DEF TypeOK
<1>2. \A s \in Sessions : Progress(s)
  BY DEF Init, Idle, Progress
<1>3. AllHeld
  <2>1. \A s \in Sessions : HeldIn(res[s], files)
    BY NothingHeld DEF Init, NoResult
  <2> QED BY <2>1 DEF Init, AllHeld
<1>4. Described
  BY DEF Init, Described
<1>5. Unrepeated
  BY DEF Init, Idle, Unrepeated, OnceEach, FilesKnown, NotYet, OneEach
<1>6. Len(uploads) <= MaxUploads
  BY PicturesAssumption DEF Init
<1> QED BY <1>1, <1>2, <1>3, <1>4, <1>5, <1>6 DEF PicInv

LEMMA ReceiveKeeps ==
    ASSUME PicInv, NEW s \in Sessions, Receive(s)
    PROVE  PicInv'
<1>0. TypeOK
  BY DEF PicInv
<1>1. PICK id \in 1 .. Len(uploads) + 1, u \in Upload :
          /\ IF id <= Len(uploads)
                THEN u = uploads[id] /\ UNCHANGED uploads /\ repeated' = TRUE
                ELSE /\ id \in Ids
                     /\ uploads' = Append(uploads, u)
                     /\ repeated' = (repeated \/ \E j \in DOMAIN uploads : SameNames(u, uploads[j]))
          /\ parsing' = [parsing EXCEPT ![s] = id]
          /\ res' = [res EXCEPT ![s] = ParseHeader(u, id)]
  BY DEF Receive
<1>2. /\ parsing[s] = None /\ received < MaxReceived /\ received' = received + 1
      /\ i' = [i EXCEPT ![s] = 0] /\ aligned' = [aligned EXCEPT ![s] = TRUE]
      /\ results' = results /\ files' = files
  BY DEF Receive
<1> DEFINE len == Len(uploads)
<1>3. uploads \in Seq(Upload) /\ len \in Nat /\ DOMAIN uploads = 1 .. len
  BY <1>0 DEF TypeOK
<1>4. /\ uploads' \in Seq(Upload) /\ Len(uploads') >= len /\ Len(uploads') \in Nat
      /\ \A k \in 1 .. len : uploads'[k] = uploads[k] /\ k \in 1 .. Len(uploads')
      /\ uploads'[id] = u /\ id \in 1 .. Len(uploads')
  <2>1. CASE id <= len
    BY <1>1, <1>3, <2>1
  <2>2. CASE ~(id <= len)
    <3>1. uploads' = Append(uploads, u) /\ id = len + 1
      BY <1>1, <1>3, <2>2
    <3> QED BY <1>3, <3>1
  <2> QED BY <2>1, <2>2
<1>5. id \in Ids /\ Len(uploads') <= MaxUploads
  <2>1. CASE id <= len
    BY <1>1, <1>3, <2>1, PicturesAssumption DEF PicInv, Ids
  <2>2. CASE ~(id <= len)
    <3>1. uploads' = Append(uploads, u) /\ id = len + 1 /\ id \in 1 .. MaxUploads
      BY <1>1, <1>3, <2>2 DEF Ids
    <3> QED BY <1>3, <3>1, PicturesAssumption DEF Ids
  <2> QED BY <2>1, <2>2
<1>6. /\ parsing'[s] = id /\ i'[s] = 0 /\ aligned'[s] = TRUE /\ res'[s] = ParseHeader(u, id)
      /\ \A t \in Sessions : t # s => /\ parsing'[t] = parsing[t] /\ i'[t] = i[t]
                                      /\ aligned'[t] = aligned[t] /\ res'[t] = res[t]
  BY <1>0, <1>1, <1>2 DEF TypeOK
<1> HIDE DEF len
<1>7. TypeOK'
  <2>1. res' \in [Sessions -> Result]
    BY <1>0, <1>1, <1>5, HeaderFacts DEF TypeOK
  <2>2. parsing' \in [Sessions -> Ids \cup {None}] /\ i' \in [Sessions -> 0 .. MaxPics]
        /\ aligned' \in [Sessions -> BOOLEAN] /\ received' \in 0 .. MaxReceived
    BY <1>0, <1>1, <1>2, <1>5, PicturesAssumption DEF TypeOK
  <2>3. repeated' \in BOOLEAN
    BY <1>0, <1>1 DEF TypeOK
  <2> QED BY <1>0, <1>2, <1>4, <2>1, <2>2, <2>3 DEF TypeOK
<1>8. ASSUME NEW t \in Sessions PROVE Progress(t)'
  <2>1. CASE t = s
    <3>1. Len(<<>>) = 0 /\ Len(u.pics) \in Nat
      BY PicsOf
    <3>2. /\ ParseHeader(u, id).of = id /\ Len(ParseHeader(u, id).picName) = 0
          /\ ParseHeader(u, id).tail = PlateLeft(u) /\ ParseHeader(u, id).failed = None
      BY <1>5, <3>1, HeaderFacts
    <3> QED BY <1>4, <1>6, <2>1, <3>1, <3>2 DEF Progress, None
  <2>2. CASE t # s
    <3>1. Progress(t)
      BY DEF PicInv
    <3>2. parsing[t] # None => parsing[t] \in 1 .. len /\ uploads'[parsing[t]] = uploads[parsing[t]]
                               /\ parsing[t] \in 1 .. Len(uploads')
      BY <1>4, <3>1 DEF Progress, len
    <3> QED BY <1>6, <2>2, <3>1, <3>2 DEF Progress
  <2> QED BY <2>1, <2>2
<1>9. AllHeld'
  <2>1. \A t \in Sessions : HeldIn(res'[t], files)
    <3>1. HeldIn(res'[s], files)
      BY <1>5, <1>6, HeaderFacts, NothingHeld
    <3> QED BY <1>6, <3>1 DEF PicInv, AllHeld
  <2> QED BY <1>2, <2>1 DEF PicInv, AllHeld
<1>10. Described'
  BY <1>2, <1>3, <1>4 DEF PicInv, Described, DescribedIn, len
<1>11. Unrepeated'
  <2> SUFFICES ASSUME ~repeated' PROVE OnceEach' /\ FilesKnown' /\ NotYet' /\ OneEach'
    BY DEF Unrepeated
  <2>1. ~(id <= len)
    BY <1>1 DEF len
  <2>2. id = len + 1
    BY <1>1, <1>3, <2>1 DEF len
  <2>3. ~repeated /\ \A j \in 1 .. len : ~SameNames(u, uploads[j])
    <3>1. repeated' = (repeated \/ \E j \in 1 .. len : SameNames(u, uploads[j]))
      BY <1>1, <1>3, <2>1 DEF len
    <3>2. repeated \in BOOLEAN
      BY <1>0 DEF TypeOK
    <3> QED BY <3>1, <3>2, Zenon
  <2>4. Len(uploads') = id
    <3>1. uploads' = Append(uploads, u)
      BY <1>1, <2>1 DEF len
    <3> QED BY <1>3, <2>2, <3>1 DEF len
  <2>5. OnceEach /\ FilesKnown /\ NotYet /\ OneEach
    BY <2>3 DEF PicInv, Unrepeated
  <2>6. OnceEach'
    <3>1. ASSUME NEW j \in 1 .. Len(uploads'), NEW k \in 1 .. Len(uploads'), j # k,
                 SameNames(uploads'[j], uploads'[k])
          PROVE  FALSE
      <4>1. CASE j = id
        <5>1. k \in 1 .. len
          BY <1>3, <2>2, <2>4, <3>1, <4>1
        <5> QED BY <1>4, <2>3, <3>1, <4>1, <5>1
      <4>2. CASE k = id
        <5>1. j \in 1 .. len
          BY <1>3, <2>2, <2>4, <3>1, <4>2
        <5> QED BY <1>4, <2>3, <3>1, <4>2, <5>1 DEF SameNames
      <4>3. CASE j # id /\ k # id
        <5>1. j \in 1 .. len /\ k \in 1 .. len
          BY <1>3, <2>2, <2>4, <4>3
        <5> QED BY <1>4, <2>5, <3>1, <5>1 DEF OnceEach, len
      <4> QED BY <4>1, <4>2, <4>3
    <3>2. ASSUME NEW x \in Sessions, NEW t \in Sessions, x # t, parsing'[x] # None,
                 parsing'[x] = parsing'[t]
          PROVE  FALSE
      <4>1. \A y \in Sessions : parsing[y] # None => parsing[y] \in 1 .. len
        BY DEF PicInv, Progress, len
      <4>2. \A y \in Sessions : parsing[y] # None => parsing[y] # id
        BY <1>3, <2>2, <4>1
      <4>3. id # None
        BY <1>3, <2>2 DEF None
      <4> QED BY <1>6, <2>5, <3>2, <4>2, <4>3 DEF OnceEach
    <3> QED BY <3>1, <3>2 DEF OnceEach
  <2>7. FilesKnown'
    BY <1>2, <1>4, <2>5 DEF FilesKnown, Begins, len
  <2>8. NotYet'
    <3> SUFFICES ASSUME NEW t \in Sessions, NEW f \in Name, parsing'[t] # None, files'[f] # <<>>,
                        Begins(uploads'[parsing'[t]], f)
                 PROVE  f.index <= i'[t]
      BY DEF NotYet
    <3>1. CASE t = s
      <4>1. PICK k \in 1 .. len : Begins(uploads[k], f)
        BY <1>2, <2>5 DEF FilesKnown, len
      <4>2. Begins(u, f)
        BY <1>4, <1>6, <3>1
      <4> QED BY <2>3, <4>1, <4>2 DEF Begins, SameNames
    <3>2. CASE t # s
      <4>1. parsing[t] # None /\ parsing[t] \in 1 .. len
        BY <1>6, <3>2 DEF PicInv, Progress, len
      <4> QED BY <1>2, <1>4, <1>6, <2>5, <3>2, <4>1 DEF NotYet
    <3> QED BY <3>1, <3>2
  <2>9. OneEach'
    BY <1>2, <2>5 DEF OneEach
  <2> QED BY <2>6, <2>7, <2>8, <2>9
<1> QED BY <1>5, <1>7, <1>8, <1>9, <1>10, <1>11 DEF PicInv

\* What a picture's turn leaves alone, and where its session is.
LEMMA Turn ==
    ASSUME PicInv, NEW s \in Sessions, Looping(s)
    PROVE  /\ parsing[s] \in Ids /\ parsing[s] # None /\ parsing[s] \in 1 .. Len(uploads)
           /\ uploads[parsing[s]] \in Upload /\ Pics(s) \in Seq(Times) /\ Pics(s) # <<>>
           /\ i[s] \in Nat /\ i[s] + 1 \in 1 .. Len(Pics(s)) /\ i[s] + 1 \in Index
           /\ \A t \in TimesRead(s) : t \in Times /\ NameOf(s, t) \in Name
                                      /\ (i[s] = 0 => t = Pics(s)[1])
                                      /\ Begins(uploads[parsing[s]], NameOf(s, t))
                                      /\ NameOf(s, t).index = i[s] + 1
<1>1. parsing[s] # None /\ i[s] < Len(Pics(s)) /\ Progress(s) /\ TypeOK
  BY DEF PicInv, Looping
<1>2. parsing[s] \in 1 .. Len(uploads) /\ parsing[s] \in Ids /\ i[s] \in 0 .. MaxPics /\ i[s] \in Nat
  BY <1>1, PicturesAssumption DEF Progress, TypeOK
<1>3. uploads[parsing[s]] \in Upload
  BY <1>1, <1>2 DEF TypeOK
<1>4. PICK u \in Upload : u = uploads[parsing[s]]
  BY <1>3
<1>5. Pics(s) = u.pics
  BY <1>4 DEF Pics
<1>6. Pics(s) \in Seq(Times) /\ Pics(s) # <<>> /\ Len(Pics(s)) \in 0 .. MaxPics /\ u.car \in Cars
      /\ \A k \in 1 .. Len(Pics(s)) : Pics(s)[k] \in Times
  BY <1>1, <1>2, <1>5, PicsOf
<1>7. i[s] + 1 \in 1 .. Len(Pics(s)) /\ i[s] + 1 \in Index /\ 1 \in 1 .. Len(Pics(s))
  BY <1>1, <1>2, <1>6, PicturesAssumption DEF Index
<1>8. i[s] = 0 => aligned[s]
  <2>1. res[s] \in Result
    BY <1>1 DEF TypeOK
  <2>2. res[s].failed \in Nat /\ res[s].failed <= i[s] /\ (aligned[s] <=> res[s].failed = None)
    BY <1>1, <2>1, NamesOf, PicturesAssumption DEF Progress
  <2> QED BY <2>2 DEF None
<1>9. ASSUME NEW t \in TimesRead(s)
      PROVE  t \in Times /\ (i[s] = 0 => t = Pics(s)[1])
  <2>1. aligned[s] => t = Pics(s)[i[s] + 1]
    BY <1>9 DEF TimesRead
  <2>2. t \in Times
    BY <1>6, <1>7, <1>9 DEF TimesRead
  <2>3. i[s] = 0 => t = Pics(s)[1]
    BY <1>8, <2>1
  <2> QED BY <2>2, <2>3
<1>10. ASSUME NEW t \in Times
       PROVE  /\ NameOf(s, t) \in Name /\ NameOf(s, t).index = i[s] + 1
              /\ Begins(uploads[parsing[s]], NameOf(s, t))
  BY <1>4, <1>5, <1>6, <1>7 DEF NameOf, Name, Begins
<1> QED BY <1>1, <1>2, <1>3, <1>6, <1>7, <1>9, <1>10

\* File q holds picture n of the upload that s writes.
Stored(s, n, q) == \E k \in 1 .. Len(q) : q[k] = [of |-> parsing[s], index |-> n, whole |-> TRUE]

Extended(s, t, failed, short) ==
    [of |-> parsing[s], capTime |-> Pics(s)[1], tail |-> res[s].tail,
     picName |-> Append(res[s].picName, NameOf(s, t)), failed |-> failed, short |-> short]

\* The result with the name of one picture more.
LEMMA NamedIs ==
    ASSUME PicInv, NEW s \in Sessions, Looping(s), NEW t \in TimesRead(s)
    PROVE  Named(s, t) = Extended(s, t, res[s].failed, res[s].short)
<1>1. /\ Progress(s) /\ res[s] \in Result
  BY DEF PicInv, TypeOK
<1>2. PICK o \in Result : o = res[s]
  BY <1>1
<1>3. PICK id, ct, tl, pn, fl, sh :
          o = [of |-> id, capTime |-> ct, tail |-> tl, picName |-> pn, failed |-> fl, short |-> sh]
  BY DEF Result
<1>4. /\ id = parsing[s] /\ o.capTime = ct /\ o.tail = tl /\ o.picName = pn /\ o.failed = fl /\ o.short = sh
      /\ i[s] > 0 => ct = Pics(s)[1]
  BY <1>1, <1>2, <1>3, Turn DEF Progress, Pics
<1> DEFINE time == IF i[s] = 0 THEN t ELSE ct
           names == Append(pn, NameOf(s, t))
<1>5. Named(s, t) = [o EXCEPT !.capTime = time, !.picName = names]
  BY <1>2, <1>4 DEF Named
<1>6. time = Pics(s)[1]
  <2>1. (i[s] = 0 => t = Pics(s)[1]) /\ i[s] \in Nat
    BY Turn
  <2> QED BY <1>4, <2>1
<1> HIDE DEF time, names
<1>7. Named(s, t) = [of |-> id, capTime |-> time, tail |-> tl, picName |-> names,
                     failed |-> fl, short |-> sh]
  BY <1>3, <1>5
<1>8. names = Append(res[s].picName, NameOf(s, t))
  BY <1>2, <1>4 DEF names
<1> QED BY <1>2, <1>4, <1>6, <1>7, <1>8 DEF Extended

\* What is true of it, when F is what the files are then.
LEMMA NextPicture ==
    ASSUME PicInv, NEW s \in Sessions, Looping(s), NEW t \in TimesRead(s),
           NEW failed \in 0 .. MaxPics, NEW short \in SUBSET Index, NEW F,
           HeldIn(res[s], F), res[s].short \subseteq short,
           failed = res[s].failed \/ res[s].failed = None,
           i[s] + 1 \notin short /\ (failed = None \/ i[s] + 1 < failed) =>
               Stored(s, i[s] + 1, F[NameOf(s, t)]),
           NEW r, r = Extended(s, t, failed, short)
    PROVE  /\ r \in Result /\ HeldIn(r, F) /\ Len(r.picName) = i[s] + 1
<1>1. /\ TypeOK /\ Progress(s) /\ res[s] \in Result
  BY DEF PicInv, TypeOK
<1>2. PICK o \in Result : o = res[s]
  BY <1>1
<1>3. PICK n \in Name : n = NameOf(s, t)
  BY Turn
<1>4. PICK m \in Nat : m = i[s]
  BY Turn
<1>5. PICK id \in Ids : id = parsing[s]
  BY Turn
<1>6. o.of = id /\ Len(o.picName) = m /\ m + 1 <= MaxPics
  BY <1>1, <1>2, <1>4, <1>5, Turn, PicturesAssumption DEF Progress, Index
<1> DEFINE names == Append(o.picName, n)
<1>7. /\ names \in Seq(Name) /\ Len(names) = m + 1 /\ names[m + 1] = n
      /\ \A k \in 1 .. m : names[k] = o.picName[k]
  BY <1>6, NamesOf
<1>8. names \in UNION {[1 .. k -> Name] : k \in 0 .. MaxPics}
  BY <1>6, <1>7, NamesBuilt
<1>9. Pics(s)[1] \in Times /\ o.tail \in 0 .. 1
  <2>1. i[s] + 1 \in 1 .. Len(Pics(s)) /\ Pics(s) \in Seq(Times)
    BY Turn
  <2>2. 1 \in 1 .. Len(Pics(s))
    BY <1>4, <2>1
  <2> QED BY <2>1, <2>2, NamesOf
<1> HIDE DEF names
<1>10. names = Append(res[s].picName, NameOf(s, t))
  BY <1>2, <1>3 DEF names
<1>11. r.of = id /\ r.picName = names /\ r.failed = failed /\ r.short = short
  BY <1>5, <1>10 DEF Extended
<1>12. r \in Result
  BY <1>2, <1>5, <1>8, <1>9, <1>10 DEF Result, Extended
<1>13. HeldIn(r, F)
  <2>1. ASSUME NEW k \in 1 .. m + 1, k \notin short, failed = None \/ k < failed
        PROVE  \E l \in 1 .. Len(F[names[k]]) :
                   F[names[k]][l] = [of |-> id, index |-> k, whole |-> TRUE]
    <3>1. CASE k = m + 1
      <4>1. names[k] = NameOf(s, t) /\ i[s] + 1 = k /\ parsing[s] = id
        BY <1>3, <1>4, <1>5, <1>7, <3>1
      <4> QED BY <2>1, <4>1 DEF Stored
    <3>2. CASE k # m + 1
      <4>1. k \in 1 .. Len(o.picName) /\ names[k] = o.picName[k]
        BY <1>6, <1>7, <3>2
      <4>2. k \notin o.short /\ o.failed \in Nat /\ HeldIn(o, F)
        BY <1>2, <2>1, NamesOf, PicturesAssumption
      <4>3. o.failed = None \/ k < o.failed
        BY <1>2, <2>1, <4>2
      <4> QED BY <1>6, <4>1, <4>2, <4>3 DEF HeldIn
    <3> QED BY <3>1, <3>2
  <2> QED BY <1>7, <1>11, <2>1 DEF HeldIn
<1> QED BY <1>4, <1>7, <1>11, <1>12, <1>13

\* A picture's turn, written or not: the result is extended, and a file grows at
\* most by w.
PictureTurn(s, t, failed, short, w) ==
    /\ Counted(s)
    /\ res' = [res EXCEPT ![s] = Extended(s, t, failed, short)]
    /\ res[s].short \subseteq short
    /\ failed = res[s].failed \/ res[s].failed = None
    /\ failed <= i[s] + 1
    /\ aligned' \in [Sessions -> BOOLEAN] /\ (aligned'[s] <=> failed = None)
    /\ \A x \in Sessions : x # s => aligned'[x] = aligned[x]
    /\ \/ files' = files
       \/ files' = [files EXCEPT ![NameOf(s, t)] = Append(files[NameOf(s, t)], w)]
    /\ i[s] + 1 \notin short /\ (failed = None \/ i[s] + 1 < failed) =>
          Stored(s, i[s] + 1, files'[NameOf(s, t)])

LEMMA TurnKeeps ==
    ASSUME PicInv, NEW s \in Sessions, Looping(s), NEW t \in TimesRead(s),
           NEW failed \in 0 .. MaxPics, NEW short \in SUBSET Index, NEW w \in Written,
           PictureTurn(s, t, failed, short, w)
    PROVE  PicInv'
<1>1. /\ TypeOK /\ Progress(s)
      /\ uploads' = uploads /\ received' = received /\ parsing' = parsing
      /\ results' = results /\ repeated' = repeated /\ i' = [i EXCEPT ![s] = i[s] + 1]
  BY DEF PicInv, Counted, PictureTurn
<1>2. PICK f \in Name : f = NameOf(s, t)
  BY Turn
<1>3. /\ i[s] + 1 \in 1 .. Len(Pics(s)) /\ i[s] \in Nat /\ i[s] + 1 \in Index /\ f.index = i[s] + 1
      /\ parsing[s] # None /\ Begins(uploads[parsing[s]], f) /\ parsing[s] \in 1 .. Len(uploads)
  BY <1>2, Turn
<1>4. /\ i'[s] = i[s] + 1
      /\ \A x \in Sessions : x # s => i'[x] = i[x] /\ res'[x] = res[x]
  BY <1>1 DEF TypeOK, PictureTurn
<1>5. /\ files' \in [Name -> Seq(Written)]
      /\ \A g \in Name : files'[g] = files[g] \/ (g = f /\ files'[g] = Append(files[g], w))
  <2>1. files \in [Name -> Seq(Written)]
    BY <1>1 DEF TypeOK
  <2>2. Append(files[f], w) \in Seq(Written)
    BY <2>1
  <2>3. files' = files \/ files' = [files EXCEPT ![f] = Append(files[f], w)]
    BY <1>2 DEF PictureTurn
  <2>4. CASE files' = files
    BY <2>1, <2>4
  <2>5. CASE files' = [files EXCEPT ![f] = Append(files[f], w)]
    <3>1. PICK q \in Seq(Written) : q = Append(files[f], w)
      BY <2>2
    <3>2. files' = [files EXCEPT ![f] = q]
      BY <2>5, <3>1
    <3> QED BY <2>1, <3>1, <3>2
  <2> QED BY <2>3, <2>4, <2>5
<1>6. ASSUME NEW r \in Result, HeldIn(r, files) PROVE HeldIn(r, files')
  <2>1. \A g \in Name : files'[g] = files[g] \/ \E x \in Written : files'[g] = Append(files[g], x)
    BY <1>5
  <2> QED BY <1>1, <1>5, <1>6, <2>1, HeldGrows DEF TypeOK
<1>7. PICK o : o = Extended(s, t, failed, short)
  OBVIOUS
<1>8. res' = [res EXCEPT ![s] = o] /\ res'[s] = o
  BY <1>1, <1>7 DEF TypeOK, PictureTurn
<1>9. HeldIn(res[s], files')
  BY <1>1, <1>6 DEF PicInv, AllHeld, TypeOK
<1>10. o \in Result /\ HeldIn(o, files') /\ Len(o.picName) = i[s] + 1
  <2>1. PICK F : F = files'
    OBVIOUS
  <2>2. HeldIn(res[s], F)
    BY <1>9, <2>1
  <2>3. i[s] + 1 \notin short /\ (failed = None \/ i[s] + 1 < failed) =>
            Stored(s, i[s] + 1, F[NameOf(s, t)])
    BY <2>1 DEF PictureTurn
  <2>4. res[s].short \subseteq short /\ (failed = res[s].failed \/ res[s].failed = None)
    BY DEF PictureTurn
  <2>5. o \in Result /\ HeldIn(o, F) /\ Len(o.picName) = i[s] + 1
    BY <1>7, <2>2, <2>3, <2>4, NextPicture
  <2> QED BY <2>1, <2>5
<1>11. o.of = parsing[s] /\ o.capTime = Pics(s)[1] /\ o.tail = res[s].tail /\ o.failed = failed
  BY <1>7 DEF Extended
<1>12. TypeOK'
  <2>1. res' \in [Sessions -> Result]
    BY <1>1, <1>8, <1>10 DEF TypeOK
  <2>2. i' \in [Sessions -> 0 .. MaxPics]
    BY <1>1, <1>3, PicturesAssumption DEF TypeOK, Index
  <2>3. aligned' \in [Sessions -> BOOLEAN]
    BY DEF PictureTurn
  <2> QED BY <1>1, <1>5, <2>1, <2>2, <2>3 DEF TypeOK
<1>13. ASSUME NEW x \in Sessions PROVE Progress(x)'
  <2>1. CASE x = s
    <3>1. Progress(s)' <=>
             /\ i[s] + 1 \in 0 .. Len(Pics(s)) /\ o.of = parsing[s] /\ Len(o.picName) = i[s] + 1
             /\ o.capTime = Pics(s)[1] /\ o.tail = PlateLeft(uploads[parsing[s]])
             /\ (aligned'[s] <=> o.failed = None) /\ o.failed <= i[s] + 1
      BY <1>1, <1>3, <1>4, <1>8 DEF Progress, Pics
    <3>2. res[s].tail = PlateLeft(uploads[parsing[s]])
      BY <1>1, <1>3 DEF Progress
    <3>3. i[s] + 1 \in 0 .. Len(Pics(s))
      BY <1>3
    <3>4. (aligned'[s] <=> failed = None) /\ failed <= i[s] + 1
      BY DEF PictureTurn
    <3> QED BY <1>10, <1>11, <2>1, <3>1, <3>2, <3>3, <3>4
  <2>2. CASE x # s
    <3>1. Progress(x)
      BY DEF PicInv
    <3>2. aligned'[x] = aligned[x]
      BY <2>2 DEF PictureTurn
    <3> QED BY <1>1, <1>4, <2>2, <3>1, <3>2 DEF Progress
  <2> QED BY <2>1, <2>2
<1>14. AllHeld'
  <2>1. ASSUME NEW x \in Sessions PROVE HeldIn(res'[x], files')
    <3>1. CASE x = s
      BY <1>8, <1>10, <3>1
    <3>2. CASE x # s
      BY <1>1, <1>4, <1>6, <3>2 DEF PicInv, AllHeld, TypeOK
    <3> QED BY <3>1, <3>2
  <2>2. ASSUME NEW j \in 1 .. Len(results) PROVE HeldIn(results[j], files')
    <3>1. results[j] \in Result /\ HeldIn(results[j], files)
      BY <1>1 DEF PicInv, AllHeld, TypeOK
    <3> QED BY <1>6, <3>1
  <2> QED BY <1>1, <2>1, <2>2 DEF AllHeld
<1>15. Described'
  BY <1>1 DEF PicInv, Described
<1>16. Unrepeated'
  <2> SUFFICES ASSUME ~repeated PROVE OnceEach' /\ FilesKnown' /\ NotYet' /\ OneEach'
    BY <1>1 DEF Unrepeated
  <2>1. OnceEach /\ FilesKnown /\ NotYet /\ OneEach
    BY DEF PicInv, Unrepeated
  <2>2. OnceEach'
    BY <1>1, <2>1 DEF OnceEach
  <2>3. FilesKnown'
    BY <1>1, <1>3, <1>5, <2>1 DEF FilesKnown
  <2>4. files[f] = <<>>
    BY <1>3, <2>1 DEF NotYet
  <2>5. OneEach'
    <3>1. Len(Append(<<>>, w)) = 1
      OBVIOUS
    <3> QED BY <1>5, <2>1, <2>4, <3>1 DEF OneEach
  <2>6. NotYet'
    <3> SUFFICES ASSUME NEW x \in Sessions, NEW g \in Name, parsing[x] # None, files'[g] # <<>>,
                        Begins(uploads[parsing[x]], g)
                 PROVE  g.index <= i'[x]
      BY <1>1 DEF NotYet
    <3>1. g.index \in Nat /\ i[x] \in Nat
      BY <1>1, PicturesAssumption DEF Name, Index, TypeOK
    <3>2. CASE files[g] # <<>>
      <4>1. g.index <= i[x]
        BY <2>1, <3>2 DEF NotYet
      <4> QED BY <1>4, <3>1, <4>1
    <3>3. CASE files[g] = <<>>
      <4>1. g = f
        BY <1>5, <3>3
      <4>2. CASE x = s
        BY <1>3, <1>4, <4>1, <4>2
      <4>3. CASE x # s
        <5>1. parsing[x] \in 1 .. Len(uploads) /\ parsing[x] # parsing[s]
          BY <1>3, <2>1, <4>3 DEF PicInv, Progress, OnceEach
        <5>2. SameNames(uploads[parsing[x]], uploads[parsing[s]])
          BY <1>3, <4>1 DEF Begins, SameNames
        <5> QED BY <1>3, <2>1, <5>1, <5>2 DEF OnceEach
      <4> QED BY <4>2, <4>3
    <3> QED BY <3>2, <3>3
  <2> QED BY <2>2, <2>3, <2>5, <2>6
<1> QED BY <1>1, <1>12, <1>13, <1>14, <1>15, <1>16 DEF PicInv

LEMMA WriteKeeps ==
    ASSUME PicInv, NEW s \in Sessions, WritePicture(s)
    PROVE  PicInv'
<1>1. PICK t \in TimesRead(s), whole \in BOOLEAN :
          /\ files' = [files EXCEPT ![NameOf(s, t)] =
                          Append(@, [of |-> parsing[s], whole |-> whole,
                                     index |-> IF aligned[s] THEN i[s] + 1 ELSE 0])]
          /\ res' = [res EXCEPT ![s] =
                        [Named(s, t) EXCEPT !.short = IF whole THEN @ ELSE @ \cup {i[s] + 1}]]
  BY DEF WritePicture
<1>2. Looping(s) /\ Counted(s) /\ aligned' = aligned
  BY DEF WritePicture
<1>3. TypeOK /\ Progress(s) /\ res[s] \in Result
  BY DEF PicInv, TypeOK
<1> DEFINE short == IF whole THEN res[s].short ELSE res[s].short \cup {i[s] + 1}
           failed == res[s].failed
           w == [of |-> parsing[s], whole |-> whole, index |-> IF aligned[s] THEN i[s] + 1 ELSE 0]
<1>4. failed \in 0 .. MaxPics /\ short \in SUBSET Index /\ w \in Written
  <2>1. i[s] + 1 \in Index /\ parsing[s] \in Ids
    BY <1>2, Turn
  <2>2. failed \in 0 .. MaxPics /\ short \in SUBSET Index
    BY <1>3, <2>1, NamesOf
  <2>3. i[s] + 1 \in 0 .. MaxPics /\ 0 \in 0 .. MaxPics
    BY <2>1, PicturesAssumption DEF Index
  <2> QED BY <2>1, <2>2, <2>3 DEF Written
<1>5. [Named(s, t) EXCEPT !.short = IF whole THEN @ ELSE @ \cup {i[s] + 1}] = Extended(s, t, failed, short)
  <2>1. Named(s, t) = Extended(s, t, res[s].failed, res[s].short)
    BY <1>2, NamedIs
  <2>2. PICK id, ct, tl, pn, fl, sh :
            /\ Named(s, t) = [of |-> id, capTime |-> ct, tail |-> tl, picName |-> pn, failed |-> fl, short |-> sh]
            /\ \A x, y : Extended(s, t, x, y) =
                           [of |-> id, capTime |-> ct, tail |-> tl, picName |-> pn, failed |-> x, short |-> y]
            /\ fl = res[s].failed /\ sh = res[s].short
    BY <2>1 DEF Extended
  <2> QED BY <2>2
<1>6. /\ res' = [res EXCEPT ![s] = Extended(s, t, failed, short)]
      /\ files' = [files EXCEPT ![NameOf(s, t)] = Append(files[NameOf(s, t)], w)]
  BY <1>1, <1>5
<1>7. failed <= i[s] + 1 /\ (aligned[s] <=> failed = None) /\ failed \in Nat /\ i[s] \in Nat
  <2>1. failed <= i[s] /\ (aligned[s] <=> failed = None) /\ failed \in Nat /\ i[s] \in Nat
    BY <1>2, <1>3, <1>4, Turn, PicturesAssumption DEF Progress
  <2> QED BY <2>1
<1>8. i[s] + 1 \notin short /\ (failed = None \/ i[s] + 1 < failed) =>
          Stored(s, i[s] + 1, files'[NameOf(s, t)])
  <2> SUFFICES ASSUME i[s] + 1 \notin short, failed = None \/ i[s] + 1 < failed
               PROVE  Stored(s, i[s] + 1, files'[NameOf(s, t)])
    OBVIOUS
  <2>1. failed = None
    <3>1. failed <= i[s]
      BY <1>2, <1>3, Turn DEF Progress
    <3> QED BY <1>7, <3>1
  <2>2. whole = TRUE /\ aligned[s]
    BY <1>7, <2>1
  <2>3. w = [of |-> parsing[s], index |-> i[s] + 1, whole |-> TRUE]
    BY <2>2
  <2>4. PICK f \in Name : f = NameOf(s, t)
    BY <1>2, Turn
  <2> HIDE DEF w
  <2>5. files'[f] = Append(files[f], w) /\ files[f] \in Seq(Written)
    BY <1>3, <1>6, <2>4 DEF TypeOK
  <2>6. Len(files'[f]) \in 1 .. Len(files'[f]) /\ files'[f][Len(files'[f])] = w
    BY <1>4, <2>5
  <2> QED BY <2>3, <2>4, <2>6 DEF Stored
<1> HIDE DEF short, failed, w
<1>9. res[s].short \subseteq short /\ failed = res[s].failed
  BY DEF short, failed
<1>10. PictureTurn(s, t, failed, short, w)
  BY <1>2, <1>3, <1>6, <1>7, <1>8, <1>9 DEF PictureTurn, TypeOK
<1> QED BY <1>2, <1>4, <1>10, TurnKeeps

LEMMA OpenFailsKeeps ==
    ASSUME PicInv, NEW s \in Sessions, OpenFails(s)
    PROVE  PicInv'
<1>1. PICK t \in TimesRead(s) :
          res' = [res EXCEPT ![s] =
                     [Named(s, t) EXCEPT !.failed = IF @ = None THEN i[s] + 1 ELSE @]]
  BY DEF OpenFails
<1>2. Looping(s) /\ Counted(s) /\ files' = files /\ aligned' = [aligned EXCEPT ![s] = FALSE]
  BY DEF OpenFails
<1>3. TypeOK /\ Progress(s) /\ res[s] \in Result
  BY DEF PicInv, TypeOK
<1> DEFINE short == res[s].short
           failed == IF res[s].failed = None THEN i[s] + 1 ELSE res[s].failed
<1>4. /\ i[s] \in Nat /\ i[s] + 1 \in 0 .. MaxPics /\ parsing[s] \in Ids
      /\ res[s].failed \in Nat /\ res[s].failed <= i[s]
  BY <1>2, <1>3, Turn, NamesOf, PicturesAssumption DEF Index, Progress
<1>5. failed \in 0 .. MaxPics /\ short \in SUBSET Index /\ failed # None /\ failed <= i[s] + 1
  BY <1>3, <1>4, NamesOf DEF None
<1>6. [Named(s, t) EXCEPT !.failed = IF @ = None THEN i[s] + 1 ELSE @] = Extended(s, t, failed, short)
  <2>1. Named(s, t) = Extended(s, t, res[s].failed, res[s].short)
    BY <1>2, NamedIs
  <2>2. PICK id, ct, tl, pn, fl, sh :
            /\ Named(s, t) = [of |-> id, capTime |-> ct, tail |-> tl, picName |-> pn, failed |-> fl, short |-> sh]
            /\ \A x, y : Extended(s, t, x, y) =
                           [of |-> id, capTime |-> ct, tail |-> tl, picName |-> pn, failed |-> x, short |-> y]
            /\ fl = res[s].failed /\ sh = res[s].short
    BY <2>1 DEF Extended
  <2> QED BY <2>2
<1>7. res' = [res EXCEPT ![s] = Extended(s, t, failed, short)]
  BY <1>1, <1>6
<1>8. ~(i[s] + 1 < failed)
  BY <1>4, <1>5
<1>9. PICK w : w = [of |-> parsing[s], index |-> 0, whole |-> TRUE]
  OBVIOUS
<1>10. w \in Written
  BY <1>4, <1>9, PicturesAssumption DEF Written
<1>11. failed = res[s].failed \/ res[s].failed = None
  OBVIOUS
<1>12. /\ aligned' \in [Sessions -> BOOLEAN] /\ aligned'[s] = FALSE
       /\ \A x \in Sessions : x # s => aligned'[x] = aligned[x]
  BY <1>2, <1>3 DEF TypeOK
<1> HIDE DEF failed
<1>13. PictureTurn(s, t, failed, short, w)
  BY <1>2, <1>5, <1>7, <1>8, <1>11, <1>12 DEF PictureTurn
<1> QED BY <1>2, <1>5, <1>10, <1>13, TurnKeeps

LEMMA DoneKeeps ==
    ASSUME PicInv, NEW s \in Sessions, Done(s)
    PROVE  PicInv'
<1>1. /\ TypeOK /\ Progress(s) /\ parsing[s] # None /\ ~Looping(s)
      /\ parsing' = [parsing EXCEPT ![s] = None]
      /\ results' = results \/ results' = Append(results, res[s])
      /\ uploads' = uploads /\ received' = received /\ i' = i /\ aligned' = aligned
      /\ res' = res /\ files' = files /\ repeated' = repeated
  BY DEF PicInv, Done
<1>2. parsing'[s] = None /\ \A x \in Sessions : x # s => parsing'[x] = parsing[x]
  BY <1>1 DEF TypeOK
<1>3. res[s] \in Result /\ results \in Seq(Result)
  BY <1>1 DEF TypeOK
<1>4. PICK r \in Result : r = res[s]
  BY <1>3
<1>5. HeldIn(r, files)
  BY <1>4 DEF PicInv, AllHeld
<1>6. DescribedIn(r, uploads)
  <2>1. PICK u \in Upload : u = uploads[parsing[s]]
    BY <1>1 DEF TypeOK, Progress
  <2>2. i[s] = Len(u.pics) /\ Len(u.pics) \in Nat
    <3>1. i[s] \in 0 .. Len(u.pics) /\ ~(i[s] < Len(u.pics)) /\ Len(u.pics) \in 0 .. MaxPics
      BY <1>1, <2>1, PicsOf DEF Progress, Looping, Pics
    <3> QED BY <3>1, PicturesAssumption
  <2>3. u.plate <= u.vedio => PlateLeft(u) = 0
    BY <2>1, PicsOf DEF PlateLeft
  <2>4. u.pics # <<>> => i[s] > 0
    BY <2>2, PicsOf
  <2> QED BY <1>1, <1>4, <2>1, <2>2, <2>3, <2>4 DEF Progress, DescribedIn
<1>7. /\ results' \in Seq(Result)
      /\ \A j \in 1 .. Len(results') : results'[j] = r \/ (j \in 1 .. Len(results) /\ results'[j] = results[j])
  <2>1. CASE results' = results
    BY <1>3, <2>1
  <2>2. CASE results' = Append(results, r)
    BY <1>3, <2>2
  <2> QED BY <1>1, <1>4, <2>1, <2>2
<1>8. TypeOK'
  BY <1>1, <1>7 DEF TypeOK
<1>9. \A x \in Sessions : Progress(x)'
  <2>1. ASSUME NEW x \in Sessions PROVE Progress(x)'
    <3>1. Progress(x)
      BY DEF PicInv
    <3> QED BY <1>1, <1>2, <3>1 DEF Progress
  <2> QED BY <2>1
<1>10. AllHeld' /\ Described'
  BY <1>1, <1>5, <1>6, <1>7 DEF PicInv, AllHeld, Described
<1>11. Unrepeated'
  BY <1>1, <1>2 DEF PicInv, Unrepeated, OnceEach, FilesKnown, NotYet, OneEach
<1> QED BY <1>1, <1>8, <1>9, <1>10, <1>11 DEF PicInv

LEMMA RestartKeeps == ASSUME PicInv, Restart PROVE PicInv'
<1>1. TypeOK
  BY DEF PicInv
<1>2. /\ parsing' = [x \in Sessions |-> None] /\ results' = <<>> /\ res' = [x \in Sessions |-> NoResult]
      /\ i' = [x \in Sessions |-> 0] /\ aligned' = [x \in Sessions |-> TRUE]
      /\ uploads' = uploads /\ received' = received /\ files' = files /\ repeated' = repeated
  BY DEF Restart, Idle
<1>3. TypeOK'
  <2>1. i' \in [Sessions -> 0 .. MaxPics]
    BY <1>2, PicturesAssumption
  <2>2. res' \in [Sessions -> Result]
    BY <1>2, NoResultTyped
  <2>3. results' \in Seq(Result)
    BY <1>2
  <2> QED BY <1>1, <1>2, <2>1, <2>2, <2>3 DEF TypeOK
<1>4. AllHeld'
  <2>1. NoResult.picName = <<>>
    BY DEF NoResult
  <2>2. \A x \in Sessions : HeldIn(res'[x], files')
    BY <1>2, <2>1, NothingHeld
  <2>3. Len(results') = 0
    BY <1>2
  <2> QED BY <2>2, <2>3 DEF AllHeld
<1>5. Described'
  BY <1>2 DEF Described
<1>6. \A x \in Sessions : Progress(x)'
  BY <1>2 DEF Progress
<1>7. Unrepeated'
  BY <1>2 DEF PicInv, Unrepeated, OnceEach, FilesKnown, NotYet, OneEach
<1> QED BY <1>2, <1>3, <1>4, <1>5, <1>6, <1>7 DEF PicInv

LEMMA PicInvariance == Spec => []PicInv
<1>1. ASSUME PicInv, UNCHANGED vars PROVE PicInv'
  BY <1>1 DEF vars, PicInv, TypeOK, Progress, AllHeld, Described, Unrepeated, OnceEach, FilesKnown,
              NotYet, OneEach
<1>2. PicInv /\ [Next]_vars => PicInv'
  BY <1>1, ReceiveKeeps, WriteKeeps, OpenFailsKeeps, DoneKeeps, RestartKeeps DEF Next
<1> QED BY InitPicInv, <1>2, PTL DEF Spec

\* Every picture a recorded result names is in its file up to the first file
\* that could not be opened, for any uploads, repetitions and restarts.
THEOREM PicturesAreStored == Spec => []StoredUpToFailure
<1>1. PicInv => StoredUpToFailure
  <2> SUFFICES ASSUME PicInv, NEW j \in DOMAIN results, NEW n \in DOMAIN results[j].picName,
                      n \notin results[j].short, results[j].failed = None \/ n < results[j].failed
               PROVE  \E k \in DOMAIN files[results[j].picName[n]] :
                          files[results[j].picName[n]][k] = [of |-> results[j].of, index |-> n, whole |-> TRUE]
    BY DEF StoredUpToFailure
  <2>1. j \in 1 .. Len(results) /\ results[j] \in Result /\ files \in [Name -> Seq(Written)]
    BY DEF PicInv, TypeOK
  <2>2. PICK r \in Result : r = results[j]
    BY <2>1
  <2>3. n \in 1 .. Len(r.picName) /\ r.picName[n] \in Name
    BY <2>2, NamesOf
  <2>4. PICK k \in 1 .. Len(files[r.picName[n]]) :
            files[r.picName[n]][k] = [of |-> r.of, index |-> n, whole |-> TRUE]
    BY <2>1, <2>2, <2>3 DEF PicInv, AllHeld, HeldIn
  <2> QED BY <2>1, <2>2, <2>3, <2>4
<1> QED BY <1>1, PicInvariance, PTL

\* No two uploads write to one file unless one of them is repeated or two of one
\* car begin in the same second.
THEOREM FilesHoldOnePicture == Spec => []OnePictureUnlessRepeated
<1>1. PicInv => OnePictureUnlessRepeated
  BY DEF PicInv, OnePictureUnlessRepeated, Unrepeated, OneEach
<1> QED BY <1>1, PicInvariance, PTL

\* What clients are told of an upload is the time of its first picture, all of
\* its pictures and the name of its video, but for the odd uploads.
THEOREM ResultsAreDescribed == Spec => []DescribedUnlessOddUpload
<1>1. PicInv => DescribedUnlessOddUpload
  BY DEF PicInv, TypeOK, DescribedUnlessOddUpload, Described, DescribedIn
<1> QED BY <1>1, PicInvariance, PTL
=============================================================================
