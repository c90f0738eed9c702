---------------------------- MODULE PictureFiles ----------------------------
(***************************************************************************)
(* The pictures of an upload on disk (CProtocol::ParseSnapResultPic).      *)
(*                                                                         *)
(* A whole upload (SessionReads) holds a header and pictures, each with    *)
(* its time and its size.  Each is written to a file of its own, which is  *)
(* opened with O_APPEND and named for the camera, the plate, the times and *)
(* the picture's index.  The pointer into the upload passes a picture only *)
(* when its file could be opened: otherwise everything behind it is read   *)
(* from the wrong place.                                                   *)
(*                                                                         *)
(* The result is recorded in memory, the files outlive the process, and a  *)
(* device may send an upload again.                                        *)
(***************************************************************************)
EXTENDS Naturals, Sequences

CONSTANTS Sessions,    \* sessions of capture devices, each on its own thread
          Cars,        \* camera and plate, as they appear in the name of a file
          Times,       \* seconds, the resolution of a name
          MaxPics,     \* bound: pictures of an upload (picName has room for 24)
          MaxUploads,  \* bound: different uploads
          MaxReceived  \* bound: uploads received, repeated ones included

ASSUME PicturesAssumption ==
    /\ Times \subseteq Nat \ {0}
    /\ MaxPics \in Nat /\ MaxUploads \in Nat /\ MaxReceived \in Nat

None == 0
Misread == 0            \* a time read from the wrong place

VARIABLES uploads,   \* the uploads made by devices
          received,  \* uploads received, as a count
          parsing,   \* the upload each session is writing to disk, None: none
          i,         \* pictures of it done with
          aligned,   \* the pointer is at the beginning of a picture
          res,       \* the result each session is filling in
          results,   \* the results recorded
          files,     \* what has been written to each file, in order
          repeated   \* ghost: an upload, or another of the same car and second, came again

vars == <<uploads, received, parsing, i, aligned, res, results, files, repeated>>

Ids == 1 .. MaxUploads
Index == 1 .. MaxPics

\* plate, vedio: the lengths of the plate number and of the name of the video;
\* pics: the time of each picture.
Upload == [car : Cars, plate : 0 .. 1, vedio : 0 .. 1,
           pics : UNION {[1 .. n -> Times] : n \in 0 .. MaxPics}]

Name == [car : Cars, dir : Times, time : Times, index : Index]

\* A write: picture `index` of an upload, whole or in part, or something else.
Written == [of : Ids, index : 0 .. MaxPics, whole : BOOLEAN]

\* tail: characters of the plate number behind the name of the video.
\* failed: index of the first picture whose file was not opened (None: no such);
\* short: pictures written in part.  Both are ghosts.
Result == [of : Ids \cup {None}, capTime : Times \cup {Misread}, tail : 0 .. 1,
           picName : UNION {[1 .. n -> Name] : n \in 0 .. MaxPics},
           failed : 0 .. MaxPics, short : SUBSET Index]

TypeOK ==
    /\ uploads \in Seq(Upload)
    /\ received \in 0 .. MaxReceived
    /\ parsing \in [Sessions -> Ids \cup {None}]
    /\ i \in [Sessions -> 0 .. MaxPics]
    /\ aligned \in [Sessions -> BOOLEAN]
    /\ res \in [Sessions -> Result]
    /\ results \in Seq(Result)
    /\ files \in [Name -> Seq(Written)]
    /\ repeated \in BOOLEAN

NoResult == [of |-> None, capTime |-> Misread, tail |-> 0, picName |-> <<>>,
             failed |-> None, short |-> {}]

Idle == [s \in Sessions |-> None]

Init ==
    /\ uploads = <<>>
    /\ received = 0
    /\ parsing = Idle
    /\ i = [s \in Sessions |-> 0]
    /\ aligned = [s \in Sessions |-> TRUE]
    /\ res = [s \in Sessions |-> NoResult]
    /\ results = <<>>
    /\ files = [f \in Name |-> <<>>]
    /\ repeated = FALSE

-----------------------------------------------------------------------------

\* tmpStr is cleared before the plate number is copied into it and not before
\* the name of the video is: what is longer of the plate number stays.
PlateLeft(u) == IF u.plate > u.vedio THEN 1 ELSE 0

\* Mutant: what was left of the plate number always shows.
MutParseHeader(u, id) ==
    [NoResult EXCEPT !.of = id,
                     !.capTime = IF u.plate = 0 /\ u.pics # <<>> THEN u.pics[1] ELSE Misread,
                     !.tail = u.plate]

\* The result before its first picture.  ParseSnapResult, of the first packet of
\* the upload, did not step over the plate number: what it read behind it is
\* misread unless there is none, and of that the time is still there.
ParseHeader(u, id) ==
    [NoResult EXCEPT !.of = id,
                     !.capTime = IF u.plate = 0 /\ u.pics # <<>> THEN u.pics[1] ELSE Misread,
                     !.tail = PlateLeft(u)]

SameNames(u, v) == u.car = v.car /\ u.pics # <<>> /\ v.pics # <<>> /\ u.pics[1] = v.pics[1]

\* An upload is whole: a new one, or one that the device has sent before.
Receive(s) ==
    /\ parsing[s] = None
    /\ received < MaxReceived
    /\ received' = received + 1
    /\ \E id \in 1 .. Len(uploads) + 1, u \in Upload :
          /\ IF id <= Len(uploads)
                THEN u = uploads[id] /\ UNCHANGED uploads /\ repeated' = TRUE
                ELSE /\ id \in Ids
                     /\ uploads' = Append(uploads, u)
                     /\ repeated' = (repeated \/ \E j \in DOMAIN uploads : SameNames(u, uploads[j]))
          /\ parsing' = [parsing EXCEPT ![s] = id]
          /\ res' = [res EXCEPT ![s] = ParseHeader(u, id)]
    /\ i' = [i EXCEPT ![s] = 0]
    /\ aligned' = [aligned EXCEPT ![s] = TRUE]
    /\ UNCHANGED <<results, files>>

Pics(s) == uploads[parsing[s]].pics

\* The time read for the next picture: any, when it is read from a picture's bytes.
TimesRead(s) == IF aligned[s] THEN {Pics(s)[i[s] + 1]} ELSE Times

\* Mutant: the index is not part of the name.
MutNameOf(s, t) ==
    [car |-> uploads[parsing[s]].car, dir |-> Pics(s)[1], time |-> t, index |-> 1]

\* The first picture's time, read in the right place, names the directory.
NameOf(s, t) ==
    [car |-> uploads[parsing[s]].car, dir |-> Pics(s)[1], time |-> t, index |-> i[s] + 1]

\* What the loop has set of the result by the time it opens the file.
Named(s, t) ==
    [res[s] EXCEPT !.capTime = IF i[s] = 0 THEN t ELSE @,
                   !.picName = Append(@, NameOf(s, t))]

Looping(s) == parsing[s] # None /\ i[s] < Len(Pics(s))

Counted(s) ==
    /\ i' = [i EXCEPT ![s] = @ + 1]
    /\ UNCHANGED <<uploads, received, parsing, results, repeated>>

\* Mutant: O_TRUNC instead of O_APPEND.
MutWritePicture(s) ==
    /\ Looping(s)
    /\ \E t \in TimesRead(s), whole \in BOOLEAN :
          /\ files' = [files EXCEPT ![NameOf(s, t)] =
                          <<[of |-> parsing[s], whole |-> whole,
                             index |-> IF aligned[s] THEN i[s] + 1 ELSE 0]>>]
          /\ res' = [res EXCEPT ![s] =
                        [Named(s, t) EXCEPT !.short = IF whole THEN @ ELSE @ \cup {i[s] + 1}]]
    /\ Counted(s)
    /\ UNCHANGED aligned

\* The file is opened and written to; how much write() wrote is not looked at.
WritePicture(s) ==
    /\ Looping(s)
    /\ \E t \in TimesRead(s), whole \in BOOLEAN :
          /\ files' = [files EXCEPT ![NameOf(s, t)] =
                          Append(@, [of |-> parsing[s], whole |-> whole,
                                     index |-> IF aligned[s] THEN i[s] + 1 ELSE 0])]
          /\ res' = [res EXCEPT ![s] =
                        [Named(s, t) EXCEPT !.short = IF whole THEN @ ELSE @ \cup {i[s] + 1}]]
    /\ Counted(s)
    /\ UNCHANGED aligned

\* The file cannot be opened: the pointer stays where it is.
OpenFails(s) ==
    /\ Looping(s)
    /\ \E t \in TimesRead(s) :
          res' = [res EXCEPT ![s] =
                     [Named(s, t) EXCEPT !.failed = IF @ = None THEN i[s] + 1 ELSE @]]
    /\ aligned' = [aligned EXCEPT ![s] = FALSE]
    /\ Counted(s)
    /\ UNCHANGED files

\* The upload is done with; handle_read records the result if the device is in
\* a mission.
Done(s) ==
    /\ parsing[s] # None
    /\ ~Looping(s)
    /\ parsing' = [parsing EXCEPT ![s] = None]
    /\ results' \in {results, Append(results, res[s])}
    /\ UNCHANGED <<uploads, received, i, aligned, res, files, repeated>>

\* The process ends, of itself when a size read in the wrong place leads out of
\* the upload, and is started again.  The files stay.
Restart ==
    /\ parsing' = Idle
    /\ results' = <<>>
    /\ res' = [s \in Sessions |-> NoResult]
    /\ i' = [s \in Sessions |-> 0]
    /\ aligned' = [s \in Sessions |-> TRUE]
    /\ UNCHANGED <<uploads, received, files, repeated>>

Next ==
    \/ \E s \in Sessions : Receive(s) \/ WritePicture(s) \/ OpenFails(s) \/ Done(s)
    \/ Restart

Spec == Init /\ [][Next]_vars

-----------------------------------------------------------------------------
(* Properties.                                                             *)

\* A recorded result names files that hold its pictures, whatever was written
\* to them before or since: all of them up to the first one whose file could
\* not be opened, but for those the disk took in part.  (protocol.cpp:362-373)
StoredUpToFailure ==
    \A r \in {results[j] : j \in DOMAIN results} : \A n \in DOMAIN r.picName \ r.short :
        r.failed = None \/ n < r.failed =>
            \E k \in DOMAIN files[r.picName[n]] :
                files[r.picName[n]][k] = [of |-> r.of, index |-> n, whole |-> TRUE]

\* No file gets a second picture behind the first, misread times and failed
\* opens included, unless an upload comes again or two of one car begin in the
\* same second: then the file is both pictures, of which a viewer shows the
\* first.  (protocol.cpp:338-362)
OnePictureUnlessRepeated == TypeOK /\ (~repeated => \A f \in Name : Len(files[f]) <= 1)

\* Clients are told the time of the first picture and the name of the video,
\* although ParseSnapResult reads both in the wrong place before; except for an
\* upload without pictures, and for a video whose name is shorter than the
\* number of the plate.  (protocol.cpp:157, 274, 334)
DescribedUnlessOddUpload ==
    \A r \in {results[j] : j \in DOMAIN results} : LET u == uploads[r.of] IN
        /\ u.pics # <<>> => r.capTime = u.pics[1] /\ Len(r.picName) = Len(u.pics)
        /\ u.plate <= u.vedio => r.tail = 0
=============================================================================
