# A TLA+ model of ipc-cam-schedule

The program in `src/` is a server (boost::asio, several threads) that lets *capture devices*
(fixed cameras or terminals that report illegal parking and the like) use *speed-dome cameras*
in turns. Cameras and devices are configured into numbered *missions* (groups). A device that
logs in is granted a free camera of its mission; a loop in the server then turns the camera
from preset to preset, tells the device at each preset what snapshot to take, and gives the
camera back when the last preset has been held. *Configuration clients* on a second port edit
cameras, devices and groups, and are sent every result the devices upload.

This directory holds the specifications of that behaviour, the TLC configurations that check
them on small instances, and TLAPS proofs for instances of every size. Paths are relative to
`src/`; a bare file name is the one of that name in `src/src/` or `src/inc/`.

## 1. Inventory

| component | code | state | operations |
|---|---|---|---|
| camera pool of a mission | `CMission` in `mission.cpp` | array `SpdDomeCam`, `totalSpdDomeCam`, cursor `curSpdDomeCam`, mutex `mu_SDC`; `isUsing` in each camera object | `addSDC`, `removeSDC`, `updateSDC`, `getFreeSDC` |
| mission loop | `CCaptureDevice` in `CaptureDevice.cpp` | `run`, `missionStatus`, `SpdDomeCam`, `missionNum`; `curPTZposion` of the camera; `turnPresetFailedCnt` (one static); timer and io_service | `start`, `stop`, `MissoinLoop`, `reload_Preset`, `threeD_Request` |
| capture-device session | `CCaptureDevSession` in `session.h` | socket, read buffer, picture buffer and length, its `CCaptureDevice` | `handle_read` by message type (login, heartbeat, result, picture, 3D), `handle_write` |
| pushing results | `update` in `config_session.h` | `G_illegalCapVectorMap`, `curCapResult` | append, walk |
| configuration session | `CConfigSession` in `config_session.h` | `run`, 3 s timer, `data_write` | `start`, `updateMissionInfo`, `update`, `handle_read` (types 4, 6 to 9), `handle_write` |
| mission registry | `G_MissionMap`, `G_missionUnstart`, `MissionMatch`, `MissionUpdate*` in `mission.cpp` | missions by number, list of the ungrouped, mutex `mu`; device entries `capDev` | add, edit, regroup a camera or a device, update an entry |
| persistence | `sql_conn.cpp`, `mission_config.cpp` | SQLite file `ms.db` | load at start, insert, update |
| camera driver | `CHIKCam`, `CSpeedDomeCam` | login handle, presets, `isUsing`, `curPTZposion` | `Init`, `loginOut`, `TurnPTZPreset`, `PTZSelZoomIn` |
| device protocol | `protocol.cpp` | picture files | parse uploads and store their pictures; other messages |
| configuration protocol | `protocol_CfgClient.cpp` | none | magic search, CRC, pack and parse |
| server | `server.h`, `service_pool.h` | two acceptors, pool of io_services | accept, choose an io_service |
| test client | `client.cpp` | none of interest | load generator |
| vendored SDK headers and unused code | `HCNetSDK.h`, `otlv4.h`, ... | | |

**Threads.** The two acceptors and the sessions run on the io_services of the pool, one thread
each; all handlers of one session run on one io_service, so they never overlap one another. Every
mission loop has an io_service and a thread of its own (`CaptureDevice.cpp:213-239`). Every
configuration session that was asked for updates has a timer thread besides its reads.

**Interactions.** A session calls `MissionMatch` and `getFreeSDC` (registry and pool) and `start`
and `stop` (loop). Session and loop share `run`, `missionStatus`, `SpdDomeCam` and the timer without
a lock. All loops and all scans of the pool share `isUsing`: `getFreeSDC` writes BUSY under `mu_SDC`,
the loops and `stop` write FREE without it. Sessions append results to a global vector without a lock;
the timer threads of the configuration sessions iterate over it, over the map of missions and over
the lists, while requests of other clients change them under a different mutex.

**Hard behaviours.**

* a scan of the pool while cameras are given back without the mutex, and with a cursor that
  removals have left behind;
* the heartbeat against the loop: a mission's end is two writes and its beginning is two (camera, then
  status), and the heartbeat replaces the pointer that the loop's writes go through;
* failures: the fourth failed turn frees a camera whose iteration goes on; a disconnection frees
  it and deletes the session under the loop;
* a refused heartbeat that goes on with the old camera;
* a second `start` on one timer: replacing or re-arming a timer completes the waits of the other loop;
* a camera turned from two threads, by the loop and by the session's messages;
* reads that accumulate on one buffer, handlers that come for a deleted session;
* updates of a client through one write buffer, over structures that change under the walk, and
  results appended under a walk whose counter runs at double speed;
* database and memory updated one after the other, with statements that fail and the process
  ending in between; a camera in use that is regrouped;
* entries of devices that several threads write and a walk "repairs" without a lock;
* pictures whose file cannot be opened; uploads sent again; accepts that fail.

**What makes each component correct.**

* *Pool*: a camera is granted to one session at a time, is BUSY exactly while somebody has it,
  is refused only if none is free, and is granted in turn; no empty slot is dereferenced.
* *Loop and sessions*: no two loops turn one camera; a granted camera comes back; a preset index
  exists; a device with a camera has a loop; a preset is held as long as configured; the camera looks
  where the device was told it looks; all loops end after a disconnection.
* *Reads*: the session always has a read or a write outstanding; a picture is recorded whole; the
  session of a device that has gone is deleted.
* *Results*: every result reaches every client.
* *Registry*: a camera or device is in exactly one list at rest and in some list at any time;
  memory, object and database agree; a physical camera has one driver; clients are told of a device
  what was granted to it.
* *Configuration session*: what is sent is what was packed; an update is complete; the client is
  heard; the threads end with the client.
* *Uploads*: a stored picture is the one that was sent, and the result describes it.
* *Server*: a later connection is accepted after an earlier failure; sessions are spread evenly.

The hazards of this code, each at its line, are in `PROJECT.json` with the properties that
watch them.

## 2. Modules

| module | what it is |
|---|---|
| `SDCPool` | the pool, `getFreeSDC` one slot at a time, unlocked release |
| `CameraLease` | what the pool promises: a grant is one atomic step |
| `SDCPoolFair` | `SDCPool` with a history of who was granted past whom |
| `DeviceMission` | sessions and mission loops over the cameras |
| `PresetView` | extends `DeviceMission` by where each camera looks |
| `LoopTimer` | several loops of one device on one timer, in discrete time |
| `SessionReads` | reads, writes, handlers and pictures of a device session |
| `ResultPush` | the walk that sends results to a configuration client |
| `ConfigWalk` | extends `ResultPush` by the walk over missions and lists, while they change |
| `ConfigSession` | reads, writes, update threads and the write buffer of a client session |
| `MissionGroups` | registry, ungrouped list and database, with restarts |
| `PresetRows` | extends `MissionGroups` by the presets in memory and in the table |
| `CameraObjects` | one physical camera regrouped while missions drive it |
| `DeviceEntries` | what clients are told of devices |
| `PictureFiles` | uploads as files and as results |
| `Accept` | the accept loops and the pool of io_services |
| `SDCPoolProofs`, `DeviceMissionProofs`, `SessionReadsProofs`, `ResultPushProofs`, `MissionGroupsProofs`, `CameraObjectsProofs`, `DeviceEntriesProofs`, `PictureFilesProofs` | theorems and proofs (section 4) |
| `MC*` | TLC instances: constants, symmetry, constraint |

`SDCPool` implements `CameraLease` (`RefinesLease`). `DeviceMission` uses what that shows: its
`FreeSDC` chooses a camera in one step, and so do `LoopTimer` and `CameraObjects`. `SDCPool` has the
clients keep a contract (give back only what you were granted); `DeviceMission` has them as they are
written. `PresetView` is composed with `DeviceMission`, `ConfigWalk` with `ResultPush` and `PresetRows` with
`MissionGroups`: each extends the other module and adds to its actions what it leaves out.

Where the code breaks what it is there for, the models do not assume it away: a ghost variable
(`stray`, `moved`, `lost`, `behind`, `overlapped`, ...) records the event, and the properties, named
`...UnlessStray` and the like, say that these events are the only ways it goes wrong and that
whatever they have not touched is safe. Ghosts are marked as such where they are declared; none
enables or disables a step of the program, but for `holds` of `SDCPool`, which is the contract above.

### SDCPool

Variables have the names of the members; `pc`, `i`, `j` are the control point and the locals of
`getFreeSDC` per thread. `Lock` takes `mu_SDC` and sets `j` from the cursor (`mission.cpp:668-674`);
`ExamineBusy` and `ExamineFree` look at one slot (`NextSlot` is the wrap-around of 676-681);
`Claim` is 689-693 and `Refuse` is the `-1`. `addSDC`, `removeSDC` and `updateSDC` hold `mu_SDC`
throughout, so each is one step, enabled while nobody holds it. `Release` is the loop's
`isUsing = FREE` and takes no mutex. A camera is an object (`new CHIKCam`), not a number: two objects
can have one number, as `addSDC` makes no test. `updateSDC` changes the list only with
`missionNum` -1; `updateSDC(n, -1)` has the steps of `removeSDC(n)`. Ghosts: `holds` (granted and not
given back), `freeAtLock` (cameras FREE when the scan took the mutex).

### DeviceMission

Session fields (`up`, `loggedIn`, `group`, `missionNum`, `cam`, `status`, `run`) are those of
`CCaptureDevSession` and its `capDev`; `pc` is the control point of the loop. A handler of the
session is one step against the loop, which is cut wherever it reads or writes what
the session also uses. Only the heartbeat of a device that has a loop already is cut as well: `getFreeSDC` replaces the
pointer (`NextMission`), the status follows in a step of its own (`MissionReady`), and the loop goes on in
between (`changing`; other handlers of the session wait for this one, `Serving`):

| action | code |
|---|---|
| `Connect` | `server.h:65-87`, constructor `CaptureDevice.h:31-41` |
| `Login` | `session.h:134-218` |
| `NextMission`, `MissionReady` | heartbeat after a mission, `session.h:226-243` and `244-255` |
| `FirstMission` | heartbeat without a camera, `session.h:257-297` |
| `PictureReceived` | `session.h:94-127` |
| `Regroup` | `mission.cpp:188-251` as the session sees it |
| `Disconnect` | read or write error, `session.h:509-563`, with `stop` (`CaptureDevice.cpp:270-282`) |
| `LoopExit`, `Fire` | `CaptureDevice.cpp:62-99` |
| `TurnOk`, `TurnFail`, `FailFree` | `CaptureDevice.cpp:101-130` |
| `Send`, `HoldEnd`, `Release` | `CaptureDevice.cpp:148-208` |

The code breaks "one loop per camera" in five places, which `stray` records:

1. a heartbeat that `getFreeSDC` refuses starts a mission on the last camera (`session.h:240-250`);
2. the fourth failed turn frees the camera and the iteration goes on (`CaptureDevice.cpp:109`);
3. a disconnection frees the camera while an iteration is under way, or after the mission's end when
   the camera is in use by somebody else (`CaptureDevice.cpp:277`);
4. a heartbeat between `missionStatus = MISSION_COMPLETED` and `isUsing = FREE` (`CaptureDevice.cpp:204-205`),
   or between the same two writes after the fourth failed turn (`109`): the pointer replaced there (`session.h:240`), the loop
   frees the new camera and the old one stays BUSY; the status written there (`244`), the loop frees a camera that
   has a mission again;
5. the other way round, the end of an iteration that went on after 2 between the heartbeat's two writes (`240` and `244`): it
   frees the new camera, which the mission that is about to begin drives.

A pointer replaced in the middle of `Send` or `HoldEnd`, which read it more than once, leaves what one replaced before or
after does, but for the position of the old camera, which is stray by then.

Abstractions. `turnPresetFailedCnt` is incremented in one step (it is a plain static int: a lost
increment would only delay event 2). `CHIKCam::Init` never answers -1, because it tests an unsigned
`lUserID` for `< 0`, so the branch at `CaptureDevice.cpp:91-99` is dead and a failed login shows as
failing turns. The loop thread of a deleted session reads freed memory; the
model takes the outcome in which it reads what was left there, the mildest. A second
`start` in the life of a session is left out (`NotStarted`): it is the subject of `LoopTimer`. Cameras
being added and removed is left to `SDCPool`.

### PresetView

Adds where each camera looks (`faces`), the preset of the last schedule sent (`sched`) and what
`reload_Preset` has chosen (`reloading`). A close-up (type 7, `threeD_Request`) and a result (type 9,
`reload_Preset`) come between any two steps of any loop and go through the session's pointer, whoever
drives the camera by now. `reload_Preset` is two steps, its choice of the preset and its turn
(`CaptureDevice.cpp:246-250`), because the loop may go on in between; `late` records that it did. `moved` records
the cameras that do not look at what was scheduled: after a close-up, a failed turn, a reload that came
between a turn and its schedule or too late, or a grant to a loop that was about to send. All of this may also come between the heartbeat's two writes, which
`MissionReady` keeps apart here too.

### LoopTimer

`start` makes a thread with an io_service and a timer of its own, which replaces the one the member
`timer` points to; a thread is numbered by its `start`. `pend` counts the waits on the current timer, `ready` the handlers an
io_service has to run. `NewTimer` destroys the old timer and `ReArm` moves its expiry
(`expires_at`): both complete all pending waits, whose handlers, ignoring the error code, iterate at
once. `LoopExit` does not arm again, so that `run` ends when the handlers are used up (`ThreadEnd`).
Time is counted in ticks: `Tick` passes when nobody has anything to do at once, calls of the SDK take up to `MaxDelay`,
the last hold sleeps `Hold`. `MaxLag` and `MaxLead` cut off how late or how far ahead the timer can
be. A handler that grants a camera is two steps, as in `DeviceMission`: the pointer is replaced, and `MissionReady` writes the status
and, at a login and at the first heartbeat, starts the loop. `lost` are cameras still BUSY when a login replaced the pointer to them.

### SessionReads

The stream of a device is a sequence of units: a message, or an upload's first and further parts.
`waiting` and `writing` count operations on the socket, `queue` holds completed operations whose handlers have not run.
`AsyncRead` is `start()` and the re-arming at the end of `handle_read`; every answer adds an operation,
and its completion another read (`handle_write`, `session.h:540-545`). A read fills `data_` when it completes (`Fill`), its
handler looks at it later (`Content`): a second read in between overwrites it, which `overlapped`
records. `handle_read` looks at the first bytes of what it finds only, and takes them for a head whatever they are: a part of a picture
can be taken for any message, a login and an upload included (`Message`, `HandleUpload`), with any length (`FrameSizes`,
refused above 10 MB, here `MaxFrame`), and what is behind the first head in a read is not looked at. `lost` records the uploads whose
first part was read and began no picture: it was behind another unit, in the middle of a picture, or its length was refused. Their parts may
then begin pictures of their own. `ResultWhole` says that this and overlapped reads are all that can go wrong: a
picture recorded is a whole upload from its first part on, or begins inside an upload in `lost`.
The length field of a frame either counts itself or not (`HandleUpload`); the end is found with `>`, one
unit late. `HandleError` deletes the session; outstanding operations then complete with an error, on freed memory.

### ConfigSession

`handle_read` does not read again; only a completed write does, so a client is heard again
once the first update has gone out. Type 4 starts a thread (`HandleStart`), all threads of a session run one
io_service, `timer_io`, and share the timer: the waits behave as in `LoopTimer`. `Lock`, `Pack` and `Write` are
`update` message by message under `cfg_mtx`; `data_write` holds the message packed last, and a write
sends what is in the buffer when the socket takes it (`Out`), which `garbled` compares with what it was started for;
`behind` records that a write had to wait for the client. `HandleError` clears `run` and deletes nothing.

### ResultPush and ConfigWalk

`ResultPush` is one client's walk over `G_illegalCapVectorMap` (`config_session.h:207-236`), one element per step,
with appends (`session.h:104-121`) between any two. `Skip` adds 2 to the counter, as the code
does (loop header and branch). An append that reallocates the vector leaves the iterator dangling;
the model takes the outcome in which it still stands at its element.

`ConfigWalk` is the whole `update` (`config_session.h:91-236`): a message for each mission, then device and
camera lists of the missions and of the ungrouped, slot by slot, then the results. `TestSlot` compares the slot's
index with the list's total, `PackItem` reads the slot later. Regrouping is `RegroupAdd`, then `RegroupRemove` overwriting one slot per step; `MissionAdd`
inserts into the map in order of its keys. Neither holds `cfg_mtx`, which `update` does. A slot that is
empty when it is read, or one whose pointer is being overwritten, ends the process (`Crash`). `moved` and `missed` record the items a walk was
disturbed at. Adding and editing cameras hold `cfg_mtx` and cannot come under a walk; they are left out, and one slot is
packed in one step.

### MissionGroups

Where an item (a camera or a capture device) belongs is kept three times: `db` is the missionID of
its row, `objs[l][n]` the objects numbered `n` on list `l` (`NoGroup` is `G_missionUnstart`), and the
elements of that sequence are their `missionNum`. `missions` holds the keys of `G_MissionMap`,
`dbMissions` the rows of the table. Every request is a first action with its statement on the
database, which may fail, and one or two actions on the lists:

| request | actions | code |
|---|---|---|
| type 6, add a camera | `AddCam`, `AddCamMem` | `config_session.h:258-269`, `sql_conn.cpp:598-683` |
| type 7, edit a camera | `EditCam`, `EditCamList`, `EditCamUnstart` | `config_session.h:270-291` |
| type 8, regroup | `Regroup`, `RegroupAdd`, `RegroupRemove` | `config_session.h:292-328`, `mission.cpp:123-251` |
| type 9, add a mission | `AddGroup` (map), `AddGroupDb` (table) | `config_session.h:337-348`, `mission.cpp:14-26` |
| end of the process and start | `Restart` | `mission_config.cpp:9-33`, `sql_conn.cpp:13-123` |

`mu` and `cfg_mtx` are the mutexes of the code, with the scope they have there: `mu` around the regrouping
and `MissionUpdateSDC`, `cfg_mtx` around the memory part of types 6 and 7; statements run
under none. `addSDC`, `removeSDC` and `updateSDC` act on the first object of their number, as
`SDCPool` shows them to. `Load` is the start: a row whose mission is unknown gives an ungrouped object,
labelled so, without a change of the row.

The ghost `stray` records the items that the code is known to leave in disagreement, until the
next start: a statement that fails; a request on an item another request is at work on; adding a number
that is in use, or one with a mission; an edit whose missionNum is not the item's mission (with -1 an
ungrouped camera vanishes from memory, with another mission it is on two lists); a regrouping whose origin
is not where the item is, or from one mission to another; adding a mission that rows already name.

Abstractions. What `getSDC` and `getCapDev` return when nothing matches is undefined; the model
takes NULL, and the end of the process. Order on a list is kept only among objects of one number. Presets
are in `PresetRows`; other edited fields are left out. Login of a device, which changes the
device's own copy of its mission, is in `DeviceMission`.

### PresetRows

Adds the rows of the table `preset` and the presets of each object. An add is one statement for the camera
(`InsertCam`) and one per preset (`InsertPreset`), each of which may fail and between which the process may end; the table
has no key. Loading adds the rows one by one to the first object of the camera, and `presetTotal`
starts again at zero after `Width` of them (`Loaded`; 256 in the code, 3 in the run). An edit changes memory only
(`sql_conn.cpp:789` is compiled out). A regrouping of a camera copies the presets to the new object (`CopyPresets`) and drops them
with the old one (`DropPresets`); one of a device, which the run makes too, leaves them alone.
`edited` and `again` record cameras edited since the start, and added when something of them was stored.

### CameraObjects

One physical camera as a sequence of objects: `RegroupAdd` makes a new one, FREE, on the other
list, `RegroupRemove` takes the old one off its list, where sessions still have a pointer to it. Grants are from
mission lists only. `moved` are the objects taken off their list while driven.

### DeviceEntries

An entry (`capDev`) is written by grants (`updateCapdev`, also after a refused heartbeat), moved by regrouping
(`addCapDev` and `removeCapDev`, which shifts and so hands slots over from device to device), never by a
disconnection, and by the update walk: `PackTest` finds an entry without a camera number and `PackWrite` later writes
"-1" into that slot, whoever is in it by then. The shift and the search of `updateCapdev` are one step each.

### PictureFiles

An upload has a car, whether its plate number and the name of its video are long, and the times of its pictures.
`Receive` is the header (both passes over it: `ParseSnapResult` reads it in the wrong place first), `WritePicture` and
`OpenFails` one round of the loop over pictures: the pointer moves on only when the file could be opened
(`aligned`), from then on times are read from anywhere. Files are opened to append, under a name with a
resolution of one second (`NameOf`). `Done` records the result or not, `Restart` loses results and keeps files.
Bytes that are misread never come into step again in the model.

### Accept

One listening port of either type: `backlog` is the kernel's, `accept` the one asynchronous accept. The
session for it is made before it completes, on the next io_service of the round robin (`After`).
`AcceptHandler` runs on io_service 0, which also runs handlers of sessions (`Begin`, `End`). After an error `handle_accept`
deletes the session and does not accept again, `handle_accept_cfg` does.

## 3. Runs

| run | instance | what it shows | distinct states |
|---|---|---|---|
| `pool` | `MCSDCPool`: 3 sessions, 3 camera objects of 2 numbers, 3 slots | no camera lost or missed, no empty slot dereferenced, scans end, no overtaking, `RefinesLease` | 233 000 |
| `device` | `MCDeviceMission`: 2 sessions, a camera with 1 preset and one with none | BUSY marks follow the loops, a device with a camera has a loop, cameras come back | 728 000 |
| `view` | `MCPresetView`: 3 sessions, 1 camera with 2 presets | one loop per camera, presets exist, the camera faces what is scheduled | 1.3 million |
| `loop` | `MCLoopTimer`: 2 starts, cameras with 1 and 2 presets | one iteration per start, presets are held, cameras come back, loops end | 414 000 |
| `reads` | `MCSessionReads`: 4 units, 3 to an upload, 2 to a read | reads outstanding, whole pictures, deletion | 919 000 |
| `config` | `MCConfigSession`: 2 update threads | messages as packed, the client is heard, threads end | 252 000 |
| `groups` | `MCPresetRows`: 2 clients, 1 camera, 1 device, 1 mission besides the ungrouped | row, list, label and presets agree | 2.4 million |
| `objects` | `MCCameraObjects`: 4 sessions, 2 missions, 7 objects | one driver per camera unless regrouped in use | 4 200 |
| `accept` | `MCAccept`: 3 clients, 2 io_services, 2 errors | sessions spread, clients served | 26 000 |
| `walk` | `MCConfigWalk`: 2 cameras, 1 device, 2 missions, 4 results | updates are complete, results reach the client | 1.5 million |
| `pictures` | `MCPictureFiles`: 2 sessions, 2 uploads of up to 2 pictures | files and results of uploads | 2.2 million |
| `entries` | `MCDeviceEntries`: 2 devices, 2 sessions, 1 client, 2 cameras | what clients are told of devices | 1.4 million |

Type invariants are conjuncts of an invariant of each run, or proved (section 4).

**Bounds.** `MaxSDC` = 3 lets the cursor be before, at and past the end of the list, and the shift
start at the first, a middle and the last slot; three sessions allow a grant, a release and a scan at once.
In `DeviceMission` two sessions suffice for every pairwise conflict; the third in `view` is for "freed by
one, granted to the second, refused to the third". `TurnFailLimit` is 3 in the code and 1 in
the runs, which has the one counter shared by the loops and above zero at the start of a mission. `PTZCap`
stops the position one past the last preset, from where on all values act alike. The constraint
`NotAllStray` of `view` stops once its one camera is stray, from when on the properties are silent.
`LoopTimer`: two starts are two loops on one timer, and a third would meet the same two situations (its timer
replaced, or re-armed by another); a preset is held 2 ticks and a turn takes up to 1, so that the loop can be early, in time and late.
`SessionReads`: an upload of three units takes two reads or more, a fourth unit can follow it inside a
read; `MaxFrame` = 3 lets an upload of three be received and one of four be refused. `ConfigSession`: an update is one message and a thread does not begin another while writes of the last are unfinished,
which leaves the overlap of two threads; `Room` = 2 lets both write without the client, and one more wait.
`ConfigWalk`: one regrouping during a run (`MaxMoves`), of any item at any moment, under any number of walks.
`PresetRows`: `Width` = 3 stands for the 256 values of `presetTotal`, so that adding a camera again passes it; `MaxSame`
and `MaxRows` bound objects of one number and rows, which only cameras that are stray or added
again exceed, and the run stops where the device becomes stray (`Small`): a request at it that fails, or comes in between, is explored for the camera. A second mission is beyond TLC here (moves from mission to mission are stray events
anyway); the theorems of `MissionGroupsProofs` hold for any number. Items of `MissionGroups` do not affect one another
except through the mutexes. `CameraObjects` has four sessions: two drive an old and a
new object, two more compete for them. `Accept`: three clients on two io_services are the first round, and the beginning of a second.
Symmetry over sessions, devices or clients is used in runs that check no liveness.

**Fairness.** `SDCPool`: a thread inside `getFreeSDC` keeps running (it holds the mutex and waits for
nothing). `DeviceMission`: each mission loop goes on, since it has a thread of its own, its timer
fires, its sleeps end, and the SDK's calls return with an error after their time-out; and so does a heartbeat that has begun
(`MissionReady`). `LoopTimer`: the threads, the timer and time go on, and a handler that has begun. `SessionReads`: the reactor and the io_service's thread go on; a write may wait for ever while the
device is connected. `ConfigSession`: threads and handlers are strongly fair, as the mutex they compete for is;
`StartedClientHeard` assumes of the client only, in its statement, that it goes on receiving. `ConfigWalk`: the update thread
goes on, and a regrouping that has begun ends. `Accept`: an io_service runs its handlers in the order they became
ready, so none is passed over for ever (strong fairness), handlers end, and the kernel hands connections
over. Nothing is assumed of devices and clients, nor of which thread gets a mutex, and requests, logins and
errors may come or not.

**Deadlock.** Is checked except where the system really may stop: a session deleted with nothing outstanding
(`reads`), a client gone and its threads ended (`config`), no more objects to make (`objects`), every client served
(`accept`), the process ended by an empty slot (`walk`).

**Divergences seen in the code**, between what it says and what it does; the models follow what it does.

* `session.h:517` prints "waiting mission completed....", but the test of `missionStatus` (521-522) is commented out
  and the session is deleted at once, in mid-mission too (`Disconnect`, `HandleError`).
* `session.h:242` prints "no valid SDC" and line 249 prepares for a NULL camera, but a refused heartbeat keeps
  the pointer to the last camera and starts a mission on it (`NextMission`, `stray`).
* `mission.cpp:155` says that what leaves a mission joins the ungrouped, and it does, while its label and its
  row name whatever destination the request had (164), which a restart then makes true (`Regroup`, `stray`).
* `CaptureDevice.cpp:118-124` holds each preset for its `holdSeconds`; a second `start` completes
  the wait at once (`HeldWithOneLoop` names that case).
* `HIKCam.cpp:54` tests the result of the login for `< 0`, but `lUserID` is unsigned (`HIKCam.h:59`, which
  hides `SpeedDomeCam.h:58`): a failed login goes unnoticed. Each preset logs in and only the last logs out (`HIKCam.cpp:53`).
* `protocol_CfgClient.cpp:423` and `722` say that the CRC covers everything in front of it; the length is filled in
  after it was computed (426, 725).

## 4. Proofs

All theorems hold for any number of sessions, cameras, slots, presets, items, missions, uploads and results, under the
assumptions named in the modules (`PoolAssumption`, `DeviceAssumption`, `MaxResultsAssumption`, `WalkAssumption`,
`GroupsAssumption`, `WidthAssumption`, `ObjectsAssumption`, `EntriesAssumption`, `PicturesAssumption`, `ReadsAssumption`, and, as hypotheses of
theorems, `TimerAssumption`, `ConfigAssumption` and `AcceptAssumption`): types of the constants, values such as `NULL` and
`NoGroup` distinct from the rest, finitely many devices (`EntriesAssumption`) and items (`WalkAssumption`), which the
fixed arrays of the code make sure of. The bounds that TLC needs (`MaxStarts`, `MaxMoves`, `MaxUnits`, ...) are any number
here, and `FairSpec`s are not needed: safety follows from the steps.

`Accept`, `ConfigSession` and `LoopTimer` are models beside those their proof modules extend, with variables of the same
names. Their proofs go through an instance that renames them (`Server`, `Session`, `Loop`). The instance has a
`Cardinality` of its own; a lemma shows that it is the library's (`LoopCardinality` and the like).

* `SDCPoolProofs`. The invariant `IInv` adds to the properties that a thread past `Lock` holds
  the mutex (`Guarded`: two scans never overlap), that a session which holds has a pointer
  (`Holding`) and that the slot to be claimed is FREE (`ClaimsFree`: releases only ever turn marks
  FREE, so it stays so). It gives `TypeCorrect`, `GrantsAreExclusive`, `NoCameraLost`, `ArrayMatchesTotal`
  and `ScanStaysInList`. A second invariant on top of it, `ScanInv`, says which slots a scan has
  already looked at and that none of them was FREE at its start; it gives `RefusalIsJustified` and
  `GrantsAreInTurn`. `PoolRefinesLease` maps `Claim` to the lease's `Grant`, `Release` to `GiveBack`, list
  changes to `Offer` and `Withdraw` and all other steps to stuttering; it needs `IInv` for "not leased". `FairInv` is about the
  history of `SDCPoolFair`: who has been granted past a FREE camera stands behind it in the order of the next scan
  (`Behind`), and nobody has been granted past a camera given back during a scan (`FreedSince`). It gives `NobodyOvertakesTwice`.
  `ScansAreBounded` is the safety half of `ScanTerminates`: a guard of the scan's next step always holds (`ScanGoesOn`), each of its steps
  takes at least one from a number that is at most `totalSpdDomeCam + 1`, and no other step changes it (`ScanShortens`).
* `DeviceMissionProofs`. The invariant `DInv` relates the loop's control point to the session:
  a loop has a camera, it has been told to stop exactly when its session is closed, and where the
  mission status does not fit the point the loop has reached, the camera is stray, and a heartbeat under way has found the mission over
  and the loop not turning. It gives `TypeCorrect`,
  `DrivingIsExclusive`, `BusyMeansDriven`, `CamerasHaveLoops` and `PresetsExist`. Every step of `PresetView` is one of
  `DeviceMission` or leaves its variables alone (`ViewStep`), so all this holds there too (`ViewKeepsTheMission`). `VInv` adds
  where the camera and the schedule are at each point of the loop: at its position between two turns
  (`Watching`), one ahead after a turn (`Aimed`); and that a reload which is not late turns to the position of
  the loop (`Timely`). It gives `CamerasFaceTheirSchedule`. `CamerasAreOnTheirWay` is the safety half of `CameraComesBack`: a BUSY camera that is not stray has
  a loop that can go on, if need be after the `MissionReady` it waits for, with at most `4 * PresetTotal + 3` steps left (`UnderWay`); its own steps reduce them, and nothing else
  adds any or takes it off the camera (`ComesNearer`). For `LoopTimer`, `LoopInv` counts: a started thread has one wait,
  handler or turn (`Counted`, with `MoreReady` and `OneTaken` for what a step adds to the ready handlers and takes
  from them), waits exist only on a timer whose thread is there to serve them (`Served`), and a handler that is to start a loop has a camera and a
  thread for it (`Promised`). It gives `StartsIterateOnce`.
  `HoldInv` adds, for a device with one loop, that the timer is never late by more than the turn under way and leaves
  a faced preset what is missing of its time (`OnTime`); with `NotFacing` and `Slept` it gives `OneLoopHoldsItsPresets`: no step leaves
  a preset early.
* `SessionReadsProofs`. `Bounded` and `Filled` say that a handler finds as many units in the buffer as its read
  brought. As long as reads have not overlapped, these are the last read from the socket (`Latest`) and the picture being received ends where they begin
  (`Gathered`). A picture taken from the middle of an upload needs to know what became of that upload's head: every upload that goes on
  behind what has been handled is the one being received or is in `lost` (`Followed`). This gives `ResultsAreWhole`. Every answer adds an operation and every completion takes one, which
  gives `ReadsGrowWithAnswers` and `NothingWaitsOnDeleted`. `ClosedSessionsWindUp` is the safety half of `ClosedIsDeleted`: a live session has
  an operation waiting or a handler to run (`NeverIdle`, from the same count), and after the device has closed every step deletes
  the session or lowers a weighted sum of the units unread, the operations waiting and the handlers to come (`CloseShortens`). For `Accept`, `AcceptInv` says that as long as no accept has
  failed the io_services before the next in turn have one session (or the acceptor) more than the others
  (`Turn`), and that a client is in the backlog once and without a session (`Queued`): `SessionsAreSpread`.
* `ResultPushProofs`. Inside a walk `i = 2 * pos - walkSent`, between walks
  `curCapResult = 2 * seen - lastSent`: the cursor never passes twice what was seen, so it never
  skips an unsent result (`ResultsReachTheClient`), and a walk without news sends at most half
  (`RepeatsAreHalved`). Every step of `ConfigWalk` is a step of this walk or leaves it alone (`UpdatesPushResults`). `WalkInv`
  follows an item through an update: it has been shown, or is ahead of the walk, or was moved or missed
  (`ShownOrAhead`); what is removed from a list is on another, or in two slots while the array is shifted
  (`Removal`, `Kept`). It gives `UpdatesAreComplete` and, with the order of missions and lists (`MissionsFirst`),
  `MissionsAreAnnounced`. For `ConfigSession`, `SessionInv` says that only the holder of `cfg_mtx` packs and writes (`Packing`), that
  the buffer holds what it is about to write (`InBuffer`), and that a write waits only for a client that is
  behind: `MessagesGoOutAsPacked`.
* `MissionGroupsProofs`. The invariant `GInv` says for every item that is not stray: if no handler is at
  work on it, it is `Placed` where its row says; otherwise exactly one is (`Alone`) and its objects are
  as the step of that handler requires (`Underway`). `Untouched`, `ReceiveKeeps` and `HandlerKeeps` reduce
  each action to what it does to its own item. It gives `TypeCorrect`, `AgreementHolds`, `AlwaysListed` and
  `NothingMoves`. The mutexes play no part in the proof: what protects an item is that one
  request at a time works on it, which the code leaves to the clients. For `PresetRows`, `PInv` adds what the add
  under way has inserted (`Stored`, `RowsFit`, `MessagesFit`: the rows so far are a prefix of what the message has) and who edits a camera (`EditsKnown`).
  It gives `PresetsKeepTheirRows` and `RowsAreLoaded`; for the latter a message must fit `presetTotal`, which the protocol's one byte
  for the number of presets makes sure of.
* `CameraObjectsProofs`. The invariant `IInv` adds which objects are on a list at all (`Listed`: the newest, and during a request the one
  before it) and what is known of an object a session drives (`Driving`: it is BUSY, in nobody else's hands, not
  among the ungrouped, and `moved` if it is on no list). It gives `TypeCorrect`, `Offered` (at most one object of a camera is within reach of
  `getFreeSDC`, also between add and remove), `OneDriver` and `NeverGranted`.
* `DeviceEntriesProofs`. Arrays are dense (`Dense`) and a device has one entry, or two in different lists while it is moved
  (`Unique`); so an array never outgrows the devices, and a slot that is shifted away or reused never lends one
  device's camera to another (`OwnCamerasOnly`, `GrantsStayShown`). `OfflineByRemovalOnly` is an action property on top of it.
* `PictureFilesProofs`. The result being filled in keeps pace with the upload that is written (`Progress`), files hold what it names
  (`AllHeld`, for uploads of at most `MaxPics` pictures, for whose names a result has room: 24 in the code), and it has the header's fields (`Described`): `PicturesAreStored`, `ResultsAreDescribed`. As long as nothing is
  repeated (`Unrepeated`), a file's name tells the upload and the index, and the one session that writes that upload has not come
  to that index yet: `FilesHoldOnePicture`.

TLC checked the strengthened invariants on the instances of section 3, and on variants of them with cameras that have no presets, before
they were proved. Two were changed by it: `ViewTypeOK` excluded a camera without presets granted to a
loop that is about to send, and `NotFacing` said nothing of a camera being given back.

Some theorems state what no run repeats, for they are proved: exclusive grants (`ExclusiveGrant`), the dense array
(`SlotsMatchTotal`), round robin in turn (`InTurn`), repeats that halve (`RepeatsHalve`), restarts that move nothing
(`RestartMovesNothing`), one object on offer (`OfferedOnce`), nothing waiting on a deleted session (`Ended`), what a composed module keeps of
the one it extends (`ViewKeepsTheMission`, `UpdatesPushResults`), the safety halves of three liveness properties
(`ScansAreBounded`, `CamerasAreOnTheirWay`, `ClosedSessionsWindUp`; TLC agreed on the instances of section 3 before they were proved),
and the types.

Only model-checked: the liveness properties (`ScanTerminates`, `CameraComesBack`, `CameraComesBackUnlessReplaced`, `AllLoopsEnd`,
`ClosedIsDeleted`, `StartedClientHeard`, `UpdatesEnd`, `ServedUnlessDeviceError`, `ShownAtLast`), which are out of the prover's
reach. Of `ScanTerminates`, `CameraComesBack` and `ClosedIsDeleted` only fairness, and the counting down to zero, are left to TLC: that
something can be done, and that what is left only shrinks, is proved. Every safety invariant and action property of the runs is a theorem.

## 5. Plan and limits

Next: the safety halves of the other liveness properties (`CameraComesBackUnlessReplaced`, `AllLoopsEnd`, `StartedClientHeard`,
`UpdatesEnd`, `ServedUnlessDeviceError`, `ShownAtLast`), in the form of section 4: an invariant which says that a step can be taken whenever
something is owed, and an action property which says that what is owed shrinks. For updates and clients the latter needs a measure
over the rows and lists of a whole walk, which grow under it.

**Not modelled**, and why.

* The SDK behind the camera driver: handles and its table of logins (`HIKCam.cpp:36`, `53`), the arithmetic of the
  close-up. A turn succeeds or fails at any time in the models, which covers what follows from a lost handle.
* How a request is found in the bytes that were read (`protocol_CfgClient.cpp:371-390`), CRCs, the layout of fields, and
  messages of the device protocol that are copied field by field: straight-line code without state; `config_session.h:139`
  cuts messages at 1024 bytes.
* Undefined behaviour that ends the process or nothing can be said of: `reload_Preset` without a camera
  (`CaptureDevice.cpp:244`), an asynchronous write out of a buffer on the stack (`CaptureDevice.cpp:187`), two sessions in `push_back` at
  once or a reallocation under the walk (`session.h:114`), handlers on a deleted session after they were counted.
* `sqlite` handles that are opened per request and not closed (`config_session.h:260`).
* Functions nothing calls: `MissionDelete`, `updateSDCmissionGroup`, `sql_delete`, `select` by key, insert and update
  of a `CCaptureDevice`, `deInit`, `ResetLens`, `isOnline`.
* The test client (`client.cpp`), a load generator, and the XML and log output.
* Vendored code: `HCNetSDK.h`, `otlv4.h`, `DecodeCardSdk.h`, `LinuxPlayM4.h`, `PlayM4.h`, `db_conn_pool.h`, about 78 000 of the
  repository's 85 000 lines, declarations of which the program uses a few calls.
