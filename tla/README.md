# A TLA+ model of aistream

aistream runs AI pipelines over cameras and files. A **master** process keeps a list of
slaves, objects (cameras) and tasks, stores them in a database, and hands objects to
**slave** processes over HTTP. A slave runs, for every task of every object, a pipeline of
**elements** (source, decoder, detector, tracker, output) in a few threads connected by
bounded packet queues. Each element is a plugin in a shared library.

The modules here model that code, TLC checks them on small instances, and TLAPS proves the
stop protocol of the task runtime, and that both camera sources implement one abstract stream
of frames, for every value of the constants. `PROJECT.json` maps every definition to the
source lines it stands for and lists the runs, findings and hazards.

## Inventory

| component | state | operations | interacts with | properties that make it correct |
|---|---|---|---|---|
| task runtime (`task.cpp`) | `running`, `thread_sync`, `task_beat`, `thread_vec`, `t_ele_vec`, input and output queues | `TaskParams::Start/Stop/KeepAlive`, `ThreadFunc`, `GetInput`, `ConnectElement`, `ThreadSync` | plugin loader by calls, object manager and REST by `Start`/`Stop` | no lost wake-up, a stop returns and ends all threads, restart only after join, order and pairing of frames |
| plugin loader (`dylib.cpp`) | `params`, `handle` | `Init`, `Start`, `Process`, `Notify`, `Stop` | called by element threads and, for `Notify`, by the stopping thread | a plugin is used only between its start and its stop |
| object manager (`obj.cpp`) | `obj_vec`, `task_vec` | `ObjManager`, `TraverseTaskQue`, `DelFromTaskQue`, `DelFromObjQue`, `StartHttpfileTask` | shares both lists with the REST thread under `obj_mtx` and `task_mtx` | no object or task twice, none runs outside the lists but those the code drops, a dead task is restarted, a stopped one stays stopped |
| pipeline configuration (`pipeline.cpp`) | algorithm and element lists | `AlgThread`, `SearchEntry`, `GetNextEle`, `AttachToThread` | object manager, `request_task_support`, task runtime | the supported tasks are those of the file; every element runs in exactly one thread |
| slave REST (`rest_slave.cpp`) | `system_init`, output parameters | add and delete objects, start and stop tasks, init, status | called by the master | repeated requests do no harm |
| rtsp source (`rtsp.cpp`) | list of players, frame queue of each, the daemon | callback, `RtspDaemon`, start, process, notify, stop | task runtime as a plugin, live555 | a silent camera is played again, a stop returns, frames in order, no player used after it is freed |
| rtmp source (`rtmp.cpp`) | list of readers, frame queue of each, a thread per reader, the daemon | `RtmpThread`, `RtmpDaemon`, start, process, notify, stop | task runtime, ffmpeg | the same, and every reader is joined once |
| http file source (`httpfile.cpp`) | server threads, one bounded queue | request callbacks, start, process | clients, task runtime | a posted file is answered and handed on, in order of its number |
| message output (`rabbitmq.cpp`) | one connection and its mutex for all elements | init, open, publish, retry, close | broker | one sender at a time, never on a closed connection, a broker that is away, but not one that hangs, blocks nobody for ever |
| preview (`preview.cpp`) | a thread per element, list of previews, one daemon, HLS files | start, process, stop, daemon pass | task runtime, file system | listed segments exist, the directory stays bounded, a preview that ended is restarted |
| overlay (`osd.cpp`) | encoder, frame, planes | create, draw, encode, stop | task runtime, ffmpeg | both formats are drawn alike, and inside the picture but for its right and lower border, a stop frees what was made |
| colour conversion (`common.cpp`) | none | `ConvertYuv420pToRGB24`, `ConvertNv12ToRGB24`, `ConvertRGBToYUV420p` | decoders, encoders | every pixel from the samples over it, colours within the table |
| tracker (`tracker.cpp`, `bytetrack`) | tracked, lost and removed tracks, captured entries | process, capture, expiry, stop | task runtime | a track is in one list and is captured once |
| linear assignment (`lapjv.cpp`, `utils.cpp`) | none | column and row reduction, augmentation | tracker | the cheapest assignment |
| bert tokenizer (`bert/`) | vocabulary | split, tokenize, encode, truncate, pad | inference plugin | words are spelled by their pieces, rows have one length and stay framed |
| master (`master.cpp`) | `m_slave_vec`, `m_obj_vec`, `m_task_vec`, `alive`, `offline_cnt`, loads | `SlaveThread`, `ObjThread`, requests | slaves over HTTP, database | configured tasks run somewhere, on one slave, and are stored |
| database (`db.cpp`) | collections in mongodb | update, delete, `$push`, `$pull`, traverse, query | master | holds what is configured |
| REST transport (`rest.cpp`) | none between calls | `HttpClient` with a timeout | master to slave | - |
| web client (`rtsp.vue`) | the rows of a page | load, page, start, stop, delete | master | the rows belong to one answer |
| supervisor (`main.cpp`) | child process | restart on abnormal exit | all | a crashed process comes back |
| decoders, inference, media server, JSON and file helpers, cJSON | | | | not modelled, see below |

What is hard here: a stop races element threads that start, wait, fail or end; a restart
reuses some of the state of the previous start; each plugin has one list and one daemon for all
its elements, and a stop of one element races the daemon and the others; three threads of the
master share two tables under two mutexes; slaves and the master crash and come back; an HTTP
answer may be lost after the request was carried out. `PROJECT.json` lists each such hazard at
its line.

## Modules

How they fit together:

```
master      Cluster (threads, locks, calls)   MasterStore (database, death)   WebClient (pages)
slave       SlaveObjects (lists of objects and tasks)   PipelineConfig   AttachThreads
one task    TaskRuntime (threads, stop)   PacketFlow (frames)
plugins     RtspSource, RtmpSource => FrameStream   HttpFileSource   MessageOutput   Preview
algorithms  Tracker   Assignment   Tokenizer   Pixels   Overlay
```

A level sees the one below through what the code calls. `Cluster` sees of a slave which
objects it has and which tasks run; `SlaveObjects` sees of a task that it runs, has died or is
stopped, which is what `TaskRuntime` shows of it (`StopReturns`, `DeadTaskRestarts`);
`TaskRuntime` takes from `AttachThreads` that every element is in one thread
(`PlacementAssumption`), and from a source that its process call may wait until `Notify`, which
`RtspSource` and `RtmpSource` have in detail. `FrameStream` is the abstract specification of a
source: frames are made with increasing numbers and given out in that order, each at most once.

Prefixes keep the names of modules that are checked in one run apart: `Rtsp`, `Rtmp`, `Http`,
`Mq`, `Pv` (preview), `So` (slave objects), `Pl` (pipeline configuration), `At`
(attach), `Tr`, `Lap`, `Tk`, `Px`, `Osd`, `St` (store), `Wc` (web client).

### TaskRuntime

One task of one object. `pc[t]` is where a thread of `ThreadFunc` is, `cur[t]` the element it
is at, `pos[t]` its loop counter; `plugin[e]` is the state of an element's `framework`, its
`params` and its `handle`; `output[e]` its output list, filled by `ConnectElement` of other
threads; `qlen[q]` the number of packets in a queue; `stop` is the stop in progress.

* Starting: `Entry`, `MakeFramework`, `InitElement`, `ConnectElement` (one input per step),
  `SyncArrive` and `SyncPass` (the barrier), `PluginStart`. Failures: `InitFailed`,
  `PluginStartFailed`, both through `GiveUp`. A thread with one element passes the barrier
  between connecting and starting its plugin, a thread with several after all of them, as in
  the code.
* Serving: `LoopCheck`, `GetNothing`, `PopMain`, `WaitMain`, `StoppedAtMain`, `MatchInput`,
  `Matched`, `ProcessPacket`, `ProcessNothing`, `PushOutput`, `Pushed`, `BeatAlive`. A wait on
  the condition variable is the state `wait`; a notification moves the thread to `woken`, from
  where it evaluates the predicate again.
* Ending: `CleanOutputs`, `StopElement`.
* The stopping parties: `HeartbeatTimeout` and `KeepAliveFails` (object manager, `Stop(true)`
  followed by `TaskStart` or `TaskStartFails`), `RestStop` (`Stop(false)`, then
  `RestStopEnds`), and `ObjErased`, the deletion of the object by way of another of its tasks,
  which is the only one that `DelFromTaskQue("all")` stops. `Stop` itself is `StopNotifyQueues`, `StopNotifyPlugin` for each element and
  `Join` for each thread. `task_mtx` is the condition `stop.by = "none"`.
* A null or missing pointer that the code would use, and a failed assertion, set `crashed`.

Packets are only counted here. The match of a further input is therefore a choice between all
outcomes; `PacketFlow` says which.

### PacketFlow

The same loop with frame numbers and without starting and stopping: `SourceProcess` numbers
frames (with gaps, as `RtspCallback` drops frames when its own queue is full), `PopMain`,
`MatchInput` and `MatchFails` are `GetInput`, `PushOutput` drops the oldest packet of a full
queue. `Step(e)` is what the thread of element `e` does. `given`, `dropped` and `missed` are
history.

### Cluster

Master, slaves and database. `SlaveThread` probes slaves under `m_slave_mtx`, `ObjThread`
gives objects to slaves under `m_obj_mtx`, the REST thread serves one request at a time.
Every HTTP call and every acquisition of a mutex is a step of its own. `Http` gives a call one
of three fates: answered, carried out but not answered in time, lost; a call that is carried out
long after its timeout is not modelled yet. `SlaveCrash` empties a
slave, `SlaveRestart` is its supervisor. A read of `obj->slave` through a null pointer ends the
master (`RestNullSlave`). The master is taken to have output parameters, so that
`SlaveSystemInit` makes both its calls. Requests for an object that does not exist, and
malformed requests, change nothing and are left out.

### RtspSource

`rtsp[g]` is one player with the element it belongs to (a *generation*: a task that is
restarted has a new one), `rtspMod` the module's list, mutex and daemon. `RtspCallback` numbers
a frame, outside the mutex, and queues it or drops it when the queue is full; the element's
thread makes the player, puts it into the list, starts the daemon if there is none, and serves
`RtspProcess`; `RtspTaskStops`, `RtspNotify` and `RtspNotifyAll` are the stop that
`TaskRuntime` has as `StopNotifyPlugin`; `RtspDaemon` walks the list and, for a player without
frames, replays it (`RtspDaemonPlay`, which a camera may or may not answer). A use of a freed
player sets `rtspCrash`. `RtspStop` erases the first entry with the id of its channel, as the
code does, and what that leaves listed is left listed here. The live555 client is external.

### RtmpSource

The same shape, with a reader thread of its own for each generation (`RtmpReader`: open, test,
read, end), which both `RtmpStop` and `RtmpDaemon` join and delete. A second join, or a reader
that outlives its object, sets `rtmpCrash`.

### FrameStream

The abstract stream: `Make` numbers a frame, `Give` hands one on. `RtspSource` and `RtmpSource`
implement it: `INSTANCE FrameStream WITH` the counter of the player as what is made and the last
frame given out as what is given. The run `slave`, which checks the refinement, and
`Sources_proofs`, which proves it, use the same instance.

### HttpFileSource

`http.server[t]` is a server thread with the file it has been posted, `http.queue` the bounded
queue, `http.element` the element's thread. Both wait for a bounded time and without a
predicate, so that a notification may be missed and the wait ends by its timeout. `HttpStart`
and `HttpRestart` are the two starts: `HttpStop` does nothing, and the threads of the first
start go on with the first server.

### MessageOutput

The threads `MqThread` of all elements with the one connection. `MqInit` counts itself before
the parameters are set, `MqLock` takes the mutex, `MqSend` opens, publishes, and after a failure
closes and tries once more. `MqBroker` lets the broker go away, come back, or hang: of the calls of
the library only the opening of the socket has a timeout, and the others do not return while it
hangs.

### Preview

`pv[g]` is one preview with its thread, `pvMod` the list, the copy the daemon walks, and the
daemons, `pvDir` the directory of a channel: segments are numbers, `m3u8` what the
playlist names. `PvRead` muxes a frame and may end a segment; the daemon restarts threads that
ended and removes segments by the playlist it read before. A use of a freed preview sets
`pvCrash`.

### SlaveObjects

`so` is the two lists with their objects and tasks, `soRest`, `soMgr` and `soHttp` where the
REST thread, `ObjManager` and `StartHttpfileTask` are. Each critical section of `obj_mtx` and
`task_mtx` is a step, so that a look-up and the insertion that relies on it are two.
`SoDies` is a task whose threads have given up; `SoManager` starts, restarts and erases. A task
inside is `TaskRuntime`.

### PipelineConfig, AttachThreads

`PipelineConfig`: an administrator replaces the file at any moment (`PlEdit`), `AlgThread` polls
its size, reads it, adds and deletes. `AttachThreads`: `AtInitial` takes every acyclic graph of
`AtElements` elements, every order of them in the file and every set of asynchronous ones, and
`AtCall`, `AtFollow`, `AtBranch` are `AttachToThread` with the calls still to make as a list.

### SeqFilter

`Kept(s, S)`: what a loop over a vector leaves of it, `remove_if` with `erase` or a test before a
`push_back`. `PipelineConfig`, `AttachThreads`, `Tracker` and `WebClient` use it.

### Tracker, Assignment

`Tracker`: one step `TrProcess` is one frame through `BYTETracker::update` and the capture.
Which detection is assigned to which track is chosen freely, so is on which side of the line a
box is; the lists, states, expiry and captured entries follow the code. `passed` counts how many
times in a row the loop of the capture broke off before it came to a track, and `unlucky` are the
tracks for which that was more than `TrPassed` times; both are history. `Assignment`: the three
phases of `lapjv` for every cost matrix over small integers, each loop iteration a step, and what
`lapjv` makes of the result (`LapRowsol`, `LapColsol`), compared with every way to match some rows
and leave the others alone.

### Tokenizer, Pixels, Overlay

`Tokenizer`: a text of classes of characters goes through the functions of `Encode` one step
each. `Pixels`: the walk of the conversion over a picture, block by block, with the addresses of
the samples it uses, and the colour arithmetic with its clipping table. `Overlay`: the life of
the encoder with a failure at each call of `CreateEncoder`, and the addresses that frames and
text colour in the planes of both formats.

### MasterStore

Database, memory and slaves, with a death of the master between any two steps of a request and
the reload of `MasterParams::Start` (`SlaveCB`, `ObjCB`, `GetSlaveObj`). A request is the call
to the slave, the change in memory and the write, in the order of the code. An object of a deleted
slave keeps the slave that is gone (`StGone`), as `obj->slave` does. `asked` is what the
client may take for stored: after an answer one configuration, after none both.

### WebClient

Three independent parts: the page of cameras with answers that overtake each other, the paged
query of captures, and `request_task_support`, which sizes its array before the slaves
change. `WcServed` is the handler of a call in the master, and answers as it does: success also for
an object that is not there, and for a start that found no living slave. `WcOtherStatus` is
`ObjThread`, or another client, that changes the status of an object; `unseen` are the objects
whose status changed behind the page.

### Proof and model-checking modules

`TaskRuntime_proofs`, `PacketFlow_proofs`, `Sources_proofs` (both sources), `Outputs_proofs`
(message output, preview, colour conversion, overlay), `SlaveObjects_proofs`, `Lists_proofs`
(pipeline configuration, attachment, web client, tracker), `Assignment_proofs` and `Master_proofs`
(Cluster and MasterStore) hold the theorems, see below.
`MCTaskRuntime` and `MCCluster` hold instances. `MCSlave`, `MCPlugins` and `MCMaster` check
several modules in one run: their initial states switch on one part each, the other parts
have no step, and a behaviour is one of a single part. The parts share no state in the code
either. Properties that belong together are conjoined there or in their module
(`StoreConsistent`, `WcAnswersComplete`, ...); each conjunct is a definition with its own
comment. Definitions whose comment begins with "Mutant" are broken variants of the definition
that follows them; nothing refers to them, they show that a property would notice the mistake.

## Runs

| run | checks | shows |
|---|---|---|
| task_fail | StopWakesEveryone, FirstStartConnected, ProcessOnLiveHandle, ExpiredOnlyPassedOver, EndedThreadLeavesNothing, TaskInvariant, JoinedBeforeRestart | three threads, four elements, two inputs at the tracker, a source that waits for its camera, elements of the shared thread that fail to initialise or start while the others serve, one restart, stops and deletions at any moment; the invariant of the proofs |
| task_live | StopReturns, StoppedTaskEnds, DeadTaskRestarts | liveness with a camera that may stay silent, elements that fail to initialise or start, and a failing `TaskParams::Start` |
| failover | TasksServed, SlaveGetsOutput | a slave crashes once |
| requests | RequestedServed | five requests about two objects and two tasks race the two threads |
| faults | StoredIsConfigured, ObjThreadHasSlave | a crash, a lost call and two requests together |
| slave | RtspDaemonOnLive, RtmpReaderJoined, MqSafe, PvFilesKept, SoSafe, FlowOrder, FlowPairs, PlSupportsTheFile, AtThreadsRight, TrExact, LapCorrect, TkCorrect, PxCorrect, OsdCorrect, RtspImplementsStream, RtmpImplementsStream, FramesAdvance | the safety of thirteen parts, each by itself: lists and threads under every interleaving, order and pairing of frames under overflow, the two refinements, the algorithms against their reference definitions |
| plugins | SourcesStop, SourcesReconnect, HttpServesInOrder, OutputsLive, SoTasksManaged | what six parts must bring about: stops return, silent cameras are played again, posted files are served in order, messages are sent or given up, ended previews and dead tasks are started again, stopped tasks stay stopped |
| master | StoreConsistent, WcTableTrue, WcAnswersComplete | a death of the master, a crash, a lost call and a failed write between requests; overlapping answers in the page |

Four more runs end in a counterexample to something the repository says; each is a finding
in `PROJECT.json`:

* `hang` (DeadTaskRestarts): a single-element thread that fails in `Init` skips the barrier,
  the others spin in it for ever and `Stop(true)` never returns.
* `expired` (NoExpiredObject): the object is deleted while another of its tasks is in front of this
  one. `DelFromTaskQue("all")` stops that task and breaks, the object is erased, and a thread of this
  task that is at its entry fails `assert(obj != nullptr)` (`task.cpp:288`).
* `locks` (TasksServed): `m_slave_mtx` and `m_obj_mtx` are taken in both orders, and after two
  crashes `SlaveThread` and `ObjThread` wait for each other.
* `half` (StoredTasksRun): the master dies between `obj/add` and `task/start`; the reloaded
  master finds the object on its slave, takes it for assigned, and never starts the task.

### Behaviour worth knowing

Further behaviours of the code that the models contain, or that were read beside them, and that
limit what can be claimed. Task runtime and object manager:

* `TaskThread::Stop` calls `Notify` through the framework of an element whose thread has not
  made it yet, and the guard of the rtsp plugin against a NULL handle reads through that
  handle (`crashed` = "framework", "handle"). `Notify` may also meet a handle that the
  element's own thread has freed in `DynamicLib::Stop` and not yet set to NULL.
* `thread_sync` is zeroed by the constructor only: after a restart the barrier is open and
  threads pass it unconnected. FirstStartConnected is therefore about the first start, and the
  proofs about waking up do not use the barrier.
* In PacketFlow a match fails although the slower input is on `input[0]` when the decoder
  pushes to the detector before it pushes to the tracker, which depends on the order in which
  the consumers happened to connect. FlowPairs names that order (`FedFirst`) as one of the reasons
  for a match that fails; the run `slave` has both orders.
* `DelFromTaskQue("all")` stops only the first task of an object; the others go on outside every
  list (`SoOrphansAreDropped` says that nothing else gets there), or end the process if one of their
  threads is still at its entry (run `expired`; ExpiredOnlyPassedOver says that this is the only way). `SetHttpfileTask` keeps the
  old list when a slave reports none. The id of an http file object comes from the address of the
  host and may be negative or collide. `obj_status` counts objects of all types in `total`.
* `AlgThread` compares the size of the file only, and sets `last_size` even when the file could
  not be read: a change that keeps the size goes unnoticed, and so does a repair that restores the
  size of the broken file. PlSupportsTheFile speaks of files with different sizes.
* `AttachToThread` ignores `attach_to_thread` for an element in a chain, and attaches an element
  with several producers more than once when the file names them in some orders. AtThreadsRight
  states what holds for all orders.

Plugins:

* `RtspStop` and `RtmpStop` erase the first entry with the id of the channel. After a quick
  restart that is the newer player, and the freed one stays in the list. `RtspStop` also races
  a replay by the daemon, `RtmpStop` and `RtmpDaemon` may both join and delete one reader. The
  daemon is started before `running` is set and may end at once. RtspPlaysAgain and
  RtmpReadsAgain hold as long as none of this has happened (`rtspCrash`, `rtmpCrash`, a daemon
  that has ended).
* `HttpStop` does nothing, and a restarted task has no server threads. A file is answered with
  `HTTP_OK` although the queue was full and it was dropped.
* `MqInit` counts itself before the parameters are set, and the mutex may be initialised while
  another thread holds it (`mq.broken`). Only `amqp_socket_open_noblock` has a timeout: when the
  broker takes the connection and does not answer, login, publish or close never return, and as they
  run with `mq.mtx` held every element with such an output stalls (`MqReturning`). OutputsLive is
  about behaviours in which the broker does not stay hung.
* `PreviewStop` erases from a copy of `obj_vec`, and the daemon meets the freed object on its
  next pass; `PreviewThread` logs `preview->id` after it has cleared `_running`. Two calls of
  `PreviewInit` may each start a daemon. A failed `CreatePreview` leaves `find_idr` set and its
  contexts allocated. `play0.ts` stays when the last segment in the playlist jumps from 5 to 8.
* The entry of a captured track may expire while the track lives, and it is captured again, if its
  reappearances fall on captures of other tracks; with the constants of the code that takes more than
  17 of them in a row. A
  track stays in the lost list one frame after it was marked removed, and may be found again. A
  box that lies over the line at first sight is captured without having moved. `TrackerStop`
  leaks its entries.
* Colours come back within 5 after the two conversions (`PxRoundTrip`). An odd width breaks the
  walk, so that `PxSizes` is even. On odd lines the text has the chroma of the line above. A
  `CreateEncoder` that fails before the frame exists ends the process with the first packet. The border
  of a box at the right edge of the picture is two pixels wide beyond it: it goes on at the beginning
  of the next row, and for a box in the lower right corner two pixels and one sample are written
  behind the planes. Text that is too long goes on in the next row in the same way.
* `token_type_ids` are shorter than the ids without special tokens, and `ConvertIdToToken`
  returns a pointer into a string that has gone. The walk of `GetSpecialTokenSpan` takes a
  bracket behind a special token for the one of a longer token.

Master and web client:

* A failed add marks a slave offline without taking its objects away, and neither does the
  online detection that follows: if the slave crashed meanwhile, its other objects stay lost.
* A task started twice and stopped once is configured but no longer stored: `$pull` removes
  every equal entry, `DelTask` one. StoredIsConfigured is therefore an inclusion. The slave has
  stopped it, and as its object has a living slave `UpdateObjTask` passes over it: it stays in the
  list and nothing starts it again. RequestedServed is about objects without such a task. A `$push` that
  upserts makes an object without a type.
* When the answer to `system/init` is lost the slave counts as initialised and never gets the
  output parameters; `failover` checks SlaveGetsOutput with crashes and without lost answers.
* `offline_cnt` stops at 31 and every sixth probe only is made, so a slave that was away for 31
  probes is never probed again. `HttpStart` of the REST thread reads and writes `obj->slave`
  without `m_obj_mtx`, and an object may come to be on two slaves.
* A failed write to the database is logged and the request answered with success: StoreConsistent
  speaks of behaviours in which no write failed. Deleting a slave does not tell the slave.
* The load the master keeps for a slave is not lowered when an object is deleted, because the
  slave's answer carries no load.
* A start that finds no living slave sets the status to 0 and is answered with success, so that the
  page shows a running task; a start or a deletion of an object that is not there is answered with
  success too. `ObjThread` changes the status by itself.
* The page replaces a newer answer by a late older one, removes rows by an index that may have
  moved, and sends two starts for a double click. WcTableTrue says that the rows are always those
  of one answer, and, when no call is under way, none overlapped another or failed, and nobody else
  deleted an object, that they are devices of the master, with its status unless that changed behind
  the page.

### Bounds

* Queues of one packet in the TaskRuntime runs (two in `task_live`): a queue is empty or full,
  and a push to a full one drops a packet; the theorems hold for every length. In PacketFlow
  two, so that a queue can hold a frame and a later one, and four frames, so that it overflows
  while an older frame is under way.
* `MaxRestarts` 1 or 2: one restart meets everything the previous start left behind.
* Three threads, one of them with two elements, is the smallest pipeline with a source, a
  fan-out and a thread that shares elements. `task_live` has one thread less, to keep the
  liveness check small; `hang` is a chain of three threads.
* `OfflineMax` 30 and `OfflineMod` 6 are the constants of the code. `ObjMax` 4 and `LoadMax` 99
  keep slaves eligible; crashes, losses and requests are bounded by `MaxCrash`, `MaxLoss` and
  `MaxRequest`, and each run has as many as its question needs.
* Sources: two generations, of which `g2` may have the camera of `g1` or another
  one and is the one that is stopped (the rtmp source of `slave` always has that of `g1`, where the
  search by id meets both). `g2` has two or three frames, so that a queue overflows
  once. `RtspLate` and `RtmpLate` are the passes of the daemon that 15 seconds of silence take; at 0
  a camera is late in the first pass without a frame, which allows every order of frames and
  passes.
* `MqMessages` 2 for each of two threads, `MqOutages` 2: both the first try and the second may
  meet a broker that is away.
* `MaxRequest` 5 in `requests`: from no configuration, add, start, start and stop, and one more.
* `PvSegments` 13 with `PvPerPass` 1: a directory with more than the ten files that
  `PvFilesBounded` allows needs eleven segments.
* `SoRequests` 4 and `SoDeaths` 1 over one object id, one http file object and two task names:
  add, start, delete and add again. `PlFile`: two algorithms, both, and an unreadable file.
  `AtElements` 4: a fan-out and a join need four.
* `TrKeep` 5 is the smallest that `TrKeepAssumption` allows with `TrMaxLost` 1 and `TrPassed` 1. Two
  detections in each of eight frames: a track is captured, passed over once, lost and found, and
  the entry of a captured one expires, which takes all eight. With two ids none is passed over
  twice, so nothing is excused here; with `TrKeep` 3 a track is captured twice in these frames.
  `LapShapes` up to 2 x 3 with costs
  {0, 1, 3}, extended by `lapjv` to up to five rows, reach all phases. Texts have up to three
  fragments, of fifteen. `PxSizes` up to 6 x 4, and the levels at the ends of the table.
  `OsdPackets` 3: create, draw and draw again.
* `StBound`: two requests, one death of the master, one crash, one lost call and one failed
  write; `StOffline` 1 for three failed probes. `WcCalls` 3, `WcOther` 4, `WcDocs` 3 with pages of
  two: a full page, a rest, and a call that overtakes two others.
* The runs in which the system may really stop (a removed task, a crash of the process, a
  deadlock that is itself a finding, or a bound that is used up) do not check for deadlock;
  `failover` and `requests` do.

### Fairness

TaskRuntime: weak fairness of every thread (`ThreadStep` excludes the delivery of a packet by
a camera, which is owed to nobody), of the thread that runs a stop, and of the heartbeat
timeout once `running` is cleared, because the clock of `MediaServer` advances and no thread
beats then. No fairness for REST requests or heartbeat timeouts of a healthy task.

Cluster: strong fairness of the three threads of the master, because the holder of a mutex
sleeps for seconds between two passes, so that a thread that waits for it gets it; weak
fairness of the supervisor. No fairness for crashes, losses and requests.

Plugins and object manager (`RtspFairness`, `RtmpFairness`, `MqFairness`, `PvFairness`,
`SoFairness`, `HttpFairness`): weak fairness of each thread, strong where it has to get a mutex
that others hold for a bounded time (the element's thread, the REST thread, `MqLock`), and strong
fairness of a camera that answers a replay which is tried again and again; SourcesReconnect
would be about the camera otherwise. No fairness for frames, requests, outages of the broker,
deaths of tasks or stops, and none for a call of the amqp library while the broker hangs, nor for the
broker to stop hanging: MqReturns has that as its condition. `MCPlugins` conjoins these formulas; as only one part has steps in a
behaviour, it writes fairness of one action of each part as fairness of their disjunction.

MasterStore (`StFairness`, for the run `half`): weak fairness of the master, its REST thread and
`ObjThread`, of a supervisor and of the probes, strong fairness of an assignment that is tried
again and again.

## Proofs

`TaskRuntime_proofs` proves, for any number of threads, elements and queues, any queue length
and any set of failing plugins:

* `TypeCorrect`: `Spec => []TypeOK`.
* `StopInvariantHolds`: `Spec => []StopInvariant`, the inductive invariant of a stop.
* `WakeupsAreNotLost`: `Spec => []NoLostWakeup`.
* `StopWakesAll`: `Spec => []StopWakesEveryone`.
* `RestartAfterJoin`: `Spec => JoinedBeforeRestart`.
* `TaskInvariantHolds`: `Spec => []TaskInvariant`, which extends `StopInvariant` by what the next
  four need.
* `ProcessNeedsHandle`: `Spec => []ProcessOnLiveHandle`.
* `EndedThreadsLeaveNothing`: `Spec => []EndedThreadLeavesNothing`.
* `ObjectOutlivesStop`: `Spec => []ExpiredOnlyPassedOver`.
* `FirstStartConnects`: `Spec => []FirstStartConnected`.

They rest on the named assumptions of `TaskRuntime`: at least one thread and one place in each
queue, `PipelineAssumption` (the shape of the constants) and `PlacementAssumption` (every
element is in one place of one thread, a queue is one input of one element). The second is
what `AttachToThread` and `DynamicLib::Init` produce for a well-formed configuration.

Why the invariant is what it is. That a waiting thread can still be woken needs two things of
its producer: it is connected to the queue, and its own `CleanOutputs` is still ahead.

* `ElementsConnected` gives the first. `ThreadSync` does not: it is open after a restart. It is
  the thread's own `ConnectElement` that connected the queue before the thread could wait on
  it, which takes `InputsConnected` for the loop in `ConnectElement`, and the condition
  `running` in `PastConnect`, because a thread that gave up has connected nothing and is kept
  out of the loop by `running` alone.
* `RunningThreads` gives the second: a thread goes to sleep only while `running` is set, and
  then no thread has ended; later the producer passes `CleanOutputs`, which wakes the waiter.
* `StopClearsRunning` keeps threads from going back to sleep behind a stop, `Joined` says what
  `Stop(true)` has joined, and together with `NoLostWakeup` the walk of a stop over all
  elements reaches the queue of every waiter, so that nobody waits when a stop is through.

`TaskInvariant` adds, in the order of the theorems:

* `PluginsStarted`, `PluginsStopped`: an element has a handle while its thread is anywhere between
  its start and its stop, and none behind. Only the element's own thread takes the handle away;
  the stop of the task changes a live plugin to a notified one and nothing else.
* `QueuesEmptied`, `OutputsOfProducer`: a queue is in the output list of its producer only, so that
  nobody fills it any more once the producer's thread has emptied it in `CleanOutputs`.
* `EntriesInObject`: a thread at its entry has no framework yet, and a stop that meets it there
  does not come back (`crashed`), so that the stop of a task does not end, and its object is not erased
  behind it, before the thread has locked it. An object that is erased by way of another task
  (`ObjErased`) leaves the task running, which is how the two are told apart.
* `FirstStart`: on the first start `thread_sync` is the number of threads that have arrived at the
  barrier, each of them once (by the theorems on cardinality), so that whoever sees `NThreads`
  leaves nobody behind who has yet to connect.

The steps of the threads are treated by one lemma per kind of fact (`ThreadActionTask`,
`ThreadActionOthers`, `ThreadActionOwn`, `ThreadActionOutput`, ...) with one case per action,
and the conjuncts of the invariant are proved from those.

`PacketFlow_proofs` proves, for any elements, any wiring in which a queue has one consumer and
one producer (`WiringAssumption`, which `ConnectElement` produces), any queue length from 1
and any number of frames:

* `FlowOrderHolds`: `Spec => []FlowOrder`.
* `FramesAdvanceHolds`: `Spec => FramesAdvance`.
* `PairedExactlyHolds`: `Spec => []PairedExactly`.
* `FlowPairsHolds`: `Spec => []FlowPairs`.

That a queue is in order does not follow from the queues alone: the packet that is pushed has to be
newer than those in the queue, and than those its consumer has taken when the queue is empty. So
the invariant compares all of them with what the producer has reached. `Under(x, q)` says that the
producer of `q` is at frame `x` or later, and strictly later while it has yet to push the packet it
is at; `Below(x, q)` adds that all of `q` is newer than `x`. Every packet in a queue is `Under`
it (`QueueBehind`), and every packet taken or given to the plugin is `Below` the queue it came from
(`TakenBehind`). A queue changes in two ways only, by losing its first packets (`RestKeeps`: a pop,
a match, a failed match) and by a push that may drop the oldest (`PushKeeps`); both keep `Under` and
`Below`, and `TakenHead` gives that what is taken is newer than all taken before. `CallShape` counts
the packets of a call, one for each input passed.

A result meets its own picture where the frames of an element `a` reach another one, `e`, both
straight and through a third, `p` (`Diamond`). As long as the straight queue has not overflowed,
every frame in the queues of `p` and `e`, every frame `p` or `a` has yet to push on the longer
way, and the frame `e` looks for is `Tracked` on the straight one: in its queue, or still to be
pushed to it (`Paired`). A match pops the straight queue, but only frames older than those on the
longer way (`DiamondOrder`, which comes from `Below`), and stops at the frame itself
(`MatchExact`): had `a` not pushed it yet, all in the queue would be older. `PairedExactlyHolds`
needs nothing of the order in which `a` pushes. That no match fails does, and the order is the one in
which the threads of the consumers happened to connect (`ConnectElement`): where `a` pushes to the
straight queue first (`FedFirst`), a frame that `e` looks for has been pushed, and a match that fails
has an overflow as its reason; with the other order the match may come too early. FlowPairs states
both, so the theorem assumes nothing of the order (`MissStep`).

`Sources_proofs` proves, for any set of players, any assignment of cameras and any number of frames and passes, that the sources implement `FrameStream`:

* `RtspImplements`: `RtspSpec => RtspImplementsStream`.
* `RtmpImplements`: `RtmpSpec => RtmpImplementsStream`.

and what a stop may not leave behind:

* `RtspDaemonOnLiveHolds`: `RtspSpec => []RtspDaemonOnLive`.
* `RtmpReaderJoinedHolds`: `RtmpSpec => []RtmpReaderJoined`.

The invariant of the refinement says of every player that the queue holds numbers in increasing
order, all behind the one given out last and none beyond the counter. It survives a replay and a
restart of the reader because these leave the counter alone and, of the queue, keep everything
or nothing; that a frame is numbered outside the mutex does no harm because one thread at a time
numbers the frames of a player. A step that takes a frame from the queue maps to `Give`, one that
numbers a frame to `Make`, and every other one, the lemmas `...Quiet`, to a stutter.

`RtspDaemonOnLive` speaks of objects with ids of their own. While they differ, every entry of the
list is an object that has not been freed, and no object has two (`RtspEntries`): `RtspErase`, which
looks for an id, then takes out exactly its own entry, and it is the only step that frees an
object. The daemon walks the list under the mutex under which entries are put in and taken out. That
ids differ is no invariant of the code; an object that has an id keeps it (`RtspNamed`), so that
objects with different ids had different ids before.
`RtmpReaderJoined` needs that a thread object is taken away behind a join only, of which there
are two, and that the daemon, which makes new readers, makes a thread object with each.

The theorems about the rtsp source rest on `RtspAssumption` (queue length and passes are natural
numbers, and "none", which stands for an object not made yet, is no camera), those about the rtmp
source on no assumption.

`Outputs_proofs` proves `MqSafeHolds`: `MqSpec => []MqSafe`, for any threads, messages and
outages, from `MqAssumption` ("free" is no thread, the bounds are natural numbers). One thread at a
time uses the connection because who sends holds the mutex (`MqHeld`). What is received is what was
sent, in order but for repetitions, because a thread sends a message that has arrived only in its
second try (`MqArrived`), and between its two tries it does not let go of the mutex. Both hold until
the mutex is initialised while a thread holds it (`mq.broken`).

It also proves, for any number of preview elements, channels and segments:

* `PvFilesKeptHolds`: `PvSpec /\ []PvDistinct /\ []PvKeepsUp => []PvFilesKept`.

The daemon removes by a playlist that it read before the muxer went on. What makes that safe is how
far apart the two can be (`PvAhead`): a pass reads the playlist of every element again, and only the
daemon starts a thread anew, so that between a reading and the removal that goes by it at most
`PvPerPass` segments end, and the removal stops short of the last two it has read of. Five files at
most are removed in a pass (`DelOldTsFile`), which is more than are made in one, so that what is
left does not grow (`PvLeft`). The two hypotheses are the ones under which the program can keep it:
`PvDistinct`, because two elements with one directory remove each other's segments; and `PvKeepsUp`,
that at most two segments end between two passes, or at most five where no playlist stands still
for the half hour after which the daemon takes it away. A pass is made every five seconds and
a segment of the muxer lasts two seconds at least, so that three is what the code has.

Two theorems are about addresses in a picture. Products of an index and a width are all their
arithmetic has that is not linear, and a few lemmas about rows keep them together:

* `PxCorrectHolds`: `PxSpec => []PxCorrect`, for pictures of any even size and for every colour of
  three bytes, from `PxAssumption`. The pointers that the code advances by hand are where the row
  and the column of the block say (`PxPointers`), all blocks passed are done (`PxPixelsDone`,
  `PxSamplesDone`), and no later one overwrites them, since two rows have no address in common
  (`RowsApart`). That no index leaves the clipping table, and that a colour comes back within 5 of
  what it was, is linear arithmetic over three bytes (`PxTableBounds`, `PxThereAndBack`).
* `OsdCorrectHolds`: `OsdSpec => []OsdCorrect`, for any even picture, any box and any glyphs, from
  `OsdSizeAssumption` and `OsdGlyphAssumption` (a bitmap has no dot outside its columns). An address
  has one row and one column (`OsdRowColumn`), and the sample of a pixel is that of half of each
  (`OsdPixelSample`); the columns a frame colours are, halved, the columns of its samples
  (`OsdColumnsHalved`, `OsdColumnsAgree`). At the right border the columns of a box include the first
  two of the next row, and their samples the first of the next row of samples (`OsdRightLuma`,
  `OsdRightChroma`); `OsdFrameRunsOver` says when that is behind the planes. A text is within the luma
  exactly if none of its dots is below the picture (`OsdDotInside`). No part of the encoder is made twice, because
  `CreateEncoder` is called once whatever it returns (`OsdMadeOnce`), so that one free is enough.

`Lists_proofs` is about lists that a loop rebuilds. Its first part is what `Kept` does: which
elements it keeps, that it keeps them in order and once (`KeptIsSeq`), and of two lists put together
what it keeps of each (`KeptConcat`). `Kept` is a recursive function; that its recursion has a
solution, and what holds of it at every place, is proved by the least place at which it would fail
(`LeastOfNumbers`, from the well-foundedness of the natural numbers), which needs no theorem with
an operator as its parameter. It proves then:

* `PlSupportsTheFileHolds`: `PlSpec => []PlSupportsTheFile`, for any set of tasks and files, from
  `PlFileAssumption` (names and sizes are natural numbers, an empty file names no task) and
  `PlSizesDiffer` (two files differ in size, without which the code would not notice). At whatever
  step of `AlgThread` the file is replaced, `PlInvariant` says which file its table was read from,
  and which of the tasks of that file are still to be added or deleted.
* `AtThreadsRightHolds`: `AtSpec => []AtThreadsRight`, for pipelines with any number of elements, any
  acyclic wiring, any order in the file and any asynchronous elements. An element that is in
  a thread is there because a producer of it is, or because it has none (`AtFed`); its consumers
  are in threads too, or one of the calls still to be made is for them (`AtPending`). In a thread
  each element is the only consumer of the one before it and not asynchronous (`AtChained`), and
  numbers rise (`AtRising`), so that no thread has an element twice. Every step adds one place
  (`AtGrows`).
* `WcTableTrueHolds`: `WcSpec => []WcTableTrue`, for any objects, any page length and any number of
  calls. As long as the user waits for each answer there is one call at most (`WcQuiet`). Before the
  master has carried it out, the rows shown are objects of the master, with their status unless they
  are `unseen`; behind it, they are so once the answer is applied (`WcAnswerThere`): all rows but the
  one clicked, and that one with its new status, or without it.
* `WcAnswersCompleteHolds`: `WcSpec => []WcAnswersComplete`. The first pages of a list are what is kept
  of its beginning, page by page (`WcPaged`), and the last page that the count allows is the first
  to reach the end (`PageEnds`); `FlattenSeq`, that puts them together, is a recursive function like
  `Kept`.

  These two rest on `WcAssumption`: a page has rows, and the slaves are counted.
* `TrExactHolds`: `TrSpec => []TrExact`, for any number of tracks, detections, packets and restarts,
  from `TrTypeAssumption` (the bounds are natural numbers) and `TrKeepAssumption` (an entry is kept
  long enough for `TrPassed` captures of other tracks, 17 with the constants of the code). An entry of
  a captured track is behind by the time since the track was last seen, and by `(TrMaxLost + 2) * TrGap`
  for each time it was passed over since it was last reached, which leaves the entry as it was
  (`TrRecent`). Unless the track is an unlucky one these are `TrPassed` at most (`TrLucky`), and the
  entry is there as long as its track is in a list (`TrEntered`). A lost track that stays away is given
  up in time (`TrGivenUp`) and does not come back, as its id is in one list at most (`TrListsExact`) and
  ids are never given twice (`TrIdsGiven`).

`SlaveObjects_proofs` proves, from `SoAssumption` (ids are natural numbers, names are strings):

* `SoSafeHolds`: `SoSpec => []SoSafe`.
* `SoStoppedStaysHolds`: `SoSpec => SoStoppedStays`.

No id and no name is there twice although the code tests for it and puts it in two critical
sections. Between the two only the http file thread adds objects, and its ids, made of an address,
are not those of requests (`SoRestOK`, `SoHttpOK`). A stopped task stays stopped although
`ObjManager` may be anywhere in its pass: a task is taken from its list in the critical section
that stops it (`SoStoppedOut`), no task is in two lists (`SoOnePlace`), and `ObjManager` restarts
only what it finds in a list.

`Master_proofs` proves, for any slaves, objects, tasks and any number of requests, crashes and lost
calls, from `SlaveAssumption`, `ObjAssumption` and the assumptions on the bounds:

* `StoredIsConfiguredHolds`: `Spec => []StoredIsConfigured`.
* `ObjThreadHasSlaveHolds`: `Spec => []ObjThreadHasSlave`.

The first is about the time between requests, and needs what holds within one: at every step the
tables and the database differ by exactly what the last step of the request, the one on the
database, makes good (`Pending`, `StoredSoFar`). For the second, a slave is taken from an object
only under `m_obj_mtx`, which `ObjThread` holds for its whole pass (`ObjThreadOK`).

It proves too, for any slaves, objects, tasks and output parameters and any number of
requests, deaths, lost calls and failed writes:

* `StoreConsistentHolds`: `StSpec => []StoreConsistent`.

It rests on `StAssumption`: there is a task to start with, the value for no parameters and no slave
is neither, nor is the one for a deleted slave, and the bounds are natural numbers. The property is
about the time between requests and about a master that is up; the invariant `StInvariant` speaks
of every step. The memory is what the database will be once the request has written (`StPending`,
`StMemoryAgrees`), so that a master that dies before the write loses a request without an answer
and nothing else, and what is stored and what will be were both asked for (`StAskedFor`). A slave
that is initialised without being alive to the master is only the one that is just being added
(`StFresh`): whoever comes to be used is told the parameters first, so that each slave that is used
has parameters that were asked for (`StTold`), although `request_set_output` passes them on before
it writes them. No invariant counts how many requests there were: the theorem holds for every
`StBound`.

`Assignment_proofs` proves, for every shape of the matrix, every integer cost and limit, from
`LapAssumption` (there are rows and columns, costs are integers):

* `LapCorrectHolds`: `LapSpec => []LapCorrect`.

The invariant `LapInv` is that of the shortest augmenting path. At the present prices every assigned
column is a cheapest one for its row, and a row is assigned or waits in `freeRows`, once
(`LapAgree`, `LapAssigned`, `LapSlotted`). While a path is looked for, `d` is how far each column is from
the free row and `pred` how it was reached: the columns done with are no further than the others and no
way over them is shorter (`LapSearching`), so that the free column that is reached is a nearest one,
and the prices that follow from `d` make every column of the path a cheapest one for the row before
it. The way back ends because each column of it is in front of the last one in the list. At the end
`x` is a permutation each of whose columns is cheapest for its row; summed up, it costs no more than any
other permutation of the extended matrix, and these are, cost for cost, the ways to match some rows and
leave the others alone. Sums over the indices of an array are recursive functions, and what holds of them is
proved by the least place at which it would fail, as in `Lists_proofs`.

Only model-checked: liveness, which the prover does not reach, and so all of `HttpFileSource`, whose
one property is a liveness property; and `Tokenizer`. `TkSplitExact` and `TkPiecesSpellTheWord` are about
a text that recursive functions have walked (`FlattenSeq`, the cut of a word), one within the other, and
about `SelectSeq`, which takes the test as a parameter: inductions over the text.

## Not modelled

* Decoders and inference plugins are numerical or media code: the runtime sees a plugin that may
  fail to start and may return no packet. A failed `DecodeStart` leaks its codec context.
* Fonts, colours and the encoding in the overlay, distances and the Kalman filter in the tracker,
  the tables of Unicode in the tokenizer, the way back from ids to text.
* cJSON is a vendored library; live555, ffmpeg, libevent, the broker and mongodb are external and
  appear as the outcomes the code distinguishes.
* `share.cpp`, `config.cpp`, `stream.cpp` and `slave.cpp` are accessors and construction. The
  forms of the web client that add objects send one request and read its answer; login compares
  with constants and has no state.
* A call that a slave carries out long after the master gave it up, behind calls made later:
  `Http` in Cluster carries it out at once or not at all. A queue of late calls in each slave is
  beyond what TLC explores beside the three threads.
* Cycles in a configured pipeline, which would never leave `AttachToThread`.

## Plan

Done: TaskRuntime, PacketFlow, Cluster, the sources with their refinement, http files, message
output, preview, slave objects, configuration and attachment, tracker, assignment, tokenizer,
conversion, overlay, store and web client; the proofs of the task runtime's safety, of the order and
pairing of packets, of the refinement and the lists of the sources, of the shared connection, of
the slave's lists, of the segments of a preview, of the configuration and the threads of a
pipeline, of what the pages show, of the captures of a track, of the assignment, of the addresses in a
picture, and of what the master and the database hold. Next, in this order:

1. Proofs: `TkRowsFit` and `TkInputIsFramed` for ids of any length.
2. Late calls in Cluster, with one slave and one object, apart from the runs that have all three
   threads.
3. An abstract task (a set of running generations, at most one) that TaskRuntime implements, and
   an abstract assignment of objects that Cluster implements where no finding stands in the way.
4. The composition of a source with TaskRuntime, in place of the wait that stands for it.
