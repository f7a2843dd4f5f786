------------------------------- MODULE Preview -------------------------------
(***************************************************************************)
(* The preview plugin (preview.cpp): every element has a PreviewThread     *)
(* that turns its frames into an HLS stream, and one PreviewDaemonThread   *)
(* restarts the threads that ended and removes old segments.               *)
(*                                                                         *)
(* pv[g]    one PreviewParams. pc is where its element's thread is, thread *)
(*          where its PreviewThread is; active is its _running; queue      *)
(*          counts frames                                                  *)
(* pvDir    the directory m3u8/stream<id>: files is the set of play<n>.ts, *)
(*          m3u8 the last segment that play.m3u8 names (-1: no playlist),  *)
(*          next the segment the muxer writes, big the first of more than 30 MB, *)
(*          fresh counts the segments since the daemon last looked         *)
(* pvMod    PreviewConfig: queueLen is set, objs is obj_vec, daemon the    *)
(*          place of the daemon that each PreviewInit made, i its object,  *)
(*          seen what it read of the playlist                              *)
(* pvCrash  a freed object was used by "daemon" or "thread"; "off" where   *)
(*          no pipeline has such an element                                *)
(*                                                                         *)
(* An http-flv preview is the same without the directory.                  *)
(***************************************************************************)
EXTENDS Integers, Sequences, FiniteSets

CONSTANTS
  PvGen,        \* the elements, one per PreviewStart
  PvChannel,    \* the id of each
  PvQueueLen,   \* queue_len
  PvSegments,   \* the bound on the segments of each
  PvPerPass,    \* how many segments end between two passes of the daemon
  PvSame,       \* 360: the passes after which an unchanged playlist is removed
  PvStopped     \* the elements that may be stopped

ASSUME PvPerPassAssumption == PvPerPass \in Nat

VARIABLES pv, pvDir, pvMod, pvCrash
pvVars == <<pv, pvDir, pvMod, pvCrash>>

PvIds == {PvChannel[g] : g \in PvGen}

PvInitial ==
  /\ pv = [g \in PvGen |->
             [pc |-> "none", thread |-> "none", running |-> FALSE, active |-> FALSE,
              queue |-> 0, last |-> 0, same |-> 0]]
  /\ pvDir = [c \in PvIds |->
                [files |-> {}, m3u8 |-> -1, next |-> 0, big |-> -1, fresh |-> 0]]
  /\ pvMod = [queueLen |-> 0, objs |-> <<>>, daemon |-> [g \in PvGen |-> "none"],
              i |-> 1, seen |-> -1]
  /\ pvCrash \in {"no", "off"}

PvObjMtxFree == \A d \in PvGen : pvMod.daemon[d] \in {"none", "idle"}
PvThreadLives(g) == pv[g].thread \notin {"none", "ended", "joined"}
PvGo(g, to) == pv' = [pv EXCEPT ![g].pc = to]
PvThreadGo(g, to) == pv' = [pv EXCEPT ![g].thread = to]

-----------------------------------------------------------------------------
(* The element's thread.                                                   *)

\* PreviewInit makes a daemon if queue_len is not set yet; it is set only after
\* the configuration has been read, so that two elements may both make one.
PvInit(g) ==
  /\ pv[g].pc = "none"
  /\ PvGo(g, IF pvMod.queueLen = 0 THEN "config" ELSE "init")
  /\ UNCHANGED <<pvDir, pvMod, pvCrash>>

PvInitDaemon(g) ==
  /\ pv[g].pc = "config"
  /\ pvMod' = [pvMod EXCEPT !.queueLen = PvQueueLen, !.daemon[g] = "idle"]
  /\ PvGo(g, "init")
  /\ UNCHANGED <<pvDir, pvCrash>>

\* PreviewStart: without a usable type the handle is there, but nothing runs.
PvStart(g) ==
  /\ pv[g].pc = "init"
  /\ \/ PvGo(g, "loop")
     \/ pv' = [pv EXCEPT ![g].pc = "started", ![g].thread = "new",
                         ![g].running = TRUE, ![g].active = TRUE]
  /\ UNCHANGED <<pvDir, pvMod, pvCrash>>

PvListed(g) ==
  /\ pv[g].pc = "started" /\ PvObjMtxFree
  /\ pvMod' = [pvMod EXCEPT !.objs = Append(@, g)]
  /\ PvGo(g, "loop")
  /\ UNCHANGED <<pvDir, pvCrash>>

\* PreviewProcess: a frame that finds the queue full is dropped.
PvProcess(g) ==
  /\ pv[g].pc = "loop" /\ pv[g].running /\ pv[g].queue < PvQueueLen
  /\ pv' = [pv EXCEPT ![g].queue = @ + 1]
  /\ UNCHANGED <<pvDir, pvMod, pvCrash>>

PvStop(g) ==
  /\ g \in PvStopped /\ pv[g].pc = "loop"
  /\ pv' = [pv EXCEPT ![g].running = FALSE, ![g].pc = "check"]
  /\ UNCHANGED <<pvDir, pvMod, pvCrash>>

\* A thread that has ended by itself is not joined.
PvCheck(g) ==
  /\ pv[g].pc = "check"
  /\ pv' = [pv EXCEPT ![g].active = FALSE, ![g].pc = IF pv[g].active THEN "join" ELSE "erase"]
  /\ UNCHANGED <<pvDir, pvMod, pvCrash>>

PvJoin(g) ==
  /\ pv[g].pc = "join" /\ ~PvThreadLives(g)
  /\ pv' = [pv EXCEPT ![g].thread = "joined", ![g].pc = "erase"]
  /\ UNCHANGED <<pvDir, pvMod, pvCrash>>

\* The object is erased from a copy of obj_vec and deleted: it stays listed.
PvErase(g) ==
  /\ pv[g].pc = "erase" /\ PvObjMtxFree
  /\ PvGo(g, "freed")
  /\ UNCHANGED <<pvDir, pvMod, pvCrash>>

PvElement(g) ==
  \/ PvInit(g) \/ PvInitDaemon(g) \/ PvStart(g) \/ PvListed(g)
  \/ PvCheck(g) \/ PvJoin(g) \/ PvErase(g)

-----------------------------------------------------------------------------
(* PreviewThread.                                                          *)

\* CreatePreview empties the directory with DelLastTsFile.
PvCreate(g) ==
  /\ pv[g].thread = "new"
  /\ pvDir' = [pvDir EXCEPT ![PvChannel[g]] =
                 [files |-> {}, m3u8 |-> -1, next |-> 0, big |-> -1, fresh |-> 0]]
  /\ PvThreadGo(g, "wait")

\* It waits for the first frame until the preview is stopped.
PvWait(g) ==
  /\ pv[g].thread = "wait" /\ (~pv[g].active \/ pv[g].queue > 0)
  /\ PvThreadGo(g, IF pv[g].active THEN "open" ELSE "failed")
  /\ UNCHANGED pvDir

\* ReadVideoPacket for avformat_open_input, which tells the stream from some
\* frames, and may fail as every call after it; the muxer opens play0.ts.
PvOpen(g) ==
  /\ pv[g].thread = "open" /\ pv[g].queue > 0
  /\ \E to \in {"open", "write", "failed"} :
       /\ pv' = [pv EXCEPT ![g].queue = @ - 1, ![g].thread = to]
       /\ pvDir' = IF to = "write" THEN [pvDir EXCEPT ![PvChannel[g]].files = @ \cup {0}]
                   ELSE pvDir

\* ReadVideoPacket gives up when the preview is stopped.
PvReadNothing(g) ==
  /\ ~pv[g].active /\ pv[g].queue = 0
  /\ \/ pv[g].thread = "open" /\ PvThreadGo(g, "failed")
     \/ pv[g].thread = "read" /\ PvThreadGo(g, "write")
  /\ UNCHANGED pvDir

PvWrite(g) ==
  /\ pv[g].thread = "write"
  /\ PvThreadGo(g, IF pv[g].active THEN "read" ELSE "destroy")
  /\ UNCHANGED pvDir

\* A frame is muxed; it may end a segment, which the playlist then names. A
\* muxer that fails, or a stream that is not the one opened, ends the loop.
PvRead(g) ==
  /\ pv[g].thread = "read" /\ pv[g].queue > 0
  /\ LET c == PvChannel[g] IN
     \/ \E to \in {"write", "destroy"} : pv' = [pv EXCEPT ![g].queue = @ - 1, ![g].thread = to]
        /\ UNCHANGED pvDir
     \/ /\ pvDir[c].next < PvSegments[g] /\ pvDir[c].fresh < PvPerPass
        /\ pv' = [pv EXCEPT ![g].queue = @ - 1, ![g].thread = "write"]
        /\ \E big \in IF pvDir[c].big = -1 THEN {-1, pvDir[c].next} ELSE {pvDir[c].big} :
             pvDir' = [pvDir EXCEPT
               ![c].m3u8 = pvDir[c].next, ![c].next = @ + 1, ![c].fresh = @ + 1,
               ![c].files = @ \cup {pvDir[c].next, pvDir[c].next + 1}, ![c].big = big]

PvDestroy(g) ==
  /\ pv[g].thread = "destroy"
  /\ pvDir' = [pvDir EXCEPT ![PvChannel[g]].m3u8 = -1]
  /\ PvThreadGo(g, "destroyed")

PvFailed(g) ==
  /\ pv[g].thread = "failed"
  /\ pv' = [pv EXCEPT ![g].active = FALSE, ![g].thread = "ended"]
  /\ UNCHANGED pvDir

\* The log line after _running = 0 still reads the object.
PvEnds(g) ==
  /\ UNCHANGED pvDir
  /\ \/ /\ pv[g].thread = "destroyed"
        /\ pv' = [pv EXCEPT ![g].active = FALSE, ![g].thread = "logs"]
     \/ pv[g].thread = "logs" /\ PvThreadGo(g, "ended")

PvThread(g) ==
  /\ UNCHANGED pvMod
  /\ IF pv[g].pc = "freed"
       THEN PvThreadLives(g) /\ pvCrash' = "thread" /\ UNCHANGED <<pv, pvDir>>
       ELSE /\ \/ PvCreate(g) \/ PvWait(g) \/ PvOpen(g) \/ PvReadNothing(g) \/ PvWrite(g)
               \/ PvRead(g) \/ PvDestroy(g) \/ PvFailed(g) \/ PvEnds(g)
            /\ UNCHANGED pvCrash

-----------------------------------------------------------------------------
(* PreviewDaemonThread, and what it does for an object of the list.        *)

PvObj == pvMod.objs[pvMod.i]
PvDaemonGo(d, to) == pvMod' = [pvMod EXCEPT !.daemon[d] = to]
PvDaemonNext(d) == pvMod' = [pvMod EXCEPT !.daemon[d] = "look", !.i = @ + 1]

PvDaemonPass(d) ==
  /\ pvMod.daemon[d] = "idle" /\ PvObjMtxFree
  /\ pvMod' = [pvMod EXCEPT !.daemon[d] = "look", !.i = 1]
  /\ UNCHANGED <<pv, pvDir, pvCrash>>

PvDaemonSleeps(d) ==
  /\ pvMod.daemon[d] = "look" /\ pvMod.i > Len(pvMod.objs)
  /\ PvDaemonGo(d, "idle")
  /\ UNCHANGED <<pv, pvDir, pvCrash>>

\* DelOldTsFile reads the last segment that the playlist names.
PvDaemonLook(d) ==
  /\ pvMod.daemon[d] = "look" /\ pvMod.i <= Len(pvMod.objs)
  /\ IF pv[PvObj].pc = "freed" THEN pvCrash' = "daemon" /\ UNCHANGED <<pvMod, pvDir>>
     ELSE /\ pvMod' = [pvMod EXCEPT !.daemon[d] = "remove",
                                    !.seen = pvDir[PvChannel[PvObj]].m3u8]
          /\ pvDir' = [pvDir EXCEPT ![PvChannel[PvObj]].fresh = 0]
          /\ UNCHANGED pvCrash
  /\ UNCHANGED pv

\* Mutant of PvOld: the two segments of the playlist are counted among the old.
PvOldListed(n) == IF n > 5 THEN (n - 5)..(n - 1) ELSE {}

\* The segments that DelOldTsFile removes, and those it removes when they are big.
PvOld(n) == IF n > 5 THEN (n - 7)..(n - 3) ELSE {}
PvLooksAt(n) == IF n = -1 THEN 0..2 ELSE n..(n + 2)

\* It removes them, and a playlist that stays the same for too long.
PvDelOldTsFile(d) ==
  /\ pvMod.daemon[d] = "remove"
  /\ LET g == PvObj  c == PvChannel[g]  n == pvMod.seen
         stuck == n # -1 /\ n = pv[g].last /\ pv[g].same = PvSame IN
       /\ pvDir' = [pvDir EXCEPT
            ![c].files = (@ \ PvOld(n)) \ ({pvDir[c].big} \cap PvLooksAt(n)),
            ![c].m3u8 = IF stuck THEN -1 ELSE @]
       /\ pv' = [pv EXCEPT
            ![g].last = IF n = -1 THEN @ ELSE n,
            ![g].same = IF n = -1 THEN @ ELSE IF n # pv[g].last \/ stuck THEN 0 ELSE @ + 1]
  /\ PvDaemonGo(d, "running")
  /\ UNCHANGED pvCrash

\* PreviewDaemon: running, then _running.
PvDaemonRunning(d) ==
  /\ pvMod.daemon[d] = "running"
  /\ IF pv[PvObj].running THEN PvDaemonGo(d, "active") ELSE PvDaemonNext(d)
  /\ UNCHANGED <<pv, pvDir, pvCrash>>

PvDaemonActive(d) ==
  /\ pvMod.daemon[d] = "active"
  /\ IF pv[PvObj].active THEN PvDaemonNext(d) ELSE PvDaemonGo(d, "join")
  /\ UNCHANGED <<pv, pvDir, pvCrash>>

PvDaemonJoin(d) ==
  /\ pvMod.daemon[d] = "join" /\ ~PvThreadLives(PvObj)
  /\ PvDaemonGo(d, "create")
  /\ pv' = [pv EXCEPT ![PvObj].active = TRUE, ![PvObj].thread = "joined"]
  /\ UNCHANGED <<pvDir, pvCrash>>

PvDaemonCreate(d) ==
  /\ pvMod.daemon[d] = "create" /\ PvDaemonNext(d)
  /\ pv' = [pv EXCEPT ![PvObj].thread = "new", ![PvObj].last = 0, ![PvObj].same = 0]
  /\ UNCHANGED <<pvDir, pvCrash>>

PvDaemon(d) ==
  \/ PvDaemonPass(d) \/ PvDaemonSleeps(d) \/ PvDaemonLook(d) \/ PvDelOldTsFile(d)
  \/ PvDaemonRunning(d) \/ PvDaemonActive(d) \/ PvDaemonJoin(d) \/ PvDaemonCreate(d)

PvNext ==
  /\ pvCrash = "no"
  /\ \E g \in PvGen : \/ PvElement(g) \/ PvProcess(g) \/ PvStop(g)
                      \/ PvThread(g) \/ PvDaemon(g)

PvSpec == PvInitial /\ [][PvNext]_pvVars

\* The scheduler runs the threads; a mutex that is free again and again is got.
\* Frames and stops are owed to nobody.
PvFairness ==
  \A g \in PvGen :
    /\ SF_pvVars(pvCrash = "no" /\ PvElement(g))
    /\ WF_pvVars(pvCrash = "no" /\ PvThread(g))
    /\ SF_pvVars(pvCrash = "no" /\ PvDaemon(g))

-----------------------------------------------------------------------------
(* Properties.                                                             *)

\* Two elements that exist at once have different ids (two tasks of one object
\* have the same).
PvDistinct == \A g, h \in PvGen :
  PvChannel[g] = PvChannel[h] /\ {pv[g].pc, pv[h].pc} \cap {"none", "freed"} = {} => g = h

\* A player that has read play.m3u8 finds the segments it names: the daemon,
\* which goes by an older reading of the playlist, removes none of the last
\* two (HLS_LIST_SIZE), except one that is too big.
PvListedKept ==
  PvDistinct => \A c \in PvIds :
    \A n \in {pvDir[c].m3u8, pvDir[c].m3u8 - 1} \cap Nat : n \in pvDir[c].files \cup {pvDir[c].big}

\* The directory does not fill the disk: with PvPerPass segments between two
\* passes the daemon keeps up with the muxer, which goes on while it reads and
\* removes, and even if it takes away a playlist that has just been renewed.
PvFilesBounded == \A c \in PvIds : Cardinality(pvDir[c].files) <= 7 + 3 * PvPerPass

\* PreviewStop comes back, whether its thread waits for a first frame, is being
\* opened, or reads: unless the daemon has started the thread anew after
\* PreviewStop cleared _running.
PvStopReturns ==
  \A g \in PvGen : pv[g].pc = "check"
    ~> (pv[g].pc = "freed" \/ pvCrash # "no" \/ (pv[g].pc = "join" /\ pv[g].active))

\* "detect exception,restart it": a preview whose thread has ended gets another.
PvRestarted ==
  \A g \in PvGen : (pv[g].running /\ pv[g].thread = "ended" /\ pv[g].pc = "loop")
    ~> (pv[g].thread = "new" \/ ~pv[g].running \/ pvCrash # "no")

\* The daemon removes enough segments, and none that a player is about to read
\* (DelOldTsFile, against the muxer that goes on meanwhile).
PvFilesKept == PvListedKept /\ PvFilesBounded
==============================================================================
