------------------------------ MODULE RtmpSource ------------------------------
(***************************************************************************)
(* The rtmp source plugin (rtmp.cpp). Unlike the rtsp source it reads its  *)
(* camera with a thread of its own, RtmpThread, which RtmpStop joins       *)
(* without module.obj_mtx and RtmpDaemon joins with it.                    *)
(*                                                                         *)
(* rtmp[g]   one ModuleObj, the thread of its element (pc, as in           *)
(*           RtspSource) and its reader: "none", "open", "test", "read",   *)
(*           "ended"; t is obj->t # nullptr, again is obj->_running        *)
(* rtmpMod   ModuleParams: running, objs, and the daemon's place           *)
(* rtmpCrash a thread joined or deleted twice ("join"), a reader or a      *)
(*           Notify that uses a deleted object ("reader", "notify"), a     *)
(*           deleted object in module.objs ("daemon"); "off" where no      *)
(*           pipeline has such an element                                  *)
(***************************************************************************)
EXTENDS Integers, Sequences, SequencesExt

CONSTANTS
  RtmpGen,        \* the objects, one per RtmpStart
  RtmpChannel,    \* the ids that each may have been started for
  RtmpQueueLen,   \* queue_len
  RtmpFrames,     \* the bound on frame_id of each
  RtmpStopped,    \* those whose task may be stopped
  RtmpLate        \* the passes of the daemon that 15 seconds take

VARIABLES rtmp, rtmpMod, rtmpCrash
rtmpVars == <<rtmp, rtmpMod, rtmpCrash>>

RtmpInitial ==
  /\ rtmp = [g \in RtmpGen |->
               [id |-> "none", pc |-> "none", running |-> FALSE, again |-> FALSE,
                t |-> FALSE, reader |-> "none", stopping |-> FALSE, notify |-> "no",
                queue |-> <<>>, frame |-> 0, out |-> 0, outs |-> 0, age |-> 0]]
  /\ rtmpMod = [running |-> FALSE, objs |-> <<>>, daemon |-> "none", i |-> 1]
  /\ rtmpCrash \in {"no", "off"}

RtmpExists(g) == rtmp[g].pc \notin {"none", "inited", "init", "null", "freed"}
RtmpInLoop(g) == rtmp[g].pc \in {"loop", "get", "wait", "woken"}
RtmpMtxFree == rtmpMod.daemon \notin {"look", "join", "restart"}
RtmpGo(g, to) == rtmp' = [rtmp EXCEPT ![g].pc = to]
RtmpCrashes(why) == rtmpCrash' = why /\ UNCHANGED <<rtmp, rtmpMod>>

-----------------------------------------------------------------------------
(* RtmpThread.                                                             *)

\* Everything up to the loop: a camera that cannot be opened, or whose streams
\* are not understood, ends the thread.
RtmpOpen(g) ==
  /\ rtmp[g].reader = "open"
  /\ IF RtmpExists(g)
       THEN /\ \E to \in {"test", "ended"} : rtmp' = [rtmp EXCEPT ![g].reader = to]
            /\ UNCHANGED <<rtmpMod, rtmpCrash>>
       ELSE RtmpCrashes("reader")

\* while (obj->running && obj->_running)
RtmpTest(g) ==
  /\ rtmp[g].reader = "test"
  /\ IF RtmpExists(g)
       THEN /\ rtmp' = [rtmp EXCEPT ![g].reader =
                          IF rtmp[g].running /\ rtmp[g].again THEN "read" ELSE "ended"]
            /\ UNCHANGED <<rtmpMod, rtmpCrash>>
       ELSE RtmpCrashes("reader")

\* av_read_frame: a frame; nothing, or a packet of another stream (go on); or a
\* packet that the bit stream filter refuses (the thread ends).
RtmpRead(g) ==
  /\ rtmp[g].reader = "read"
  /\ IF RtmpExists(g)
       THEN /\ \/ \E to \in {"test", "ended"} : rtmp' = [rtmp EXCEPT ![g].reader = to]
               \/ /\ rtmp[g].frame < RtmpFrames[g]
                  /\ rtmp' = [rtmp EXCEPT
                       ![g].reader = "test",
                       ![g].frame = @ + 1,
                       ![g].queue = IF Len(@) < RtmpQueueLen
                                      THEN Append(@, rtmp[g].frame + 1) ELSE @,
                       ![g].pc = IF @ = "wait" THEN "woken" ELSE @,
                       ![g].age = 0]
            /\ UNCHANGED <<rtmpMod, rtmpCrash>>
       ELSE RtmpCrashes("reader")

RtmpReader(g) == RtmpOpen(g) \/ RtmpTest(g) \/ RtmpRead(g)

-----------------------------------------------------------------------------
(* RtmpDaemon.                                                             *)

RtmpDaemonPass ==
  /\ rtmpMod.daemon = "idle"
  /\ IF rtmpMod.running
       THEN /\ rtmpMod' = [rtmpMod EXCEPT !.daemon = "look", !.i = 1]
            /\ rtmp' = [g \in RtmpGen |->
                          [rtmp[g] EXCEPT !.age = IF @ > RtmpLate THEN @ ELSE @ + 1]]
       ELSE rtmpMod' = [rtmpMod EXCEPT !.daemon = "ended"] /\ UNCHANGED rtmp
  /\ UNCHANGED rtmpCrash

\* A late object: _running is cleared, and a thread it still has is joined.
RtmpDaemonLook ==
  /\ rtmpMod.daemon = "look" /\ rtmpMod.i <= Len(rtmpMod.objs)
  /\ LET g == rtmpMod.objs[rtmpMod.i] IN
       IF ~RtmpExists(g) THEN RtmpCrashes("daemon")
       ELSE /\ IF rtmp[g].age > RtmpLate
                 THEN /\ rtmpMod' = [rtmpMod EXCEPT !.daemon = IF rtmp[g].t THEN "join" ELSE "restart"]
                      /\ rtmp' = [rtmp EXCEPT ![g].again = FALSE]
                 ELSE rtmpMod' = [rtmpMod EXCEPT !.i = @ + 1] /\ UNCHANGED rtmp
            /\ UNCHANGED rtmpCrash

\* join, delete and nullptr: RtmpStop may have done the same meanwhile.
RtmpDaemonJoin ==
  /\ rtmpMod.daemon = "join"
  /\ LET g == rtmpMod.objs[rtmpMod.i] IN
       /\ rtmp[g].reader = "ended"
       /\ IF ~rtmp[g].t THEN RtmpCrashes("join")
          ELSE /\ rtmp' = [rtmp EXCEPT ![g].t = FALSE]
               /\ rtmpMod' = [rtmpMod EXCEPT !.daemon = "restart"]
               /\ UNCHANGED rtmpCrash

RtmpDaemonRestart ==
  /\ rtmpMod.daemon = "restart"
  /\ LET g == rtmpMod.objs[rtmpMod.i] IN
       rtmp' = [rtmp EXCEPT ![g].queue = <<>>, ![g].again = TRUE, ![g].t = TRUE,
                            ![g].reader = "open", ![g].age = 0]
  /\ rtmpMod' = [rtmpMod EXCEPT !.daemon = "look", !.i = @ + 1]
  /\ UNCHANGED rtmpCrash

RtmpDaemonSleeps ==
  /\ rtmpMod.daemon = "look" /\ rtmpMod.i > Len(rtmpMod.objs)
  /\ rtmpMod' = [rtmpMod EXCEPT !.daemon = "idle"]
  /\ UNCHANGED <<rtmp, rtmpCrash>>

RtmpDaemon ==
  RtmpDaemonPass \/ RtmpDaemonLook \/ RtmpDaemonJoin \/ RtmpDaemonRestart \/ RtmpDaemonSleeps

-----------------------------------------------------------------------------
(* The element's thread.                                                   *)

\* The first RtmpInit of the process creates the daemon, then sets running.
RtmpInit(g) ==
  /\ rtmp[g].pc = "none"
  /\ rtmpMod' = [rtmpMod EXCEPT !.daemon = IF @ = "none" THEN "idle" ELSE @]
  /\ RtmpGo(g, IF rtmpMod.daemon = "none" THEN "inited" ELSE "init")
  /\ UNCHANGED rtmpCrash

RtmpSetRunning(g) ==
  /\ rtmp[g].pc = "inited"
  /\ rtmpMod' = [rtmpMod EXCEPT !.running = TRUE]
  /\ RtmpGo(g, "init")
  /\ UNCHANGED rtmpCrash

\* RtmpStart: without parameters it fails, a camera is only opened by its thread.
RtmpStart(g) ==
  /\ rtmp[g].pc = "init"
  /\ \/ RtmpGo(g, "null")
     \/ \E channel \in RtmpChannel[g] :
          rtmp' = [rtmp EXCEPT ![g].id = channel, ![g].pc = "ready", ![g].running = TRUE,
                               ![g].again = TRUE, ![g].t = TRUE, ![g].reader = "open",
                               ![g].age = 0]
  /\ UNCHANGED <<rtmpMod, rtmpCrash>>

RtmpListed(g) ==
  /\ rtmp[g].pc = "ready" /\ RtmpMtxFree
  /\ rtmpMod' = [rtmpMod EXCEPT !.objs = Append(@, g)]
  /\ RtmpGo(g, "loop")
  /\ UNCHANGED rtmpCrash

RtmpLoop(g) ==
  /\ rtmp[g].pc = "loop"
  /\ RtmpGo(g, IF rtmp[g].stopping THEN "stop" ELSE "get")
  /\ UNCHANGED <<rtmpMod, rtmpCrash>>

\* Mutant of RtmpTake: the packet stays in the queue.
RtmpTakeCopy(g) ==
  rtmp' = [rtmp EXCEPT ![g].out = Head(rtmp[g].queue), ![g].outs = @ + 1, ![g].pc = "loop"]

RtmpTake(g) ==
  rtmp' = [rtmp EXCEPT ![g].out = Head(rtmp[g].queue), ![g].outs = @ + 1,
                    ![g].queue = Tail(@), ![g].pc = "loop"]

\* RtmpProcess: with a packet in the queue it does not look at running, after a
\* wait it does. The daemon may have emptied the queue before the wait ends.
RtmpProcess(g) ==
  /\ \/ rtmp[g].pc = "get" /\ rtmp[g].queue # <<>> /\ RtmpTake(g)
     \/ rtmp[g].pc \in {"get", "woken"} /\ rtmp[g].queue = <<>> /\ rtmp[g].running
        /\ RtmpGo(g, "wait")
     \/ rtmp[g].pc \in {"get", "woken"} /\ ~rtmp[g].running
        /\ (rtmp[g].pc = "woken" \/ rtmp[g].queue = <<>>) /\ RtmpGo(g, "loop")
     \/ rtmp[g].pc = "woken" /\ rtmp[g].running /\ rtmp[g].queue # <<>> /\ RtmpTake(g)
  /\ UNCHANGED <<rtmpMod, rtmpCrash>>

\* RtmpStop: the reader is joined if the object has one at this moment.
RtmpStop(g) ==
  /\ rtmp[g].pc = "stop"
  /\ rtmp' = [rtmp EXCEPT ![g].running = FALSE, ![g].pc = IF rtmp[g].t THEN "join" ELSE "drain"]
  /\ UNCHANGED <<rtmpMod, rtmpCrash>>

\* Mutant of RtmpStopJoins: the thread is detached, not joined.
RtmpStopDetaches(g) ==
  /\ rtmp[g].pc = "join"
  /\ IF ~rtmp[g].t THEN RtmpCrashes("join")
     ELSE /\ rtmp' = [rtmp EXCEPT ![g].t = FALSE, ![g].pc = "drain"]
          /\ UNCHANGED <<rtmpMod, rtmpCrash>>

RtmpStopJoins(g) ==
  /\ rtmp[g].pc = "join" /\ rtmp[g].reader = "ended"
  /\ IF ~rtmp[g].t THEN RtmpCrashes("join")
     ELSE /\ rtmp' = [rtmp EXCEPT ![g].t = FALSE, ![g].pc = "drain"]
          /\ UNCHANGED <<rtmpMod, rtmpCrash>>

RtmpDrain(g) ==
  /\ rtmp[g].pc = "drain"
  /\ rtmp' = [rtmp EXCEPT ![g].queue = <<>>, ![g].pc = "erase"]
  /\ UNCHANGED <<rtmpMod, rtmpCrash>>

\* The first object of the list with that id is taken for this one.
RtmpErase(g) ==
  /\ rtmp[g].pc = "erase" /\ RtmpMtxFree
  /\ LET same == {i \in 1..Len(rtmpMod.objs) : rtmp[rtmpMod.objs[i]].id = rtmp[g].id} IN
       rtmpMod' = [rtmpMod EXCEPT !.objs =
                     IF same = {} THEN @
                     ELSE RemoveAt(@, CHOOSE i \in same : \A j \in same : i <= j)]
  /\ RtmpGo(g, "freed")
  /\ UNCHANGED rtmpCrash

RtmpThread(g) ==
  \/ RtmpInit(g) \/ RtmpSetRunning(g) \/ RtmpStart(g) \/ RtmpListed(g) \/ RtmpLoop(g)
  \/ RtmpProcess(g) \/ RtmpStop(g) \/ RtmpStopJoins(g) \/ RtmpDrain(g) \/ RtmpErase(g)

-----------------------------------------------------------------------------
(* The thread that stops the task.                                         *)

RtmpTaskStops(g) ==
  /\ g \in RtmpStopped /\ RtmpInLoop(g) /\ ~rtmp[g].stopping
  /\ rtmp' = [rtmp EXCEPT ![g].stopping = TRUE]
  /\ UNCHANGED <<rtmpMod, rtmpCrash>>

RtmpNotify(g) ==
  /\ RtmpExists(g) /\ rtmp[g].stopping /\ rtmp[g].notify = "no"
  /\ rtmp' = [rtmp EXCEPT ![g].running = FALSE, ![g].notify = "flag"]
  /\ UNCHANGED <<rtmpMod, rtmpCrash>>

RtmpNotifyAll(g) ==
  /\ rtmp[g].notify = "flag"
  /\ IF ~RtmpExists(g) THEN RtmpCrashes("notify")
     ELSE /\ rtmp' = [rtmp EXCEPT ![g].notify = "done",
                                  ![g].pc = IF @ = "wait" THEN "woken" ELSE @]
          /\ UNCHANGED <<rtmpMod, rtmpCrash>>

RtmpNext ==
  /\ rtmpCrash = "no"
  /\ \/ RtmpDaemon
     \/ \E g \in RtmpGen : \/ RtmpReader(g) \/ RtmpThread(g) \/ RtmpTaskStops(g)
                           \/ RtmpNotify(g) \/ RtmpNotifyAll(g)

RtmpSpec == RtmpInitial /\ [][RtmpNext]_rtmpVars

\* The scheduler runs all threads, av_read_frame returns in the end, and a camera
\* that is opened again and again answers at last before the daemon takes it for
\* late. Frames and stops are owed to nobody.
RtmpFairness ==
  /\ WF_rtmpVars(rtmpCrash = "no" /\ RtmpDaemon)
  /\ \A g \in RtmpGen :
       /\ WF_rtmpVars(rtmpCrash = "no" /\ RtmpReader(g))
       /\ SF_rtmpVars(rtmpCrash = "no" /\ rtmp[g].again /\ RtmpOpen(g)
                        /\ rtmp'[g].reader = "test")
       /\ SF_rtmpVars(rtmpCrash = "no" /\ RtmpThread(g))
       /\ WF_rtmpVars(rtmpCrash = "no" /\ (RtmpNotify(g) \/ RtmpNotifyAll(g)))

-----------------------------------------------------------------------------
(* Properties.                                                             *)

\* A thread object exists only while its reader is one that somebody will join:
\* an element that was stopped has no reader, unless the daemon made it a new one
\* after RtmpStop had joined the old one.
RtmpReaderJoined ==
  \A g \in RtmpGen :
    rtmp[g].pc \in {"drain", "erase", "freed"} /\ ~rtmp[g].t => rtmp[g].reader = "ended"

\* Frames are given out in order, also over a restart of the reader, which empties
\* the queue but goes on counting: the source is a FrameStream.
RtmpStream == INSTANCE FrameStream WITH
                Stream <- RtmpGen,
                made <- [g \in RtmpGen |-> rtmp[g].frame],
                given <- [g \in RtmpGen |-> rtmp[g].out],
                count <- [g \in RtmpGen |-> rtmp[g].outs]

RtmpImplementsStream == RtmpStream!Spec

\* A stopped element ends, although its reader may be in av_read_frame and the
\* daemon may be joining the same reader.
RtmpStopEnds ==
  \A g \in RtmpGen : rtmp[g].stopping ~> (rtmp[g].pc = "freed" \/ rtmpCrash # "no")

\* "detect exception,restart it": a reader that has ended is started again and
\* gets to read, unless the daemon ended because it came before running was set.
RtmpReadsAgain ==
  \A g \in RtmpGen :
    (g \in ToSet(rtmpMod.objs) /\ rtmp[g].reader = "ended")
      ~> (\/ rtmp[g].reader = "test" /\ rtmp[g].running /\ rtmp[g].again
          \/ rtmp[g].stopping \/ rtmpMod.daemon = "ended" \/ rtmpCrash # "no")
==============================================================================
