------------------------------ MODULE RtspSource ------------------------------
(***************************************************************************)
(* The rtsp source plugin (rtsp.cpp): the player objects of all elements   *)
(* of this type, the list module.objs, and RtspDaemon, which restarts a    *)
(* player that has been silent for 15 seconds.                             *)
(*                                                                         *)
(* rtsp[g]   one ModuleObj and the thread of its element. pc is where the  *)
(*           thread is; a Stop of its task sets stopping and then calls    *)
(*           Notify (notify: "no", "flag", "done"); age counts the passes  *)
(*           of the daemon since the last frame; out is the last frame     *)
(*           that RtspProcess handed out, outs how many it did             *)
(* rtspMod   ModuleParams: init, running, objs, and the daemon's place     *)
(* rtspCrash a freed object was used by "daemon", "callback" or "notify";  *)
(*           "off" where no pipeline has such an element                   *)
(***************************************************************************)
EXTENDS Integers, Sequences, SequencesExt

CONSTANTS
  RtspGen,        \* the objects, one per RtspStart
  RtspChannel,    \* the ids that each may have been started for
  RtspQueueLen,   \* queue_len
  RtspFrames,     \* the bound on frame_id of each
  RtspStopped,    \* those whose task may be stopped
  RtspLate        \* the passes of the daemon that 15 seconds take

\* "none" is no id of a channel: it stands for an object that is not made yet.
ASSUME RtspAssumption ==
  /\ RtspQueueLen \in Nat /\ RtspLate \in Nat
  /\ \A g \in RtspGen : "none" \notin RtspChannel[g]

VARIABLES rtsp, rtspMod, rtspCrash
rtspVars == <<rtsp, rtspMod, rtspCrash>>

RtspInitial ==
  /\ rtsp = [g \in RtspGen |->
               [id |-> "none", pc |-> "none", playing |-> FALSE, running |-> FALSE,
                stopping |-> FALSE, notify |-> "no", queue |-> <<>>, qmax |-> 0,
                frame |-> 0, out |-> 0, outs |-> 0, age |-> 0]]
  /\ rtspMod = [init |-> 0, running |-> FALSE, objs |-> <<>>, daemon |-> "none", i |-> 1]
  /\ rtspCrash \in {"no", "off"}

\* An object that new ModuleObj has made and delete has not freed.
RtspExists(g) == rtsp[g].pc \notin {"none", "inited", "init", "null", "freed"}
RtspInLoop(g) == rtsp[g].pc \in {"loop", "get", "wait", "woken"}
RtspMtxFree == rtspMod.daemon \notin {"look", "play"}
RtspGo(g, to) == rtsp' = [rtsp EXCEPT ![g].pc = to]

-----------------------------------------------------------------------------
(* RtspDaemon.                                                             *)

\* One pass: time goes by, and module.obj_mtx is taken. The thread ends when
\* running is not set.
RtspDaemonPass ==
  /\ rtspMod.daemon = "idle"
  /\ IF rtspMod.running
       THEN /\ rtspMod' = [rtspMod EXCEPT !.daemon = "look", !.i = 1]
            /\ rtsp' = [g \in RtspGen |->
                          [rtsp[g] EXCEPT !.age = IF @ > RtspLate THEN @ ELSE @ + 1]]
       ELSE rtspMod' = [rtspMod EXCEPT !.daemon = "ended"] /\ UNCHANGED rtsp
  /\ UNCHANGED rtspCrash

\* Mutant of RtspDaemonLook: a player that failed to start is not looked at.
RtspDaemonLookPlaying ==
  /\ rtspMod.daemon = "look" /\ rtspMod.i <= Len(rtspMod.objs)
  /\ LET g == rtspMod.objs[rtspMod.i] IN
       IF ~RtspExists(g) THEN rtspCrash' = "daemon" /\ UNCHANGED <<rtsp, rtspMod>>
       ELSE /\ IF rtsp[g].age > RtspLate /\ rtsp[g].playing
                 THEN /\ rtspMod' = [rtspMod EXCEPT !.daemon = "play"]
                      /\ rtsp' = [rtsp EXCEPT ![g].playing = FALSE]
                 ELSE rtspMod' = [rtspMod EXCEPT !.i = @ + 1] /\ UNCHANGED rtsp
            /\ UNCHANGED rtspCrash

\* The next object: a late one is stopped if it plays.
RtspDaemonLook ==
  /\ rtspMod.daemon = "look" /\ rtspMod.i <= Len(rtspMod.objs)
  /\ LET g == rtspMod.objs[rtspMod.i] IN
       IF ~RtspExists(g) THEN rtspCrash' = "daemon" /\ UNCHANGED <<rtsp, rtspMod>>
       ELSE /\ IF rtsp[g].age > RtspLate
                 THEN /\ rtspMod' = [rtspMod EXCEPT !.daemon = "play"]
                      /\ rtsp' = [rtsp EXCEPT ![g].playing = FALSE]
                 ELSE rtspMod' = [rtspMod EXCEPT !.i = @ + 1] /\ UNCHANGED rtsp
            /\ UNCHANGED rtspCrash

\* RtspPlayerStart, which may fail; the beat is renewed in both cases.
RtspDaemonPlay(g, ok) ==
  /\ rtspMod.daemon = "play" /\ rtspMod.objs[rtspMod.i] = g
  /\ rtsp' = [rtsp EXCEPT ![g].playing = ok, ![g].age = 0]
  /\ rtspMod' = [rtspMod EXCEPT !.daemon = "look", !.i = @ + 1]
  /\ UNCHANGED rtspCrash

RtspDaemonSleeps ==
  /\ rtspMod.daemon = "look" /\ rtspMod.i > Len(rtspMod.objs)
  /\ rtspMod' = [rtspMod EXCEPT !.daemon = "idle"]
  /\ UNCHANGED <<rtsp, rtspCrash>>

RtspDaemon ==
  \/ RtspDaemonPass \/ RtspDaemonLook \/ RtspDaemonSleeps
  \/ \E g \in RtspGen, ok \in BOOLEAN : RtspDaemonPlay(g, ok)

-----------------------------------------------------------------------------
(* The player's thread.                                                    *)

\* A frame has its number before it is known whether the queue takes it.
RtspCallback(g) ==
  /\ rtsp[g].playing /\ rtsp[g].frame < RtspFrames[g]
  /\ IF ~RtspExists(g) THEN rtspCrash' = "callback" /\ UNCHANGED rtsp
     ELSE /\ rtsp' = [rtsp EXCEPT
                ![g].frame = @ + 1,
                ![g].queue = IF Len(@) < rtsp[g].qmax THEN Append(@, rtsp[g].frame + 1) ELSE @,
                ![g].pc = IF @ = "wait" THEN "woken" ELSE @,
                ![g].age = 0]
          /\ UNCHANGED rtspCrash
  /\ UNCHANGED rtspMod

-----------------------------------------------------------------------------
(* The element's thread.                                                   *)

\* The first RtspInit of the process creates the daemon, then sets running.
RtspInit(g) ==
  /\ rtsp[g].pc = "none"
  /\ rtspMod' = [rtspMod EXCEPT !.init = @ + 1,
                                !.daemon = IF rtspMod.init = 0 THEN "idle" ELSE @]
  /\ RtspGo(g, IF rtspMod.init = 0 THEN "inited" ELSE "init")
  /\ UNCHANGED rtspCrash

RtspSetRunning(g) ==
  /\ rtsp[g].pc = "inited"
  /\ rtspMod' = [rtspMod EXCEPT !.running = TRUE]
  /\ RtspGo(g, "init")
  /\ UNCHANGED rtspCrash

\* RtspStart up to RtspPlayerStart: frames may come from now on, and find
\* queue_len_max 0.
RtspStart(g) ==
  /\ rtsp[g].pc = "init"
  /\ \/ RtspGo(g, "null")
     \/ \E channel \in RtspChannel[g] :
          rtsp' = [rtsp EXCEPT ![g].id = channel, ![g].pc = "played", ![g].playing = TRUE,
                               ![g].age = 0]
  /\ UNCHANGED <<rtspMod, rtspCrash>>

\* The rest of RtspStart.
RtspReady(g) ==
  /\ rtsp[g].pc = "played"
  /\ rtsp' = [rtsp EXCEPT ![g].qmax = RtspQueueLen, ![g].running = TRUE, ![g].pc = "ready"]
  /\ UNCHANGED <<rtspMod, rtspCrash>>

RtspListed(g) ==
  /\ rtsp[g].pc = "ready" /\ RtspMtxFree
  /\ RtspGo(g, "loop")
  /\ rtspMod' = [rtspMod EXCEPT !.objs = Append(@, g)]
  /\ UNCHANGED rtspCrash

\* The loop of ThreadFunc between two calls of the plugin.
RtspLoop(g) ==
  /\ rtsp[g].pc = "loop"
  /\ RtspGo(g, IF rtsp[g].stopping THEN "stop" ELSE "get")
  /\ UNCHANGED <<rtspMod, rtspCrash>>

\* Mutant of RtspTake: the packet stays in the queue.
RtspTakeCopy(g) ==
  rtsp' = [rtsp EXCEPT ![g].out = Head(rtsp[g].queue), ![g].outs = @ + 1, ![g].pc = "loop"]

RtspTake(g) ==
  rtsp' = [rtsp EXCEPT ![g].out = Head(rtsp[g].queue), ![g].outs = @ + 1,
                    ![g].queue = Tail(@), ![g].pc = "loop"]

\* RtspProcess: with a packet in the queue it does not look at running, after a
\* wait it does.
RtspProcess(g) ==
  /\ \/ rtsp[g].pc = "get" /\ rtsp[g].queue # <<>> /\ RtspTake(g)
     \/ rtsp[g].pc \in {"get", "woken"} /\ rtsp[g].queue = <<>> /\ rtsp[g].running
        /\ RtspGo(g, "wait")
     \/ rtsp[g].pc \in {"get", "woken"} /\ ~rtsp[g].running
        /\ (rtsp[g].pc = "woken" \/ rtsp[g].queue = <<>>) /\ RtspGo(g, "loop")
     \/ rtsp[g].pc = "woken" /\ rtsp[g].running /\ rtsp[g].queue # <<>> /\ RtspTake(g)
  /\ UNCHANGED <<rtspMod, rtspCrash>>

\* RtspStop: the player is stopped and the queue emptied without module.obj_mtx.
RtspStop(g) ==
  /\ rtsp[g].pc = "stop"
  /\ rtsp' = [rtsp EXCEPT ![g].running = FALSE, ![g].playing = FALSE, ![g].pc = "drain"]
  /\ UNCHANGED <<rtspMod, rtspCrash>>

RtspDrain(g) ==
  /\ rtsp[g].pc = "drain"
  /\ rtsp' = [rtsp EXCEPT ![g].queue = <<>>, ![g].pc = "erase"]
  /\ UNCHANGED <<rtspMod, rtspCrash>>

\* The first object of the list with that id is taken for this one.
RtspFirst(g) == CHOOSE i \in 1..Len(rtspMod.objs) :
                  /\ rtsp[rtspMod.objs[i]].id = rtsp[g].id
                  /\ \A j \in 1..i-1 : rtsp[rtspMod.objs[j]].id # rtsp[g].id

\* Mutant of RtspErase: the newest entry of the list is taken for the own one.
RtspEraseLast(g) ==
  /\ rtsp[g].pc = "erase" /\ RtspMtxFree
  /\ rtspMod' = [rtspMod EXCEPT !.objs = IF @ # <<>> THEN Front(@) ELSE @]
  /\ RtspGo(g, "freed")
  /\ UNCHANGED rtspCrash

RtspErase(g) ==
  /\ rtsp[g].pc = "erase" /\ RtspMtxFree
  /\ LET same == \E i \in 1..Len(rtspMod.objs) : rtsp[rtspMod.objs[i]].id = rtsp[g].id IN
       rtspMod' = [rtspMod EXCEPT !.objs = IF same THEN RemoveAt(@, RtspFirst(g)) ELSE @]
  /\ RtspGo(g, "freed")
  /\ UNCHANGED rtspCrash

RtspThread(g) ==
  \/ RtspInit(g) \/ RtspSetRunning(g) \/ RtspStart(g) \/ RtspReady(g) \/ RtspListed(g)
  \/ RtspLoop(g) \/ RtspProcess(g) \/ RtspStop(g) \/ RtspDrain(g) \/ RtspErase(g)

-----------------------------------------------------------------------------
(* The thread that stops the task (TaskRuntime has its other races).       *)

RtspTaskStops(g) ==
  /\ g \in RtspStopped /\ RtspInLoop(g) /\ ~rtsp[g].stopping
  /\ rtsp' = [rtsp EXCEPT ![g].stopping = TRUE]
  /\ UNCHANGED <<rtspMod, rtspCrash>>

\* RtspNotify clears running before it takes the mutex of the object.
RtspNotify(g) ==
  /\ RtspExists(g) /\ rtsp[g].stopping /\ rtsp[g].notify = "no"
  /\ rtsp' = [rtsp EXCEPT ![g].running = FALSE, ![g].notify = "flag"]
  /\ UNCHANGED <<rtspMod, rtspCrash>>

\* Mutant of RtspNotifyAll: nobody is woken.
RtspNotifyNobody(g) ==
  /\ rtsp[g].notify = "flag"
  /\ rtsp' = [rtsp EXCEPT ![g].notify = "done"]
  /\ UNCHANGED <<rtspMod, rtspCrash>>

RtspNotifyAll(g) ==
  /\ rtsp[g].notify = "flag"
  /\ IF ~RtspExists(g) THEN rtspCrash' = "notify" /\ UNCHANGED rtsp
     ELSE /\ rtsp' = [rtsp EXCEPT ![g].notify = "done",
                                  ![g].pc = IF @ = "wait" THEN "woken" ELSE @]
          /\ UNCHANGED rtspCrash
  /\ UNCHANGED rtspMod

RtspNext ==
  /\ rtspCrash = "no"
  /\ \/ RtspDaemon
     \/ \E g \in RtspGen : \/ RtspCallback(g) \/ RtspThread(g) \/ RtspTaskStops(g)
                           \/ RtspNotify(g) \/ RtspNotifyAll(g)

RtspSpec == RtspInitial /\ [][RtspNext]_rtspVars

\* The scheduler runs the daemon, the elements' threads and the one that stops a
\* task; a camera that is called again and again answers at last. Frames and stops
\* are owed to nobody.
RtspFairness ==
  /\ WF_rtspVars(rtspCrash = "no" /\ RtspDaemon)
  /\ \A g \in RtspGen :
       /\ SF_rtspVars(rtspCrash = "no" /\ RtspThread(g))
       /\ WF_rtspVars(rtspCrash = "no" /\ (RtspNotify(g) \/ RtspNotifyAll(g)))
       /\ SF_rtspVars(rtspCrash = "no" /\ RtspDaemonPlay(g, TRUE))

-----------------------------------------------------------------------------
(* Properties.                                                             *)

RtspDistinct == \A g, h \in RtspGen : rtsp[g].id = rtsp[h].id => g = h \/ rtsp[g].id = "none"

\* The daemon walks module.objs under obj_mtx and never meets an object that
\* RtspStop has deleted, as long as no two elements have the same camera (two
\* tasks of one object do).
RtspDaemonOnLive == rtspCrash = "daemon" => ~RtspDistinct

\* RtspProcess gives out frames that RtspCallback made, in the order of their
\* numbers and none twice, whatever the daemon, a full queue and RtspStop do: the
\* source is a FrameStream.
RtspStream == INSTANCE FrameStream WITH
                Stream <- RtspGen,
                made <- [g \in RtspGen |-> rtsp[g].frame],
                given <- [g \in RtspGen |-> rtsp[g].out],
                count <- [g \in RtspGen |-> rtsp[g].outs]

RtspImplementsStream == RtspStream!Spec

\* A thread that waits for a camera that stays silent gets out of RtspProcess when
\* its task is stopped, and through RtspStop.
RtspStopEnds ==
  \A g \in RtspGen : rtsp[g].stopping ~> (rtsp[g].pc = "freed" \/ rtspCrash # "no")

\* "detect exception,restart it": a player that has gone silent is played again,
\* unless the daemon ended because it came before running was set.
RtspPlaysAgain ==
  \A g \in RtspGen :
    (g \in ToSet(rtspMod.objs) /\ ~rtsp[g].playing)
      ~> (\/ rtsp[g].playing \/ rtsp[g].stopping \/ rtspMod.daemon = "ended"
          \/ rtspCrash # "no")
==============================================================================
