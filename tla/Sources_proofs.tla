--------------------------- MODULE Sources_proofs ----------------------------
(***************************************************************************)
(* RtspSource and RtmpSource implement FrameStream, for every number of    *)
(* elements, queue length and bound on frames.  The inductive invariant:   *)
(* the queue of an element holds numbers that rise, above the last frame   *)
(* given out and up to the last one made.  What a stop may not leave       *)
(* behind needs an invariant of its own for each.                          *)
(***************************************************************************)
EXTENDS RtspSource, RtmpSource, TLAPS

-----------------------------------------------------------------------------
(* The rtsp source.                                                        *)

RtspId == {"none"} \cup UNION {RtspChannel[g] : g \in RtspGen}
RtspPC == {"none", "inited", "init", "null", "played", "ready", "loop", "get", "wait", "woken",
           "stop", "drain", "erase", "freed"}

RtspRecord ==
  [id : RtspId, pc : RtspPC,
   playing : BOOLEAN, running : BOOLEAN, stopping : BOOLEAN, notify : {"no", "flag", "done"},
   queue : Seq(Nat), qmax : Nat, frame : Nat, out : Nat, outs : Nat, age : Nat]

RtspOrdered(r) ==
  /\ r.out <= r.frame
  /\ \A i \in 1..Len(r.queue) : r.out < r.queue[i] /\ r.queue[i] <= r.frame
  /\ \A i, j \in 1..Len(r.queue) : i < j => r.queue[i] < r.queue[j]

RtspInvariant ==
  /\ rtsp \in [RtspGen -> RtspRecord]
  /\ \A g \in RtspGen : RtspOrdered(rtsp[g])

\* What a step that neither makes nor gives a frame leaves as it was: it may empty
\* a queue.
RtspQuiet ==
  /\ rtsp' \in [RtspGen -> RtspRecord]
  /\ \A g \in RtspGen :
       /\ rtsp'[g].frame = rtsp[g].frame
       /\ rtsp'[g].out = rtsp[g].out
       /\ rtsp'[g].outs = rtsp[g].outs
       /\ rtsp'[g].queue \in {rtsp[g].queue, <<>>}

\* The initial states satisfy the invariant, whatever the constants are.
LEMMA RtspInitialOrdered == RtspInitial => RtspInvariant
  <1> SUFFICES ASSUME RtspInitial PROVE RtspInvariant
    OBVIOUS
  <1>1. rtsp \in [RtspGen -> RtspRecord]
    BY DEF RtspInitial, RtspRecord, RtspPC, RtspId
  <1>2. ASSUME NEW g \in RtspGen PROVE RtspOrdered(rtsp[g])
    BY DEF RtspInitial, RtspOrdered
  <1> QED
    BY <1>1, <1>2 DEF RtspInvariant

\* A quiet step keeps the invariant: nothing comes into a queue.
LEMMA RtspQuietKeeps == RtspInvariant /\ RtspQuiet => RtspInvariant'
  <1> SUFFICES ASSUME RtspInvariant, RtspQuiet, NEW g \in RtspGen
               PROVE  RtspOrdered(rtsp'[g])
    BY DEF RtspInvariant, RtspQuiet
  <1>1. CASE rtsp'[g].queue = rtsp[g].queue
    BY <1>1 DEF RtspInvariant, RtspQuiet, RtspOrdered
  <1>2. CASE rtsp'[g].queue = <<>>
    BY <1>2 DEF RtspInvariant, RtspQuiet, RtspOrdered
  <1> QED
    BY <1>1, <1>2 DEF RtspQuiet

\* A step that leaves the elements alone is quiet.
LEMMA RtspSameQuiet == RtspInvariant /\ UNCHANGED rtsp => RtspQuiet
  BY DEF RtspInvariant, RtspQuiet

\* A record of the element g with the frames it has now, or with an empty queue.
RtspAlike(g, r) ==
  /\ r \in RtspRecord
  /\ r.frame = rtsp[g].frame /\ r.out = rtsp[g].out /\ r.outs = rtsp[g].outs
  /\ r.queue \in {rtsp[g].queue, <<>>}

\* A step that gives one element such a record is quiet.
LEMMA RtspOneQuiet ==
  ASSUME RtspInvariant, NEW g \in RtspGen, NEW r, RtspAlike(g, r),
         rtsp' = [rtsp EXCEPT ![g] = r]
  PROVE  RtspQuiet
  BY DEF RtspInvariant, RtspQuiet, RtspAlike

\* A step of a thread from one place to another is quiet.
LEMMA RtspGoQuiet ==
  ASSUME RtspInvariant, NEW g \in RtspGen, NEW to \in RtspPC, RtspGo(g, to)
  PROVE  RtspQuiet
  <1> DEFINE r == [rtsp[g] EXCEPT !.pc = to]
  <1>1. RtspAlike(g, r)
    BY DEF RtspInvariant, RtspRecord, RtspAlike
  <1> QED
    BY <1>1, RtspOneQuiet DEF RtspGo

\* RtspDaemon renews beats and plays or stops cameras, and touches no frame.
LEMMA RtspDaemonQuiet == RtspInvariant /\ RtspDaemon => RtspQuiet
  <1> SUFFICES ASSUME RtspInvariant, RtspDaemon PROVE RtspQuiet
    OBVIOUS
  <1>1. CASE RtspDaemonPass
    <2>1. CASE rtspMod.running
      <3> DEFINE r(g) == [rtsp[g] EXCEPT !.age = IF @ > RtspLate THEN @ ELSE @ + 1]
      <3>1. ASSUME NEW g \in RtspGen PROVE RtspAlike(g, r(g))
        <4> DEFINE a == IF rtsp[g].age > RtspLate THEN rtsp[g].age ELSE rtsp[g].age + 1
        <4>1. a \in Nat
          BY RtspAssumption DEF RtspInvariant, RtspRecord
        <4> HIDE DEF a
        <4>2. RtspAlike(g, [rtsp[g] EXCEPT !.age = a])
          BY <4>1 DEF RtspInvariant, RtspRecord, RtspAlike
        <4> QED
          BY <4>2 DEF a
      <3>2. rtsp' = [g \in RtspGen |-> r(g)]
        BY <1>1, <2>1 DEF RtspDaemonPass
      <3> HIDE DEF r
      <3> QED
        BY <3>1, <3>2 DEF RtspQuiet, RtspAlike
    <2>2. CASE ~rtspMod.running
      BY <1>1, <2>2, RtspSameQuiet DEF RtspDaemonPass
    <2> QED
      BY <2>1, <2>2
  <1>2. CASE RtspDaemonLook
    <2> DEFINE g == rtspMod.objs[rtspMod.i]
               r == [rtsp[g] EXCEPT !.playing = FALSE]
    <2>1. CASE UNCHANGED rtsp
      BY <2>1, RtspSameQuiet
    <2>2. CASE rtsp' = [rtsp EXCEPT ![g] = r] /\ g \in RtspGen
      <3>1. RtspAlike(g, r)
        BY ZenonT(30), <2>2 DEF RtspInvariant, RtspRecord, RtspAlike
      <3> QED
        BY <2>2, <3>1, RtspOneQuiet
    <2>3. CASE rtsp' = [rtsp EXCEPT ![g] = r] /\ g \notin RtspGen
      <3>1. UNCHANGED rtsp
        BY <2>3 DEF RtspInvariant
      <3> QED
        BY <3>1, RtspSameQuiet
    <2> QED
      BY <1>2, <2>1, <2>2, <2>3 DEF RtspDaemonLook
  <1>3. CASE RtspDaemonSleeps
    BY <1>3, RtspSameQuiet DEF RtspDaemonSleeps
  <1>4. ASSUME NEW g \in RtspGen, NEW ok \in BOOLEAN, RtspDaemonPlay(g, ok)
        PROVE  RtspQuiet
    <2> DEFINE r == [rtsp[g] EXCEPT !.playing = ok, !.age = 0]
    <2>1. RtspAlike(g, r)
      BY DEF RtspInvariant, RtspRecord, RtspAlike
    <2> QED
      BY <1>4, <2>1, RtspOneQuiet DEF RtspDaemonPlay
  <1> QED
    BY <1>1, <1>2, <1>3, <1>4 DEF RtspDaemon

\* Of the element's thread, only RtspProcess gives a frame.
LEMMA RtspThreadQuiet ==
  ASSUME RtspInvariant, NEW g \in RtspGen, RtspThread(g), ~RtspProcess(g)
  PROVE  RtspQuiet
  <1>1. CASE RtspInit(g) \/ RtspSetRunning(g) \/ RtspListed(g) \/ RtspLoop(g) \/ RtspErase(g)
    <2>1. \E to \in RtspPC : RtspGo(g, to)
      BY <1>1 DEF RtspInit, RtspSetRunning, RtspListed, RtspLoop, RtspErase, RtspPC
    <2> QED
      BY <2>1, RtspGoQuiet
  <1>2. CASE RtspStart(g)
    <2>1. CASE RtspGo(g, "null")
      BY <2>1, RtspGoQuiet DEF RtspPC
    <2>2. ASSUME NEW c \in RtspChannel[g],
                 rtsp' = [rtsp EXCEPT ![g].id = c, ![g].pc = "played", ![g].playing = TRUE,
                                      ![g].age = 0]
          PROVE  RtspQuiet
      <3> DEFINE r == [rtsp[g] EXCEPT !.id = c, !.pc = "played", !.playing = TRUE, !.age = 0]
      <3>1. c \in RtspId
        BY DEF RtspId
      <3>2. RtspAlike(g, r)
        BY ZenonT(30), <3>1 DEF RtspInvariant, RtspRecord, RtspAlike, RtspPC
      <3> QED
        BY <2>2, <3>2, RtspOneQuiet
    <2> QED
      BY <1>2, <2>1, <2>2 DEF RtspStart
  <1>3. CASE RtspReady(g)
    <2> DEFINE r == [rtsp[g] EXCEPT !.qmax = RtspQueueLen, !.running = TRUE, !.pc = "ready"]
    <2>1. RtspAlike(g, r)
      BY ZenonT(30), RtspAssumption DEF RtspInvariant, RtspRecord, RtspAlike, RtspPC
    <2> QED
      BY <1>3, <2>1, RtspOneQuiet DEF RtspReady
  <1>4. CASE RtspStop(g)
    <2> DEFINE r == [rtsp[g] EXCEPT !.running = FALSE, !.playing = FALSE, !.pc = "drain"]
    <2>1. RtspAlike(g, r)
      BY ZenonT(30) DEF RtspInvariant, RtspRecord, RtspAlike, RtspPC
    <2> QED
      BY <1>4, <2>1, RtspOneQuiet DEF RtspStop
  <1>5. CASE RtspDrain(g)
    <2> DEFINE none == <<>>
               r == [rtsp[g] EXCEPT !.queue = none, !.pc = "erase"]
    <2>1. none \in Seq(Nat)
      OBVIOUS
    <2>2. CASE rtsp' = [rtsp EXCEPT ![g] = r]
      <3> HIDE DEF none
      <3>1. /\ r \in RtspRecord /\ r.queue = none
            /\ r.frame = rtsp[g].frame /\ r.out = rtsp[g].out /\ r.outs = rtsp[g].outs
        BY ZenonT(30), <2>1 DEF RtspInvariant, RtspRecord, RtspPC
      <3>2. RtspAlike(g, r)
        BY <3>1 DEF RtspAlike, none
      <3> QED
        BY <2>2, <3>2, RtspOneQuiet
    <2> QED
      BY <1>5, <2>2 DEF RtspDrain
  <1> QED
    BY <1>1, <1>2, <1>3, <1>4, <1>5 DEF RtspThread

\* The thread that stops the task sets flags and wakes the element.
LEMMA RtspStopQuiet ==
  ASSUME RtspInvariant, NEW g \in RtspGen,
         RtspTaskStops(g) \/ RtspNotify(g) \/ RtspNotifyAll(g)
  PROVE  RtspQuiet
  <1>1. CASE RtspTaskStops(g)
    <2> DEFINE r == [rtsp[g] EXCEPT !.stopping = TRUE]
    <2>1. RtspAlike(g, r)
      BY DEF RtspInvariant, RtspRecord, RtspAlike
    <2> QED
      BY <1>1, <2>1, RtspOneQuiet DEF RtspTaskStops
  <1>2. CASE RtspNotify(g)
    <2> DEFINE r == [rtsp[g] EXCEPT !.running = FALSE, !.notify = "flag"]
    <2>1. RtspAlike(g, r)
      BY DEF RtspInvariant, RtspRecord, RtspAlike
    <2> QED
      BY <1>2, <2>1, RtspOneQuiet DEF RtspNotify
  <1>3. CASE RtspNotifyAll(g)
    <2> DEFINE p == IF rtsp[g].pc = "wait" THEN "woken" ELSE rtsp[g].pc
               r == [rtsp[g] EXCEPT !.notify = "done", !.pc = p]
    <2>1. p \in RtspPC
      BY DEF RtspInvariant, RtspRecord, RtspPC
    <2>2. CASE rtsp' = [rtsp EXCEPT ![g] = r]
      <3> HIDE DEF p
      <3>1. RtspAlike(g, r)
        BY <2>1 DEF RtspInvariant, RtspRecord, RtspAlike
      <3> QED
        BY <2>2, <3>1, RtspOneQuiet
    <2> QED
      BY <1>3, <2>2, RtspSameQuiet, RtspSameQuiet DEF RtspNotifyAll
  <1> QED
    BY <1>1, <1>2, <1>3
\* What the stream that is implemented sees of a quiet step: nothing.
LEMMA RtspQuietStutters ==
  ASSUME RtspQuiet
  PROVE  UNCHANGED RtspStream!streamVars
  BY DEF RtspQuiet, RtspStream!streamVars

\* RtspCallback makes the next frame, or meets a deleted object and does nothing.
LEMMA RtspCallbackMakes ==
  ASSUME RtspInvariant, NEW g \in RtspGen, RtspCallback(g), RtspExists(g)
  PROVE  RtspInvariant' /\ RtspStream!Make(g)
  <1> DEFINE n == rtsp[g].frame + 1
             q == IF Len(rtsp[g].queue) < rtsp[g].qmax
                    THEN Append(rtsp[g].queue, n) ELSE rtsp[g].queue
             p == IF rtsp[g].pc = "wait" THEN "woken" ELSE rtsp[g].pc
             r == [rtsp[g] EXCEPT !.frame = n, !.queue = q, !.pc = p, !.age = 0]
  <1>1. rtsp[g] \in RtspRecord /\ RtspOrdered(rtsp[g])
    BY DEF RtspInvariant
  <1>2. n \in Nat /\ q \in Seq(Nat) /\ p \in RtspPC
    BY <1>1 DEF RtspRecord, RtspPC
  <1>3. /\ \A i \in 1..Len(q) : rtsp[g].out < q[i] /\ q[i] <= n
        /\ \A i, j \in 1..Len(q) : i < j => q[i] < q[j]
        /\ rtsp[g].out <= n
    <2>1. CASE Len(rtsp[g].queue) < rtsp[g].qmax
      <3>1. /\ Len(q) = Len(rtsp[g].queue) + 1 /\ q[Len(q)] = n
            /\ \A i \in 1..Len(q) - 1 : q[i] = rtsp[g].queue[i] /\ i \in 1..Len(rtsp[g].queue)
        BY <1>1, <1>2, <2>1 DEF RtspRecord
      <3> HIDE DEF q
      <3>2. /\ Len(rtsp[g].queue) \in Nat /\ rtsp[g].frame \in Nat /\ rtsp[g].out \in Nat
            /\ n = rtsp[g].frame + 1
            /\ \A i \in 1..Len(rtsp[g].queue) : rtsp[g].queue[i] \in Nat
        BY <1>1 DEF RtspRecord
      <3>3. ASSUME NEW i \in 1..Len(q) PROVE rtsp[g].out < q[i] /\ q[i] <= n
        <4>1. CASE i = Len(q)
          BY <1>1, <3>1, <3>2, <4>1 DEF RtspOrdered
        <4>2. CASE i # Len(q)
          <5>1. i \in 1..Len(q) - 1
            BY <3>1, <3>2, <4>2
          <5>2. q[i] = rtsp[g].queue[i] /\ i \in 1..Len(rtsp[g].queue)
            BY <3>1, <5>1
          <5>3. rtsp[g].out < rtsp[g].queue[i] /\ rtsp[g].queue[i] <= rtsp[g].frame
            BY <1>1, <5>2 DEF RtspOrdered
          <5> QED
            BY <3>2, <5>2, <5>3
        <4> QED
          BY <4>1, <4>2
      <3>4. ASSUME NEW i \in 1..Len(q), NEW j \in 1..Len(q), i < j PROVE q[i] < q[j]
        <4>1. i \in 1..Len(q) - 1
          BY <3>1, <3>2, <3>4
        <4>2. CASE j = Len(q)
          BY SMTT(20), <1>1, <3>1, <3>2, <4>1, <4>2 DEF RtspOrdered
        <4>3. CASE j # Len(q)
          BY SMTT(20), <1>1, <3>1, <3>2, <3>4, <4>1, <4>3 DEF RtspOrdered
        <4> QED
          BY <4>2, <4>3
      <3> QED
        BY <1>1, <3>2, <3>3, <3>4 DEF RtspOrdered
    <2>2. CASE ~(Len(rtsp[g].queue) < rtsp[g].qmax)
      BY <1>1, <2>2 DEF RtspOrdered, RtspRecord
    <2> QED
      BY <2>1, <2>2
  <1>4. rtsp' = [rtsp EXCEPT ![g] = r]
    BY DEF RtspCallback
  <1> HIDE DEF n, q, p
  <1>5. /\ r \in RtspRecord
        /\ r.frame = n /\ r.queue = q /\ r.out = rtsp[g].out /\ r.outs = rtsp[g].outs
    BY <1>1, <1>2 DEF RtspRecord
  <1> HIDE DEF r
  <1>6. RtspOrdered(r)
    BY <1>3, <1>5 DEF RtspOrdered
  <1>7. RtspInvariant'
    BY <1>4, <1>5, <1>6 DEF RtspInvariant
  <1>8. RtspStream!Make(g)
    BY <1>4, <1>5 DEF RtspStream!Make, RtspInvariant, n
  <1> QED
    BY <1>7, <1>8

\* RtspProcess gives the oldest frame of the queue, which is newer than the last
\* one and older than those that stay.
LEMMA RtspTakeGives ==
  ASSUME RtspInvariant, NEW g \in RtspGen, rtsp[g].queue # <<>>, RtspTake(g)
  PROVE  RtspInvariant' /\ RtspStream!Give(g)
  <1> DEFINE n == Head(rtsp[g].queue)
             q == Tail(rtsp[g].queue)
             c == rtsp[g].outs + 1
             r == [rtsp[g] EXCEPT !.out = n, !.outs = c, !.queue = q, !.pc = "loop"]
  <1>1. rtsp[g] \in RtspRecord /\ RtspOrdered(rtsp[g])
    BY DEF RtspInvariant
  <1>2. n \in Nat /\ q \in Seq(Nat) /\ c \in Nat
    BY <1>1 DEF RtspRecord
  <1>3. rtsp[g].out < n /\ n <= rtsp[g].frame
    BY <1>1 DEF RtspRecord, RtspOrdered
  <1>4. /\ Len(q) = Len(rtsp[g].queue) - 1
        /\ \A i \in 1..Len(q) : q[i] = rtsp[g].queue[i + 1] /\ i + 1 \in 1..Len(rtsp[g].queue)
    BY <1>1 DEF RtspRecord
  <1>5. \A i \in 1..Len(q) : n < q[i] /\ q[i] <= rtsp[g].frame
    BY SMTT(20), <1>1, <1>4 DEF RtspRecord, RtspOrdered
  <1>6. \A i, j \in 1..Len(q) : i < j => q[i] < q[j]
    BY <1>1, <1>4 DEF RtspRecord, RtspOrdered
  <1>7. rtsp' = [rtsp EXCEPT ![g] = r]
    BY DEF RtspTake
  <1> HIDE DEF n, q, c
  <1>8. /\ r \in RtspRecord
        /\ r.frame = rtsp[g].frame /\ r.queue = q /\ r.out = n /\ r.outs = c
    BY <1>1, <1>2 DEF RtspRecord, RtspPC
  <1> HIDE DEF r
  <1>9. RtspOrdered(r)
    BY <1>3, <1>5, <1>6, <1>8 DEF RtspOrdered
  <1>10. RtspInvariant'
    BY <1>7, <1>8, <1>9 DEF RtspInvariant
  <1>11. RtspStream!Give(g)
    <2>1. n \in (rtsp[g].out + 1)..rtsp[g].frame
      BY <1>1, <1>2, <1>3 DEF RtspRecord
    <2> QED
      BY <1>7, <1>8, <2>1 DEF RtspStream!Give, RtspInvariant, c
  <1> QED
    BY <1>10, <1>11

\* Every step keeps the invariant and is a step of the stream, or none.
LEMMA RtspStepImplements ==
  ASSUME RtspInvariant, [RtspNext]_rtspVars
  PROVE  RtspInvariant' /\ [RtspStream!Next]_(RtspStream!streamVars)
  <1>1. CASE RtspQuiet
    BY <1>1, RtspQuietKeeps, RtspQuietStutters
  <1>2. ASSUME NEW g \in RtspGen, RtspCallback(g)
        PROVE  RtspInvariant' /\ [RtspStream!Next]_(RtspStream!streamVars)
    <2>1. CASE RtspExists(g)
      BY <1>2, <2>1, RtspCallbackMakes DEF RtspStream!Next
    <2>2. CASE ~RtspExists(g)
      BY <1>1, <1>2, <2>2, RtspSameQuiet DEF RtspCallback
    <2> QED
      BY <2>1, <2>2
  <1>3. ASSUME NEW g \in RtspGen, RtspProcess(g)
        PROVE  RtspInvariant' /\ [RtspStream!Next]_(RtspStream!streamVars)
    <2>1. CASE rtsp[g].queue # <<>> /\ RtspTake(g)
      BY <2>1, RtspTakeGives DEF RtspStream!Next
    <2>2. CASE \E to \in RtspPC : RtspGo(g, to)
      BY <1>1, <2>2, RtspGoQuiet
    <2> QED
      BY <1>3, <2>1, <2>2 DEF RtspProcess, RtspPC
  <1>4. CASE UNCHANGED rtspVars
    BY <1>1, <1>4, RtspSameQuiet DEF rtspVars
  <1> QED
    BY <1>1, <1>2, <1>3, <1>4, RtspDaemonQuiet, RtspThreadQuiet, RtspStopQuiet DEF RtspNext

\* RtspProcess gives out frames that RtspCallback made, in order and none twice, for
\* any number of cameras, any queue_len and whatever the daemon and a stop do.
THEOREM RtspImplements == RtspSpec => RtspImplementsStream
  <1>1. RtspInitial => RtspStream!Init
    BY DEF RtspInitial, RtspStream!Init
  <1>2. RtspInvariant /\ [RtspNext]_rtspVars => RtspInvariant'
    BY RtspStepImplements
  <1>3. RtspInvariant /\ [RtspNext]_rtspVars => [RtspStream!Next]_(RtspStream!streamVars)
    BY RtspStepImplements
  <1> QED
    BY <1>1, <1>2, <1>3, RtspInitialOrdered, PTL
      DEF RtspSpec, RtspImplementsStream, RtspStream!Spec
-----------------------------------------------------------------------------
(* The daemon meets no deleted object.                                     *)

RtspUnborn == {"none", "inited", "init", "null"}
RtspAlive == {"loop", "get", "wait", "woken", "stop", "drain", "erase"}

\* An object has its id from when it is made, and every entry of module.objs is
\* an object that is there, in one entry only, as long as the ids differ.
RtspNamed(g) == rtsp[g].pc \in RtspUnborn <=> rtsp[g].id = "none"

RtspEntries ==
  /\ rtspMod.objs \in Seq(RtspGen)
  /\ \A i \in 1..Len(rtspMod.objs) : rtsp[rtspMod.objs[i]].pc \in RtspAlive
  /\ \A i, j \in 1..Len(rtspMod.objs) : rtspMod.objs[i] = rtspMod.objs[j] => i = j

RtspListInvariant ==
  /\ DOMAIN rtspMod = {"init", "running", "objs", "daemon", "i"} /\ rtspMod.i \in Nat \ {0}
  /\ \A g \in RtspGen : RtspNamed(g)
  /\ RtspDistinct => RtspEntries

\* A step that neither makes an object nor puts one into the list or deletes it.
RtspCalm ==
  /\ DOMAIN rtspMod' = DOMAIN rtspMod /\ rtspMod'.i \in Nat \ {0}
  /\ rtspMod'.objs = rtspMod.objs
  /\ \A g \in RtspGen :
       /\ rtsp'[g].id = rtsp[g].id
       /\ rtsp'[g].pc \in RtspUnborn <=> rtsp[g].pc \in RtspUnborn
       /\ rtsp[g].pc \in RtspAlive => rtsp'[g].pc \in RtspAlive

\* Calm steps keep the list.
LEMMA RtspCalmKeeps == RtspListInvariant /\ RtspCalm => RtspListInvariant'
  <1> SUFFICES ASSUME RtspListInvariant, RtspCalm PROVE RtspListInvariant'
    OBVIOUS
  <1>1. \A g \in RtspGen : RtspNamed(g)'
    BY DEF RtspListInvariant, RtspCalm, RtspNamed
  <1>2. ASSUME RtspDistinct' PROVE RtspEntries'
    <2>1. RtspDistinct
      BY <1>2 DEF RtspCalm, RtspDistinct
    <2>2. RtspEntries
      BY <2>1 DEF RtspListInvariant
    <2>3. \A i \in 1..Len(rtspMod.objs) : rtspMod.objs[i] \in RtspGen
      BY <2>2 DEF RtspEntries
    <2> QED
      BY <2>2, <2>3 DEF RtspCalm, RtspEntries
  <1>3. /\ DOMAIN rtspMod' = {"init", "running", "objs", "daemon", "i"}
        /\ rtspMod'.i \in Nat \ {0}
    BY DEF RtspListInvariant, RtspCalm
  <1> QED
    BY <1>1, <1>2, <1>3 DEF RtspListInvariant

\* A step of one thread that stays in its part of the object's life.
LEMMA RtspOneCalm ==
  ASSUME RtspInvariant, NEW g \in RtspGen, NEW r, rtsp' = [rtsp EXCEPT ![g] = r],
         r.id = rtsp[g].id,
         \/ r.pc = rtsp[g].pc
         \/ r.pc \in RtspUnborn /\ rtsp[g].pc \in RtspUnborn
         \/ r.pc \in RtspAlive /\ rtsp[g].pc \in RtspAlive
         \/ r.pc = "ready" /\ rtsp[g].pc = "played",
         DOMAIN rtspMod' = DOMAIN rtspMod, rtspMod'.i \in Nat \ {0},
         rtspMod'.objs = rtspMod.objs
  PROVE  RtspCalm
  <1>1. rtsp'[g] = r /\ \A h \in RtspGen : h # g => rtsp'[h] = rtsp[h]
    BY DEF RtspInvariant
  <1>2. /\ r.pc \in RtspUnborn <=> rtsp[g].pc \in RtspUnborn
        /\ rtsp[g].pc \in RtspAlive => r.pc \in RtspAlive
    BY DEF RtspUnborn, RtspAlive
  <1> QED
    BY <1>1, <1>2 DEF RtspCalm

\* The same for a step that only moves the thread.
LEMMA RtspGoCalm ==
  ASSUME RtspInvariant, NEW g \in RtspGen, NEW to, RtspGo(g, to),
         \/ to \in RtspUnborn /\ rtsp[g].pc \in RtspUnborn
         \/ to \in RtspAlive /\ rtsp[g].pc \in RtspAlive,
         DOMAIN rtspMod' = DOMAIN rtspMod, rtspMod'.i \in Nat \ {0},
         rtspMod'.objs = rtspMod.objs
  PROVE  RtspCalm
  <1> DEFINE r == [rtsp[g] EXCEPT !.pc = to]
  <1>1. r.id = rtsp[g].id /\ r.pc = to
    BY DEF RtspInvariant, RtspRecord
  <1>2. rtsp' = [rtsp EXCEPT ![g] = r]
    BY DEF RtspGo
  <1> HIDE DEF r
  <1> QED
    BY <1>1, <1>2, RtspOneCalm

\* The element that RtspStart makes has an id, and is not listed yet.
LEMMA RtspStartLists ==
  ASSUME RtspInvariant, RtspListInvariant, NEW g \in RtspGen, RtspStart(g)
  PROVE  RtspListInvariant'
  <1>1. rtsp[g] \in RtspRecord /\ rtsp[g].pc = "init" /\ rtspMod' = rtspMod
    BY DEF RtspInvariant, RtspStart
  <1>2. CASE RtspGo(g, "null")
    <2>1. RtspCalm
      BY <1>1, <1>2, RtspGoCalm DEF RtspUnborn, RtspListInvariant
    <2> QED
      BY <2>1, RtspCalmKeeps
  <1>3. ASSUME NEW c \in RtspChannel[g],
               rtsp' = [rtsp EXCEPT ![g].id = c, ![g].pc = "played", ![g].playing = TRUE,
                                    ![g].age = 0]
        PROVE  RtspListInvariant'
    <2>1. c # "none"
      BY RtspAssumption
    <2>2. /\ rtsp'[g].id = c /\ rtsp'[g].pc = "played"
          /\ \A h \in RtspGen : h # g => rtsp'[h] = rtsp[h]
      BY <1>1, <1>3 DEF RtspInvariant, RtspRecord
    <2>3. rtsp[g].id = "none"
      BY <1>1 DEF RtspListInvariant, RtspNamed, RtspUnborn
    <2>4. \A h \in RtspGen : RtspNamed(h)'
      BY <2>1, <2>2 DEF RtspListInvariant, RtspNamed, RtspUnborn
    <2>5. ASSUME RtspDistinct' PROVE RtspEntries'
      <3>1. RtspDistinct
        BY <2>2, <2>3, <2>5 DEF RtspDistinct
      <3>2. RtspEntries
        BY <3>1 DEF RtspListInvariant
      <3>3. ASSUME NEW i \in 1..Len(rtspMod.objs)
            PROVE  rtsp'[rtspMod.objs[i]].pc \in RtspAlive
        <4>1. rtspMod.objs[i] \in RtspGen /\ rtsp[rtspMod.objs[i]].pc \in RtspAlive
          BY <3>2 DEF RtspEntries
        <4>2. rtspMod.objs[i] # g
          BY <1>1, <4>1 DEF RtspAlive
        <4> QED
          BY <2>2, <4>1, <4>2
      <3> QED
        BY <1>1, <3>2, <3>3 DEF RtspEntries
    <2> QED
      BY <1>1, <2>4, <2>5 DEF RtspListInvariant
  <1> QED
    BY <1>2, <1>3 DEF RtspStart

\* What Append and RemoveAt do to a list without repetitions.
LEMMA ListAppended ==
  ASSUME NEW S, NEW s \in Seq(S), NEW x \in S, \A i \in 1..Len(s) : s[i] # x,
         \A i, j \in 1..Len(s) : s[i] = s[j] => i = j
  PROVE  /\ Append(s, x) \in Seq(S)
         /\ \A i \in 1..Len(Append(s, x)) :
              Append(s, x)[i] = x \/ \E j \in 1..Len(s) : Append(s, x)[i] = s[j]
         /\ \A i, j \in 1..Len(Append(s, x)) : Append(s, x)[i] = Append(s, x)[j] => i = j
  <1>1. Append(s, x) \in Seq(S) /\ Len(Append(s, x)) = Len(s) + 1 /\ Len(s) \in Nat
    OBVIOUS
  <1>2. \A i \in 1..Len(s) + 1 : Append(s, x)[i] = IF i \in 1..Len(s) THEN s[i] ELSE x
    OBVIOUS
  <1> QED
    BY <1>1, <1>2

\* The same for RemoveAt: only the entry itself goes.
LEMMA ListRemoved ==
  ASSUME NEW S, NEW s \in Seq(S), NEW n \in 1..Len(s),
         \A i, j \in 1..Len(s) : s[i] = s[j] => i = j
  PROVE  /\ RemoveAt(s, n) \in Seq(S)
         /\ \A i \in 1..Len(RemoveAt(s, n)) :
              \E j \in 1..Len(s) : j # n /\ RemoveAt(s, n)[i] = s[j]
         /\ \A i, j \in 1..Len(RemoveAt(s, n)) : RemoveAt(s, n)[i] = RemoveAt(s, n)[j] => i = j
  <1> DEFINE a == SubSeq(s, 1, n - 1)
             b == SubSeq(s, n + 1, Len(s))
             t == RemoveAt(s, n)
  <1>1. /\ a \in Seq(S) /\ Len(a) = n - 1 /\ \A i \in 1..n - 1 : a[i] = s[i]
        /\ b \in Seq(S) /\ Len(b) = Len(s) - n /\ \A i \in 1..Len(s) - n : b[i] = s[n + i]
        /\ Len(s) \in Nat /\ n \in Nat
    OBVIOUS
  <1>2. t = a \o b
    BY DEF RemoveAt
  <1> HIDE DEF a, b, t
  <1>3. t \in Seq(S) /\ Len(t) = Len(s) - 1
    BY <1>1, <1>2
  <1>4. \A i \in 1..Len(s) - 1 : t[i] = IF i <= n - 1 THEN a[i] ELSE b[i - (n - 1)]
    BY <1>1, <1>2
  <1>5. \A i \in 1..Len(s) - 1 : t[i] = IF i < n THEN s[i] ELSE s[i + 1]
    <2> SUFFICES ASSUME NEW i \in 1..Len(s) - 1
                 PROVE  t[i] = IF i < n THEN s[i] ELSE s[i + 1]
      OBVIOUS
    <2>1. CASE i < n
      BY <1>1, <1>4, <2>1
    <2>2. CASE ~(i < n)
      <3>1. i - (n - 1) \in 1..Len(s) - n /\ n + (i - (n - 1)) = i + 1
        BY <1>1, <2>2
      <3> QED
        BY <1>1, <1>4, <2>2, <3>1
    <2> QED
      BY <2>1, <2>2
  <1>6. \A i \in 1..Len(t) : \E j \in 1..Len(s) : j # n /\ t[i] = s[j]
    BY <1>1, <1>3, <1>5
  <1>7. ASSUME NEW i \in 1..Len(t), NEW j \in 1..Len(t), t[i] = t[j] PROVE i = j
    <2>1. PICK k \in 1..Len(s) : k = (IF i < n THEN i ELSE i + 1) /\ t[i] = s[k]
      BY <1>1, <1>3, <1>5
    <2>2. PICK l \in 1..Len(s) : l = (IF j < n THEN j ELSE j + 1) /\ t[j] = s[l]
      BY <1>1, <1>3, <1>5
    <2>3. k = l
      BY <1>7, <2>1, <2>2
    <2> QED
      BY <1>1, <2>1, <2>2, <2>3
  <1> QED
    BY <1>3, <1>6, <1>7 DEF t

\* RtspListed puts an object into the list that is in no entry yet.
LEMMA RtspListedLists ==
  ASSUME RtspInvariant, RtspListInvariant, NEW g \in RtspGen, RtspListed(g)
  PROVE  RtspListInvariant'
  <1>1. /\ rtsp[g].pc = "ready" /\ rtsp'[g].pc = "loop" /\ rtsp'[g].id = rtsp[g].id
        /\ \A h \in RtspGen : h # g => rtsp'[h] = rtsp[h]
    BY DEF RtspInvariant, RtspRecord, RtspListed, RtspGo
  <1>2. /\ rtspMod'.objs = Append(rtspMod.objs, g)
        /\ DOMAIN rtspMod' = DOMAIN rtspMod /\ rtspMod'.i = rtspMod.i
    BY DEF RtspListed, RtspListInvariant
  <1>3. \A h \in RtspGen : RtspNamed(h)'
    BY <1>1 DEF RtspListInvariant, RtspNamed, RtspUnborn
  <1>4. ASSUME RtspDistinct' PROVE RtspEntries'
    <2> DEFINE s == rtspMod.objs
               t == rtspMod'.objs
    <2>1. RtspDistinct
      BY <1>1, <1>4 DEF RtspDistinct
    <2>2. RtspEntries
      BY <2>1 DEF RtspListInvariant
    <2>3. s \in Seq(RtspGen) /\ \A i \in 1..Len(s) : s[i] \in RtspGen /\ rtsp[s[i]].pc \in RtspAlive
      BY <2>2 DEF RtspEntries
    <2>4. \A i \in 1..Len(s) : s[i] # g
      BY <1>1, <2>3 DEF RtspAlive
    <2>5. \A i, j \in 1..Len(s) : s[i] = s[j] => i = j
      BY <2>2 DEF RtspEntries
    <2>6. t = Append(s, g)
      BY <1>2
    <2> HIDE DEF s, t
    <2>7. /\ t \in Seq(RtspGen)
          /\ \A i \in 1..Len(t) : t[i] = g \/ \E j \in 1..Len(s) : t[i] = s[j]
          /\ \A i, j \in 1..Len(t) : t[i] = t[j] => i = j
      BY <2>3, <2>4, <2>5, <2>6, ListAppended
    <2>8. ASSUME NEW i \in 1..Len(t) PROVE rtsp'[t[i]].pc \in RtspAlive
      <3>1. CASE t[i] = g
        BY <1>1, <3>1 DEF RtspAlive
      <3>2. ASSUME NEW j \in 1..Len(s), t[i] = s[j] PROVE rtsp'[t[i]].pc \in RtspAlive
        BY <1>1, <2>3, <2>4, <3>2
      <3> QED
        BY <2>7, <3>1, <3>2
    <2> QED
      BY <2>7, <2>8 DEF RtspEntries, t
  <1> QED
    BY <1>2, <1>3, <1>4 DEF RtspListInvariant

\* RtspErase takes the entry of the object itself out of the list, if it has one.
LEMMA RtspEraseLists ==
  ASSUME RtspInvariant, RtspListInvariant, NEW g \in RtspGen, RtspErase(g)
  PROVE  RtspListInvariant'
  <1>1. /\ rtsp[g].pc = "erase" /\ rtsp'[g].pc = "freed" /\ rtsp'[g].id = rtsp[g].id
        /\ \A h \in RtspGen : h # g => rtsp'[h] = rtsp[h]
    BY DEF RtspInvariant, RtspRecord, RtspErase, RtspGo
  <1> DEFINE s == rtspMod.objs
             t == rtspMod'.objs
             same == \E i \in 1..Len(s) : rtsp[s[i]].id = rtsp[g].id
  <1>2. /\ t = IF same THEN RemoveAt(s, RtspFirst(g)) ELSE s
        /\ DOMAIN rtspMod' = DOMAIN rtspMod /\ rtspMod'.i = rtspMod.i
    BY DEF RtspErase, RtspListInvariant
  <1>3. \A h \in RtspGen : RtspNamed(h)'
    BY <1>1 DEF RtspListInvariant, RtspNamed, RtspUnborn
  <1>4. ASSUME RtspDistinct' PROVE RtspEntries'
    <2>1. RtspDistinct
      BY <1>1, <1>4 DEF RtspDistinct
    <2>2. RtspEntries
      BY <2>1 DEF RtspListInvariant
    <2>3. s \in Seq(RtspGen) /\ \A i \in 1..Len(s) : s[i] \in RtspGen /\ rtsp[s[i]].pc \in RtspAlive
      BY <2>2 DEF RtspEntries
    <2>4. \A i, j \in 1..Len(s) : s[i] = s[j] => i = j
      BY <2>2 DEF RtspEntries
    <2>5. ASSUME NEW i \in 1..Len(s), rtsp[s[i]].id = rtsp[g].id PROVE s[i] = g
      <3>1. rtsp[g].id # "none"
        BY <1>1 DEF RtspListInvariant, RtspNamed, RtspUnborn
      <3> QED
        BY <2>1, <2>3, <2>5, <3>1 DEF RtspDistinct
    \* What has to be shown of the list that is left.
    <2>6. ASSUME /\ t \in Seq(RtspGen)
                 /\ \A i \in 1..Len(t) : \E j \in 1..Len(s) : s[j] # g /\ t[i] = s[j]
                 /\ \A i, j \in 1..Len(t) : t[i] = t[j] => i = j
          PROVE RtspEntries'
      <3>1. ASSUME NEW i \in 1..Len(t) PROVE rtsp'[t[i]].pc \in RtspAlive
        <4>1. PICK j \in 1..Len(s) : s[j] # g /\ t[i] = s[j]
          BY <2>6
        <4> QED
          BY <1>1, <2>3, <4>1
      <3> QED
        BY <2>6, <3>1 DEF RtspEntries
    <2>7. CASE same
      <3> DEFINE n == RtspFirst(g)
      <3>1. n \in 1..Len(s) /\ rtsp[s[n]].id = rtsp[g].id
        <4>1. PICK i \in 1..Len(s) : rtsp[s[i]].id = rtsp[g].id
          BY <2>7
        <4>2. \A j \in 1..i-1 : rtsp[s[j]].id # rtsp[g].id
          <5> SUFFICES ASSUME NEW j \in 1..i-1, rtsp[s[j]].id = rtsp[g].id PROVE FALSE
            OBVIOUS
          <5>1. j \in 1..Len(s) /\ j # i
            BY <2>3
          <5>2. s[j] = g /\ s[i] = g
            BY <2>5, <4>1, <5>1
          <5> QED
            BY <2>4, <5>1, <5>2
        <4> QED
          BY <4>1, <4>2 DEF RtspFirst
      <3>2. s[n] = g
        BY <2>5, <3>1
      <3>3. t = RemoveAt(s, n)
        BY <1>2, <2>7
      <3> HIDE DEF s, t, n, same
      <3>4. /\ t \in Seq(RtspGen)
            /\ \A i \in 1..Len(t) : \E j \in 1..Len(s) : j # n /\ t[i] = s[j]
            /\ \A i, j \in 1..Len(t) : t[i] = t[j] => i = j
        BY <2>3, <2>4, <3>1, <3>3, ListRemoved
      <3>5. \A j \in 1..Len(s) : j # n => s[j] # g
        BY <2>4, <3>1, <3>2
      <3> QED
        BY <2>6, <3>4, <3>5
    <2>8. CASE ~same
      <3>1. t = s /\ \A i \in 1..Len(s) : s[i] # g
        BY <1>2, <2>8
      <3> HIDE DEF s, t, same
      <3> QED
        BY <2>3, <2>4, <2>6, <3>1
    <2> QED
      BY <2>7, <2>8
  <1> QED
    BY <1>2, <1>3, <1>4 DEF RtspListInvariant

\* RtspDaemon renews beats, plays and stops cameras, and leaves the list alone.
LEMMA RtspDaemonCalm ==
  ASSUME RtspInvariant, RtspListInvariant, RtspDaemon
  PROVE  RtspCalm
  <1>1. /\ DOMAIN rtspMod = {"init", "running", "objs", "daemon", "i"}
        /\ rtspMod.i \in Nat \ {0} /\ rtspMod.i + 1 \in Nat \ {0}
    BY DEF RtspListInvariant
  <1>2. /\ DOMAIN rtspMod' = DOMAIN rtspMod /\ rtspMod'.i \in Nat \ {0}
        /\ rtspMod'.objs = rtspMod.objs
    <2>1. CASE RtspDaemonPass \/ RtspDaemonSleeps
      <3>1. CASE rtspMod' = [rtspMod EXCEPT !.daemon = "look", !.i = 1]
        BY <1>1, <3>1
      <3>2. CASE \E to : rtspMod' = [rtspMod EXCEPT !.daemon = to]
        BY <1>1, <3>2
      <3> QED
        BY <2>1, <3>1, <3>2 DEF RtspDaemonPass, RtspDaemonSleeps
    <2>2. CASE RtspDaemonLook
      <3>1. \/ rtspMod' = rtspMod \/ rtspMod' = [rtspMod EXCEPT !.i = @ + 1]
            \/ rtspMod' = [rtspMod EXCEPT !.daemon = "play"]
        BY <2>2 DEF RtspDaemonLook
      <3> QED
        BY <1>1, <3>1
    <2>3. CASE \E g \in RtspGen, ok \in BOOLEAN : RtspDaemonPlay(g, ok)
      BY <1>1, <2>3 DEF RtspDaemonPlay
    <2> QED
      BY <2>1, <2>2, <2>3 DEF RtspDaemon
  <1>3. ASSUME NEW h \in RtspGen PROVE rtsp'[h].id = rtsp[h].id /\ rtsp'[h].pc = rtsp[h].pc
    <2>1. rtsp \in [RtspGen -> RtspRecord] /\ rtsp[h] \in RtspRecord
      BY DEF RtspInvariant
    <2>2. CASE UNCHANGED rtsp
      BY <2>2
    <2>3. CASE RtspDaemonPass /\ ~UNCHANGED rtsp
      <3>1. PICK a : rtsp'[h] = [rtsp[h] EXCEPT !.age = a]
        BY <2>3 DEF RtspDaemonPass
      <3> QED
        BY <2>1, <3>1 DEF RtspRecord
    <2>4. CASE RtspDaemonLook /\ ~UNCHANGED rtsp
      <3>1. PICK g : rtsp' = [rtsp EXCEPT ![g].playing = FALSE]
        BY <2>4 DEF RtspDaemonLook
      <3>2. CASE g = h
        BY <2>1, <3>1, <3>2 DEF RtspRecord
      <3>3. CASE g # h
        BY <2>1, <3>1, <3>3
      <3> QED
        BY <3>2, <3>3
    <2>5. ASSUME NEW g \in RtspGen, NEW ok \in BOOLEAN, RtspDaemonPlay(g, ok)
          PROVE  rtsp'[h].id = rtsp[h].id /\ rtsp'[h].pc = rtsp[h].pc
      BY <2>1, <2>5 DEF RtspDaemonPlay, RtspRecord
    <2> QED
      BY <2>2, <2>3, <2>4, <2>5 DEF RtspDaemon, RtspDaemonSleeps
  <1> QED
    BY <1>2, <1>3 DEF RtspCalm

\* The thread of an element, between making its object and erasing it.
LEMMA RtspThreadCalm ==
  ASSUME RtspInvariant, RtspListInvariant, NEW g \in RtspGen, RtspThread(g),
         ~RtspStart(g), ~RtspListed(g), ~RtspErase(g)
  PROVE  RtspCalm
  <1>1. /\ DOMAIN rtspMod' = DOMAIN rtspMod /\ rtspMod'.i \in Nat \ {0}
        /\ rtspMod'.objs = rtspMod.objs
    BY DEF RtspListInvariant, RtspThread, RtspInit, RtspSetRunning, RtspReady, RtspLoop,
           RtspProcess, RtspStop, RtspDrain
  <1>2. rtsp[g] \in RtspRecord
    BY DEF RtspInvariant
  <1>3. CASE RtspInit(g) \/ RtspSetRunning(g) \/ RtspLoop(g)
    <2>1. PICK to \in RtspUnborn \cup RtspAlive :
            /\ RtspGo(g, to)
            /\ \/ to \in RtspUnborn /\ rtsp[g].pc \in RtspUnborn
               \/ to \in RtspAlive /\ rtsp[g].pc \in RtspAlive
      BY <1>3 DEF RtspInit, RtspSetRunning, RtspLoop, RtspUnborn, RtspAlive
    <2> QED
      BY <1>1, <2>1, RtspGoCalm
  <1>4. CASE RtspReady(g)
    <2> DEFINE r == [rtsp[g] EXCEPT !.qmax = RtspQueueLen, !.running = TRUE, !.pc = "ready"]
    <2>1. r.id = rtsp[g].id /\ r.pc = "ready"
      BY <1>2 DEF RtspRecord
    <2>2. rtsp' = [rtsp EXCEPT ![g] = r] /\ rtsp[g].pc = "played"
      BY <1>4 DEF RtspReady
    <2> HIDE DEF r
    <2> QED
      BY <1>1, <2>1, <2>2, RtspOneCalm
  <1>5. CASE RtspProcess(g)
    <2>1. rtsp[g].pc \in RtspAlive
      BY <1>5 DEF RtspProcess, RtspAlive
    <2>2. CASE RtspTake(g)
      <3> DEFINE r == [rtsp[g] EXCEPT !.out = Head(rtsp[g].queue), !.outs = @ + 1,
                                      !.queue = Tail(@), !.pc = "loop"]
      <3>1. r.id = rtsp[g].id /\ r.pc = "loop"
        BY <1>2 DEF RtspRecord
      <3>2. rtsp' = [rtsp EXCEPT ![g] = r]
        BY <2>2 DEF RtspTake
      <3> HIDE DEF r
      <3> QED
        BY <1>1, <2>1, <3>1, <3>2, RtspOneCalm DEF RtspAlive
    <2>3. CASE \E to \in {"wait", "loop"} : RtspGo(g, to)
      BY <1>1, <2>1, <2>3, RtspGoCalm DEF RtspAlive
    <2> QED
      BY <1>5, <2>2, <2>3 DEF RtspProcess
  <1>6. CASE RtspStop(g)
    <2> DEFINE r == [rtsp[g] EXCEPT !.running = FALSE, !.playing = FALSE, !.pc = "drain"]
    <2>1. r.id = rtsp[g].id /\ r.pc = "drain"
      BY <1>2 DEF RtspRecord
    <2>2. rtsp' = [rtsp EXCEPT ![g] = r] /\ rtsp[g].pc = "stop"
      BY <1>6 DEF RtspStop
    <2> HIDE DEF r
    <2> QED
      BY <1>1, <2>1, <2>2, RtspOneCalm DEF RtspAlive
  <1>7. CASE RtspDrain(g)
    <2> DEFINE r == [rtsp[g] EXCEPT !.queue = <<>>, !.pc = "erase"]
    <2>1. r.id = rtsp[g].id /\ r.pc = "erase"
      BY <1>2 DEF RtspRecord
    <2>2. rtsp' = [rtsp EXCEPT ![g] = r] /\ rtsp[g].pc = "drain"
      BY <1>7 DEF RtspDrain
    <2> HIDE DEF r
    <2> QED
      BY <1>1, <2>1, <2>2, RtspOneCalm DEF RtspAlive
  <1> QED
    BY <1>3, <1>4, <1>5, <1>6, <1>7 DEF RtspThread

\* The player's thread and the one that stops the task wake a waiter at most.
LEMMA RtspOtherCalm ==
  ASSUME RtspInvariant, RtspListInvariant, NEW g \in RtspGen,
         RtspCallback(g) \/ RtspTaskStops(g) \/ RtspNotify(g) \/ RtspNotifyAll(g)
  PROVE  RtspCalm
  <1>1. rtspMod' = rtspMod /\ rtspMod.i \in Nat \ {0}
    BY DEF RtspCallback, RtspTaskStops, RtspNotify, RtspNotifyAll, RtspListInvariant
  <1>2. ASSUME NEW h \in RtspGen
        PROVE  /\ rtsp'[h].id = rtsp[h].id
               /\ \/ rtsp'[h].pc = rtsp[h].pc
                  \/ rtsp[h].pc = "wait" /\ rtsp'[h].pc = "woken"
    <2>1. rtsp \in [RtspGen -> RtspRecord] /\ rtsp[h] \in RtspRecord
      BY DEF RtspInvariant
    <2>2. CASE UNCHANGED rtsp
      BY <2>2
    <2>3. CASE RtspCallback(g) /\ ~UNCHANGED rtsp
      <3>1. PICK q, n : rtsp' = [rtsp EXCEPT
              ![g].frame = n, ![g].queue = q,
              ![g].pc = IF @ = "wait" THEN "woken" ELSE @, ![g].age = 0]
        BY <2>3 DEF RtspCallback
      <3> QED
        BY <2>1, <3>1 DEF RtspRecord
    <2>4. CASE RtspTaskStops(g)
      BY <2>1, <2>4 DEF RtspTaskStops, RtspRecord
    <2>5. CASE RtspNotify(g)
      BY <2>1, <2>5 DEF RtspNotify, RtspRecord
    <2>6. CASE RtspNotifyAll(g) /\ ~UNCHANGED rtsp
      <3>1. rtsp' = [rtsp EXCEPT ![g].notify = "done",
                                 ![g].pc = IF @ = "wait" THEN "woken" ELSE @]
        BY <2>6 DEF RtspNotifyAll
      <3> QED
        BY <2>1, <3>1 DEF RtspRecord
    <2> QED
      BY <2>2, <2>3, <2>4, <2>5, <2>6
  <1>3. ASSUME NEW h \in RtspGen
        PROVE  /\ rtsp'[h].pc \in RtspUnborn <=> rtsp[h].pc \in RtspUnborn
               /\ rtsp[h].pc \in RtspAlive => rtsp'[h].pc \in RtspAlive
    BY <1>2 DEF RtspUnborn, RtspAlive
  <1> QED
    BY <1>1, <1>2, <1>3 DEF RtspCalm

\* Every step keeps the list, and only a daemon that meets a deleted object, which
\* no entry is while the ids differ, sets rtspCrash to "daemon".
LEMMA RtspStepLists ==
  ASSUME RtspInvariant, RtspListInvariant, RtspDaemonOnLive, [RtspNext]_rtspVars
  PROVE  RtspListInvariant' /\ RtspDaemonOnLive'
  <1>1. CASE UNCHANGED rtspVars
    BY <1>1 DEF rtspVars, RtspListInvariant, RtspNamed, RtspEntries, RtspDistinct,
                RtspDaemonOnLive
  <1>2. CASE RtspNext
    <2>1. RtspListInvariant'
      BY <1>2, RtspDaemonCalm, RtspThreadCalm, RtspOtherCalm, RtspCalmKeeps, RtspStartLists,
         RtspListedLists, RtspEraseLists DEF RtspNext
    <2>2. CASE rtspCrash' = "daemon"
      <3>1. rtspCrash = "no" /\ RtspDaemonLook
        BY <1>2, <2>2 DEF RtspNext, RtspDaemon, RtspDaemonPass, RtspDaemonSleeps,
          RtspDaemonPlay, RtspCallback, RtspThread, RtspInit, RtspSetRunning, RtspStart,
          RtspReady, RtspListed, RtspLoop, RtspProcess, RtspStop, RtspDrain, RtspErase,
          RtspTaskStops, RtspNotify, RtspNotifyAll
      <3> DEFINE g == rtspMod.objs[rtspMod.i]
      <3>2. ~RtspExists(g) /\ UNCHANGED rtsp /\ rtspMod.i <= Len(rtspMod.objs)
        BY <2>2, <3>1 DEF RtspDaemonLook
      <3>3. ASSUME RtspDistinct PROVE FALSE
        <4>1. RtspEntries /\ rtspMod.i \in Nat \ {0}
          BY <3>3 DEF RtspListInvariant
        <4>2. rtsp[g].pc \in RtspAlive
          BY <3>2, <4>1 DEF RtspEntries
        <4> QED
          BY <3>2, <4>2 DEF RtspExists, RtspAlive
      <3> QED
        BY <2>1, <3>2, <3>3 DEF RtspDaemonOnLive, RtspDistinct
    <2> QED
      BY <2>1, <2>2 DEF RtspDaemonOnLive
  <1> QED
    BY <1>1, <1>2

\* RtspDaemon never meets an object that RtspStop has deleted, for any number of
\* elements, as long as no two of them were started for the same camera.
THEOREM RtspDaemonOnLiveHolds == RtspSpec => []RtspDaemonOnLive
  <1>1. RtspInitial => RtspListInvariant /\ RtspDaemonOnLive
    BY DEF RtspInitial, RtspListInvariant, RtspNamed, RtspUnborn, RtspEntries, RtspDaemonOnLive
  <1>2. RtspInvariant /\ [RtspNext]_rtspVars => RtspInvariant'
    BY RtspStepImplements
  <1> QED
    BY <1>1, <1>2, RtspInitialOrdered, RtspStepLists, PTL DEF RtspSpec

-----------------------------------------------------------------------------
(* The rtmp source.  Here the daemon empties queues too, and ends and      *)
(* makes readers.                                                          *)

RtmpId == {"none"} \cup UNION {RtmpChannel[g] : g \in RtmpGen}
RtmpPC == {"none", "inited", "init", "null", "ready", "loop", "get", "wait", "woken",
           "stop", "join", "drain", "erase", "freed"}
RtmpPlace == {"none", "open", "test", "read", "ended"}

RtmpRecord ==
  [id : RtmpId, pc : RtmpPC, running : BOOLEAN, again : BOOLEAN, t : BOOLEAN,
   reader : RtmpPlace, stopping : BOOLEAN, notify : {"no", "flag", "done"},
   queue : Seq(Nat), frame : Nat, out : Nat, outs : Nat, age : Nat]

RtmpOrdered(r) ==
  /\ r.out <= r.frame
  /\ \A i \in 1..Len(r.queue) : r.out < r.queue[i] /\ r.queue[i] <= r.frame
  /\ \A i, j \in 1..Len(r.queue) : i < j => r.queue[i] < r.queue[j]

RtmpInvariant ==
  /\ rtmp \in [RtmpGen -> RtmpRecord]
  /\ \A g \in RtmpGen : RtmpOrdered(rtmp[g])

\* What a step that neither makes nor gives a frame leaves as it was: it may empty
\* a queue.
RtmpQuiet ==
  /\ rtmp' \in [RtmpGen -> RtmpRecord]
  /\ \A g \in RtmpGen :
       /\ rtmp'[g].frame = rtmp[g].frame
       /\ rtmp'[g].out = rtmp[g].out
       /\ rtmp'[g].outs = rtmp[g].outs
       /\ rtmp'[g].queue \in {rtmp[g].queue, <<>>}

\* A record of the element g with the frames it has now, or with an empty queue.
RtmpAlike(g, r) ==
  /\ r \in RtmpRecord
  /\ r.frame = rtmp[g].frame /\ r.out = rtmp[g].out /\ r.outs = rtmp[g].outs
  /\ r.queue \in {rtmp[g].queue, <<>>}

-----------------------------------------------------------------------------
(* Quiet steps.                                                            *)

\* The initial states satisfy the invariant, whatever the constants are.
LEMMA RtmpInitialOrdered == RtmpInitial => RtmpInvariant
  <1> SUFFICES ASSUME RtmpInitial PROVE RtmpInvariant
    OBVIOUS
  <1>1. rtmp \in [RtmpGen -> RtmpRecord]
    BY DEF RtmpInitial, RtmpRecord, RtmpPC, RtmpPlace, RtmpId
  <1>2. ASSUME NEW g \in RtmpGen PROVE RtmpOrdered(rtmp[g])
    BY DEF RtmpInitial, RtmpOrdered
  <1> QED
    BY <1>1, <1>2 DEF RtmpInvariant

\* A quiet step keeps the invariant: nothing comes into a queue.
LEMMA RtmpQuietKeeps == RtmpInvariant /\ RtmpQuiet => RtmpInvariant'
  <1> SUFFICES ASSUME RtmpInvariant, RtmpQuiet, NEW g \in RtmpGen
               PROVE  RtmpOrdered(rtmp'[g])
    BY DEF RtmpInvariant, RtmpQuiet
  <1>1. CASE rtmp'[g].queue = rtmp[g].queue
    BY <1>1 DEF RtmpInvariant, RtmpQuiet, RtmpOrdered
  <1>2. CASE rtmp'[g].queue = <<>>
    BY <1>2 DEF RtmpInvariant, RtmpQuiet, RtmpOrdered
  <1> QED
    BY <1>1, <1>2 DEF RtmpQuiet

\* A step that leaves the elements alone is quiet.
LEMMA RtmpSameQuiet == RtmpInvariant /\ UNCHANGED rtmp => RtmpQuiet
  BY DEF RtmpInvariant, RtmpQuiet

\* A step that gives one element such a record is quiet.
LEMMA RtmpOneQuiet ==
  ASSUME RtmpInvariant, NEW g \in RtmpGen, NEW r, RtmpAlike(g, r),
         rtmp' = [rtmp EXCEPT ![g] = r]
  PROVE  RtmpQuiet
  BY DEF RtmpInvariant, RtmpQuiet, RtmpAlike

\* A step of a thread from one place to another is quiet.
LEMMA RtmpGoQuiet ==
  ASSUME RtmpInvariant, NEW g \in RtmpGen, NEW to \in RtmpPC, RtmpGo(g, to)
  PROVE  RtmpQuiet
  <1> DEFINE r == [rtmp[g] EXCEPT !.pc = to]
  <1>1. RtmpAlike(g, r)
    BY DEF RtmpInvariant, RtmpRecord, RtmpAlike
  <1> QED
    BY <1>1, RtmpOneQuiet DEF RtmpGo

\* What the reader and the daemon do to one element, if it is one at all.
LEMMA RtmpMaybeQuiet ==
  ASSUME RtmpInvariant, NEW g, NEW r, g \in RtmpGen => RtmpAlike(g, r),
         rtmp' = [rtmp EXCEPT ![g] = r]
  PROVE  RtmpQuiet
  <1>1. CASE g \in RtmpGen
    BY <1>1, RtmpOneQuiet
  <1>2. CASE g \notin RtmpGen
    <2>1. UNCHANGED rtmp
      BY <1>2 DEF RtmpInvariant
    <2> QED
      BY <2>1, RtmpSameQuiet
  <1> QED
    BY <1>1, <1>2

\* An element whose queue is emptied on the way.
LEMMA RtmpEmptied ==
  ASSUME RtmpInvariant, NEW g \in RtmpGen, NEW pc \in RtmpPC, NEW again \in BOOLEAN,
         NEW t \in BOOLEAN, NEW reader \in RtmpPlace, NEW age \in Nat
  PROVE  RtmpAlike(g, [rtmp[g] EXCEPT !.queue = <<>>, !.pc = pc, !.again = again, !.t = t,
                                      !.reader = reader, !.age = age])
  <1> DEFINE none == <<>>
             r == [rtmp[g] EXCEPT !.queue = none, !.pc = pc, !.again = again, !.t = t,
                                  !.reader = reader, !.age = age]
  <1>1. none \in Seq(Nat)
    OBVIOUS
  <1>2. none \in {rtmp[g].queue, <<>>}
    OBVIOUS
  <1> HIDE DEF none
  <1>3. /\ r \in RtmpRecord /\ r.queue = none
        /\ r.frame = rtmp[g].frame /\ r.out = rtmp[g].out /\ r.outs = rtmp[g].outs
    BY ZenonT(30), <1>1 DEF RtmpInvariant, RtmpRecord
  <1>4. RtmpAlike(g, r)
    BY <1>2, <1>3 DEF RtmpAlike
  <1> QED
    BY <1>4 DEF none

\* RtmpDaemon ends and makes readers and empties queues.
LEMMA RtmpDaemonQuiet == RtmpInvariant /\ RtmpDaemon => RtmpQuiet
  <1> SUFFICES ASSUME RtmpInvariant, RtmpDaemon PROVE RtmpQuiet
    OBVIOUS
  <1> DEFINE g == rtmpMod.objs[rtmpMod.i]
  <1>1. CASE RtmpDaemonPass
    <2>1. CASE rtmpMod.running
      <3> DEFINE r(h) == [rtmp[h] EXCEPT !.age = IF @ > RtmpLate THEN @ ELSE @ + 1]
      <3>1. ASSUME NEW h \in RtmpGen PROVE RtmpAlike(h, r(h))
        <4> DEFINE a == IF rtmp[h].age > RtmpLate THEN rtmp[h].age ELSE rtmp[h].age + 1
        <4>1. a \in Nat
          BY DEF RtmpInvariant, RtmpRecord
        <4> HIDE DEF a
        <4>2. RtmpAlike(h, [rtmp[h] EXCEPT !.age = a])
          BY <4>1 DEF RtmpInvariant, RtmpRecord, RtmpAlike
        <4> QED
          BY <4>2 DEF a
      <3>2. rtmp' = [h \in RtmpGen |-> r(h)]
        BY <1>1, <2>1 DEF RtmpDaemonPass
      <3> HIDE DEF r
      <3> QED
        BY <3>1, <3>2 DEF RtmpQuiet, RtmpAlike
    <2>2. CASE ~rtmpMod.running
      BY <1>1, <2>2, RtmpSameQuiet DEF RtmpDaemonPass
    <2> QED
      BY <2>1, <2>2
  <1>2. CASE RtmpDaemonLook
    <2> DEFINE r == [rtmp[g] EXCEPT !.again = FALSE]
    <2>1. g \in RtmpGen => RtmpAlike(g, r)
      BY ZenonT(30) DEF RtmpInvariant, RtmpRecord, RtmpAlike
    <2>2. rtmp' = [rtmp EXCEPT ![g] = r] \/ UNCHANGED rtmp
      BY <1>2 DEF RtmpDaemonLook, RtmpCrashes
    <2> QED
      BY <2>1, <2>2, RtmpMaybeQuiet, RtmpSameQuiet
  <1>3. CASE RtmpDaemonJoin
    <2> DEFINE r == [rtmp[g] EXCEPT !.t = FALSE]
    <2>1. g \in RtmpGen => RtmpAlike(g, r)
      BY ZenonT(30) DEF RtmpInvariant, RtmpRecord, RtmpAlike
    <2>2. rtmp' = [rtmp EXCEPT ![g] = r] \/ UNCHANGED rtmp
      BY <1>3 DEF RtmpDaemonJoin, RtmpCrashes
    <2> QED
      BY <2>1, <2>2, RtmpMaybeQuiet, RtmpSameQuiet
  <1>4. CASE RtmpDaemonRestart
    <2> DEFINE r == [rtmp[g] EXCEPT !.queue = <<>>, !.again = TRUE, !.t = TRUE,
                                    !.reader = "open", !.age = 0]
    <2>1. ASSUME g \in RtmpGen PROVE RtmpAlike(g, r)
      <3> DEFINE e == [rtmp[g] EXCEPT !.queue = <<>>, !.pc = rtmp[g].pc, !.again = TRUE,
                                      !.t = TRUE, !.reader = "open", !.age = 0]
      <3>1. rtmp[g] \in RtmpRecord
        BY <2>1 DEF RtmpInvariant
      <3>2. rtmp[g].pc \in RtmpPC /\ "open" \in RtmpPlace
        BY <3>1 DEF RtmpRecord, RtmpPlace
      <3>3. RtmpAlike(g, e)
        BY <2>1, <3>2, RtmpEmptied
      <3>4. r = e
        BY <3>1 DEF RtmpRecord
      <3> QED
        BY <3>3, <3>4
    <2>2. rtmp' = [rtmp EXCEPT ![g] = r]
      BY <1>4 DEF RtmpDaemonRestart
    <2> QED
      BY <2>1, <2>2, RtmpMaybeQuiet
  <1>5. CASE RtmpDaemonSleeps
    BY <1>5, RtmpSameQuiet DEF RtmpDaemonSleeps
  <1> QED
    BY <1>1, <1>2, <1>3, <1>4, <1>5 DEF RtmpDaemon

\* Of the element's thread, only RtmpProcess gives a frame.
LEMMA RtmpThreadQuiet ==
  ASSUME RtmpInvariant, NEW g \in RtmpGen, RtmpThread(g), ~RtmpProcess(g)
  PROVE  RtmpQuiet
  <1>1. CASE RtmpInit(g) \/ RtmpSetRunning(g) \/ RtmpListed(g) \/ RtmpLoop(g) \/ RtmpErase(g)
    <2>1. \E to \in RtmpPC : RtmpGo(g, to)
      BY <1>1 DEF RtmpInit, RtmpSetRunning, RtmpListed, RtmpLoop, RtmpErase, RtmpPC
    <2> QED
      BY <2>1, RtmpGoQuiet
  <1>2. CASE RtmpStart(g)
    <2>1. CASE RtmpGo(g, "null")
      BY <2>1, RtmpGoQuiet DEF RtmpPC
    <2>2. ASSUME NEW c \in RtmpChannel[g],
                 rtmp' = [rtmp EXCEPT ![g].id = c, ![g].pc = "ready", ![g].running = TRUE,
                                      ![g].again = TRUE, ![g].t = TRUE, ![g].reader = "open",
                                      ![g].age = 0]
          PROVE  RtmpQuiet
      <3> DEFINE r == [rtmp[g] EXCEPT !.id = c, !.pc = "ready", !.running = TRUE, !.again = TRUE,
                                      !.t = TRUE, !.reader = "open", !.age = 0]
      <3>1. c \in RtmpId
        BY DEF RtmpId
      <3>2. "ready" \in RtmpPC /\ "open" \in RtmpPlace
        BY DEF RtmpPC, RtmpPlace
      <3>3. rtmp[g] \in RtmpRecord
        BY DEF RtmpInvariant
      <3>4. /\ r \in RtmpRecord /\ r.queue = rtmp[g].queue
            /\ r.frame = rtmp[g].frame /\ r.out = rtmp[g].out /\ r.outs = rtmp[g].outs
        BY <3>1, <3>2, <3>3 DEF RtmpRecord
      <3>5. RtmpAlike(g, r)
        BY <3>4 DEF RtmpAlike
      <3> QED
        BY <2>2, <3>5, RtmpOneQuiet
    <2> QED
      BY <1>2, <2>1, <2>2 DEF RtmpStart
  <1>3. CASE RtmpStop(g)
    <2> DEFINE p == IF rtmp[g].t THEN "join" ELSE "drain"
               r == [rtmp[g] EXCEPT !.running = FALSE, !.pc = p]
    <2>1. p \in RtmpPC
      BY DEF RtmpPC
    <2>2. rtmp' = [rtmp EXCEPT ![g] = r]
      BY <1>3 DEF RtmpStop
    <2> HIDE DEF p
    <2>3. RtmpAlike(g, r)
      BY <2>1 DEF RtmpInvariant, RtmpRecord, RtmpAlike
    <2> QED
      BY <2>2, <2>3, RtmpOneQuiet
  <1>4. CASE RtmpStopJoins(g)
    <2> DEFINE r == [rtmp[g] EXCEPT !.t = FALSE, !.pc = "drain"]
    <2>1. RtmpAlike(g, r)
      BY ZenonT(30) DEF RtmpInvariant, RtmpRecord, RtmpAlike, RtmpPC
    <2> QED
      BY <1>4, <2>1, RtmpOneQuiet, RtmpSameQuiet DEF RtmpStopJoins, RtmpCrashes
  <1>5. CASE RtmpDrain(g)
    <2> DEFINE none == <<>>
               r == [rtmp[g] EXCEPT !.queue = none, !.pc = "erase"]
    <2>1. none \in Seq(Nat)
      OBVIOUS
    <2>2. CASE rtmp' = [rtmp EXCEPT ![g] = r]
      <3> HIDE DEF none
      <3>1. /\ r \in RtmpRecord /\ r.queue = none
            /\ r.frame = rtmp[g].frame /\ r.out = rtmp[g].out /\ r.outs = rtmp[g].outs
        BY ZenonT(30), <2>1 DEF RtmpInvariant, RtmpRecord, RtmpPC
      <3>2. RtmpAlike(g, r)
        BY <3>1 DEF RtmpAlike, none
      <3> QED
        BY <2>2, <3>2, RtmpOneQuiet
    <2> QED
      BY <1>5, <2>2 DEF RtmpDrain
  <1> QED
    BY <1>1, <1>2, <1>3, <1>4, <1>5 DEF RtmpThread

\* The reader moves from place to place, and reads a frame from a camera that has one.
LEMMA RtmpReaderQuiet ==
  ASSUME RtmpInvariant, NEW g \in RtmpGen, NEW to \in RtmpPlace,
         rtmp' = [rtmp EXCEPT ![g].reader = to]
  PROVE  RtmpQuiet
  <1> DEFINE r == [rtmp[g] EXCEPT !.reader = to]
  <1>1. RtmpAlike(g, r)
    BY DEF RtmpInvariant, RtmpRecord, RtmpAlike
  <1> QED
    BY <1>1, RtmpOneQuiet

\* The thread that stops the task sets flags and wakes the element.
LEMMA RtmpStopQuiet ==
  ASSUME RtmpInvariant, NEW g \in RtmpGen,
         RtmpTaskStops(g) \/ RtmpNotify(g) \/ RtmpNotifyAll(g)
  PROVE  RtmpQuiet
  <1>1. CASE RtmpTaskStops(g)
    <2> DEFINE r == [rtmp[g] EXCEPT !.stopping = TRUE]
    <2>1. RtmpAlike(g, r)
      BY DEF RtmpInvariant, RtmpRecord, RtmpAlike
    <2> QED
      BY <1>1, <2>1, RtmpOneQuiet DEF RtmpTaskStops
  <1>2. CASE RtmpNotify(g)
    <2> DEFINE r == [rtmp[g] EXCEPT !.running = FALSE, !.notify = "flag"]
    <2>1. RtmpAlike(g, r)
      BY DEF RtmpInvariant, RtmpRecord, RtmpAlike
    <2> QED
      BY <1>2, <2>1, RtmpOneQuiet DEF RtmpNotify
  <1>3. CASE RtmpNotifyAll(g)
    <2> DEFINE p == IF rtmp[g].pc = "wait" THEN "woken" ELSE rtmp[g].pc
               r == [rtmp[g] EXCEPT !.notify = "done", !.pc = p]
    <2>1. p \in RtmpPC
      BY DEF RtmpInvariant, RtmpRecord, RtmpPC
    <2>2. CASE rtmp' = [rtmp EXCEPT ![g] = r]
      <3> HIDE DEF p
      <3>1. RtmpAlike(g, r)
        BY <2>1 DEF RtmpInvariant, RtmpRecord, RtmpAlike
      <3> QED
        BY <2>2, <3>1, RtmpOneQuiet
    <2> QED
      BY <1>3, <2>2, RtmpSameQuiet, RtmpSameQuiet DEF RtmpNotifyAll, RtmpCrashes
  <1> QED
    BY <1>1, <1>2, <1>3
-----------------------------------------------------------------------------
(* The steps of the stream.                                                *)

\* What the stream that is implemented sees of a quiet step: nothing.
LEMMA RtmpQuietStutters ==
  ASSUME RtmpQuiet
  PROVE  UNCHANGED RtmpStream!streamVars
  BY DEF RtmpQuiet, RtmpStream!streamVars

\* The step of RtmpRead that has a frame.
RtmpFrameRead(g) ==
  rtmp' = [rtmp EXCEPT
    ![g].reader = "test",
    ![g].frame = @ + 1,
    ![g].queue = IF Len(@) < RtmpQueueLen THEN Append(@, rtmp[g].frame + 1) ELSE @,
    ![g].pc = IF @ = "wait" THEN "woken" ELSE @,
    ![g].age = 0]

\* CopyToPacket makes the next frame, whether or not the queue takes it.
LEMMA RtmpFrameMakes ==
  ASSUME RtmpInvariant, NEW g \in RtmpGen, RtmpFrameRead(g)
  PROVE  RtmpInvariant' /\ RtmpStream!Make(g)
  <1> DEFINE n == rtmp[g].frame + 1
             q == IF Len(rtmp[g].queue) < RtmpQueueLen
                    THEN Append(rtmp[g].queue, n) ELSE rtmp[g].queue
             p == IF rtmp[g].pc = "wait" THEN "woken" ELSE rtmp[g].pc
             r == [rtmp[g] EXCEPT !.reader = "test", !.frame = n, !.queue = q, !.pc = p,
                                  !.age = 0]
  <1>1. rtmp[g] \in RtmpRecord /\ RtmpOrdered(rtmp[g])
    BY DEF RtmpInvariant
  <1>2. n \in Nat /\ q \in Seq(Nat) /\ p \in RtmpPC
    BY <1>1 DEF RtmpRecord, RtmpPC
  <1>3. /\ \A i \in 1..Len(q) : rtmp[g].out < q[i] /\ q[i] <= n
        /\ \A i, j \in 1..Len(q) : i < j => q[i] < q[j]
        /\ rtmp[g].out <= n
    <2>1. CASE Len(rtmp[g].queue) < RtmpQueueLen
      <3>1. /\ Len(q) = Len(rtmp[g].queue) + 1 /\ q[Len(q)] = n
            /\ \A i \in 1..Len(q) - 1 : q[i] = rtmp[g].queue[i] /\ i \in 1..Len(rtmp[g].queue)
        BY <1>1, <1>2, <2>1 DEF RtmpRecord
      <3> HIDE DEF q
      <3>2. /\ Len(rtmp[g].queue) \in Nat /\ rtmp[g].frame \in Nat /\ rtmp[g].out \in Nat
            /\ n = rtmp[g].frame + 1
            /\ \A i \in 1..Len(rtmp[g].queue) : rtmp[g].queue[i] \in Nat
        BY <1>1 DEF RtmpRecord
      <3>3. ASSUME NEW i \in 1..Len(q) PROVE rtmp[g].out < q[i] /\ q[i] <= n
        <4>1. CASE i = Len(q)
          BY <1>1, <3>1, <3>2, <4>1 DEF RtmpOrdered
        <4>2. CASE i # Len(q)
          <5>1. i \in 1..Len(q) - 1
            BY <3>1, <3>2, <4>2
          <5>2. q[i] = rtmp[g].queue[i] /\ i \in 1..Len(rtmp[g].queue)
            BY <3>1, <5>1
          <5>3. rtmp[g].out < rtmp[g].queue[i] /\ rtmp[g].queue[i] <= rtmp[g].frame
            BY <1>1, <5>2 DEF RtmpOrdered
          <5> QED
            BY <3>2, <5>2, <5>3
        <4> QED
          BY <4>1, <4>2
      <3>4. ASSUME NEW i \in 1..Len(q), NEW j \in 1..Len(q), i < j PROVE q[i] < q[j]
        <4>1. i \in 1..Len(q) - 1
          BY <3>1, <3>2, <3>4
        <4>2. CASE j = Len(q)
          BY SMTT(20), <1>1, <3>1, <3>2, <4>1, <4>2 DEF RtmpOrdered
        <4>3. CASE j # Len(q)
          BY SMTT(20), <1>1, <3>1, <3>2, <3>4, <4>1, <4>3 DEF RtmpOrdered
        <4> QED
          BY <4>2, <4>3
      <3> QED
        BY <1>1, <3>2, <3>3, <3>4 DEF RtmpOrdered
    <2>2. CASE ~(Len(rtmp[g].queue) < RtmpQueueLen)
      BY <1>1, <2>2 DEF RtmpOrdered, RtmpRecord
    <2> QED
      BY <2>1, <2>2
  <1>4. rtmp' = [rtmp EXCEPT ![g] = r]
    BY DEF RtmpFrameRead
  <1> HIDE DEF n, q, p
  <1>5. /\ r \in RtmpRecord
        /\ r.frame = n /\ r.queue = q /\ r.out = rtmp[g].out /\ r.outs = rtmp[g].outs
    BY <1>1, <1>2 DEF RtmpRecord, RtmpPlace
  <1> HIDE DEF r
  <1>6. RtmpOrdered(r)
    BY <1>3, <1>5 DEF RtmpOrdered
  <1>7. RtmpInvariant'
    BY <1>4, <1>5, <1>6 DEF RtmpInvariant
  <1>8. RtmpStream!Make(g)
    BY <1>4, <1>5 DEF RtmpStream!Make, RtmpInvariant, n
  <1> QED
    BY <1>7, <1>8

\* RtmpProcess gives the oldest frame of the queue, which is newer than the last
\* one and older than those that stay.
LEMMA RtmpTakeGives ==
  ASSUME RtmpInvariant, NEW g \in RtmpGen, rtmp[g].queue # <<>>, RtmpTake(g)
  PROVE  RtmpInvariant' /\ RtmpStream!Give(g)
  <1> DEFINE n == Head(rtmp[g].queue)
             q == Tail(rtmp[g].queue)
             c == rtmp[g].outs + 1
             r == [rtmp[g] EXCEPT !.out = n, !.outs = c, !.queue = q, !.pc = "loop"]
  <1>1. rtmp[g] \in RtmpRecord /\ RtmpOrdered(rtmp[g])
    BY DEF RtmpInvariant
  <1>2. n \in Nat /\ q \in Seq(Nat) /\ c \in Nat
    BY <1>1 DEF RtmpRecord
  <1>3. rtmp[g].out < n /\ n <= rtmp[g].frame
    BY <1>1 DEF RtmpRecord, RtmpOrdered
  <1>4. /\ Len(q) = Len(rtmp[g].queue) - 1
        /\ \A i \in 1..Len(q) : q[i] = rtmp[g].queue[i + 1] /\ i + 1 \in 1..Len(rtmp[g].queue)
    BY <1>1 DEF RtmpRecord
  <1>5. \A i \in 1..Len(q) : n < q[i] /\ q[i] <= rtmp[g].frame
    BY SMTT(20), <1>1, <1>4 DEF RtmpRecord, RtmpOrdered
  <1>6. \A i, j \in 1..Len(q) : i < j => q[i] < q[j]
    BY <1>1, <1>4 DEF RtmpRecord, RtmpOrdered
  <1>7. rtmp' = [rtmp EXCEPT ![g] = r]
    BY DEF RtmpTake
  <1> HIDE DEF n, q, c
  <1>8. /\ r \in RtmpRecord
        /\ r.frame = rtmp[g].frame /\ r.queue = q /\ r.out = n /\ r.outs = c
    BY <1>1, <1>2 DEF RtmpRecord, RtmpPC
  <1> HIDE DEF r
  <1>9. RtmpOrdered(r)
    BY <1>3, <1>5, <1>6, <1>8 DEF RtmpOrdered
  <1>10. RtmpInvariant'
    BY <1>7, <1>8, <1>9 DEF RtmpInvariant
  <1>11. RtmpStream!Give(g)
    <2>1. n \in (rtmp[g].out + 1)..rtmp[g].frame
      BY <1>1, <1>2, <1>3 DEF RtmpRecord
    <2> QED
      BY <1>7, <1>8, <2>1 DEF RtmpStream!Give, RtmpInvariant, c
  <1> QED
    BY <1>10, <1>11

\* Every step keeps the invariant and is a step of the stream, or none.
LEMMA RtmpStepImplements ==
  ASSUME RtmpInvariant, [RtmpNext]_rtmpVars
  PROVE  RtmpInvariant' /\ [RtmpStream!Next]_(RtmpStream!streamVars)
  <1>1. CASE RtmpQuiet
    BY <1>1, RtmpQuietKeeps, RtmpQuietStutters
  <1>2. ASSUME NEW g \in RtmpGen, RtmpReader(g)
        PROVE  RtmpInvariant' /\ [RtmpStream!Next]_(RtmpStream!streamVars)
    <2>1. CASE RtmpFrameRead(g)
      BY <2>1, RtmpFrameMakes DEF RtmpStream!Next
    <2>2. CASE \E to \in RtmpPlace : rtmp' = [rtmp EXCEPT ![g].reader = to]
      BY <1>1, <2>2, RtmpReaderQuiet
    <2>3. CASE UNCHANGED rtmp
      BY <1>1, <2>3, RtmpSameQuiet
    <2>4. RtmpFrameRead(g) \/ UNCHANGED rtmp
            \/ \E to \in RtmpPlace : rtmp' = [rtmp EXCEPT ![g].reader = to]
      <3>1. CASE RtmpOpen(g)
        BY <3>1 DEF RtmpOpen, RtmpCrashes, RtmpPlace
      <3>2. CASE RtmpTest(g)
        BY <3>2 DEF RtmpTest, RtmpCrashes, RtmpPlace
      <3>3. CASE RtmpRead(g)
        BY <3>3 DEF RtmpRead, RtmpCrashes, RtmpPlace, RtmpFrameRead
      <3> QED
        BY <1>2, <3>1, <3>2, <3>3 DEF RtmpReader
    <2> QED
      BY <2>1, <2>2, <2>3, <2>4
  <1>3. ASSUME NEW g \in RtmpGen, RtmpProcess(g)
        PROVE  RtmpInvariant' /\ [RtmpStream!Next]_(RtmpStream!streamVars)
    <2>1. CASE rtmp[g].queue # <<>> /\ RtmpTake(g)
      BY <2>1, RtmpTakeGives DEF RtmpStream!Next
    <2>2. CASE \E to \in RtmpPC : RtmpGo(g, to)
      BY <1>1, <2>2, RtmpGoQuiet
    <2> QED
      BY <1>3, <2>1, <2>2 DEF RtmpProcess, RtmpPC
  <1>4. CASE UNCHANGED rtmpVars
    BY <1>1, <1>4, RtmpSameQuiet DEF rtmpVars
  <1> QED
    BY <1>1, <1>2, <1>3, <1>4, RtmpDaemonQuiet, RtmpThreadQuiet, RtmpStopQuiet DEF RtmpNext

\* RtmpProcess gives out frames that the reader made, in order and none twice, for
\* any number of cameras, any queue_len and whatever the daemon and a stop do.
THEOREM RtmpImplements == RtmpSpec => RtmpImplementsStream
  <1>1. RtmpInitial => RtmpStream!Init
    BY DEF RtmpInitial, RtmpStream!Init
  <1>2. RtmpInvariant /\ [RtmpNext]_rtmpVars => RtmpInvariant'
    BY RtmpStepImplements
  <1>3. RtmpInvariant /\ [RtmpNext]_rtmpVars => [RtmpStream!Next]_(RtmpStream!streamVars)
    BY RtmpStepImplements
  <1> QED
    BY <1>1, <1>2, <1>3, RtmpInitialOrdered, PTL
      DEF RtmpSpec, RtmpImplementsStream, RtmpStream!Spec
-----------------------------------------------------------------------------
(* No reader is left behind.                                               *)

RtmpUnborn == {"none", "inited", "init", "null"}

\* An object that has no thread object has no reader that runs either.
RtmpNoReader(r) == ~r.t /\ r.pc \notin RtmpUnborn => r.reader = "ended"

RtmpJoined == \A g \in RtmpGen : RtmpNoReader(rtmp[g])

\* Only one element changes, and has no reader behind its back afterwards.
LEMMA RtmpOneJoined ==
  ASSUME RtmpInvariant, RtmpJoined, NEW g, NEW r, g \in RtmpGen => RtmpNoReader(r),
         rtmp' = [rtmp EXCEPT ![g] = r]
  PROVE  RtmpJoined'
  BY DEF RtmpInvariant, RtmpJoined, RtmpNoReader

\* An element that is there already keeps its reader and its thread object.
LEMMA RtmpKeepsReader ==
  ASSUME RtmpInvariant, RtmpJoined, NEW g \in RtmpGen, NEW r,
         r.t = rtmp[g].t, r.reader = rtmp[g].reader, rtmp[g].pc \notin RtmpUnborn,
         rtmp' = [rtmp EXCEPT ![g] = r]
  PROVE  RtmpJoined'
  BY RtmpOneJoined DEF RtmpJoined, RtmpNoReader

\* A thread goes on: its object was born before, or is not born yet.
LEMMA RtmpGoJoined ==
  ASSUME RtmpInvariant, RtmpJoined, NEW g \in RtmpGen, NEW to,
         to \in RtmpUnborn \/ rtmp[g].pc \notin RtmpUnborn,
         RtmpGo(g, to)
  PROVE  RtmpJoined'
  <1> DEFINE r == [rtmp[g] EXCEPT !.pc = to]
  <1>1. rtmp[g] \in RtmpRecord /\ RtmpNoReader(rtmp[g])
    BY DEF RtmpInvariant, RtmpJoined
  <1>2. r.pc = to /\ r.t = rtmp[g].t /\ r.reader = rtmp[g].reader
    BY <1>1 DEF RtmpRecord
  <1>3. RtmpNoReader(r)
    BY <1>1, <1>2 DEF RtmpNoReader
  <1> QED
    BY <1>3, RtmpOneJoined DEF RtmpGo

\* The reader only moves while its object is there and has a thread object.
LEMMA RtmpReaderJoins ==
  ASSUME RtmpInvariant, RtmpJoined, NEW g \in RtmpGen, RtmpReader(g)
  PROVE  RtmpJoined'
  <1>1. rtmp[g] \in RtmpRecord /\ RtmpNoReader(rtmp[g]) /\ rtmp[g].reader # "ended"
    BY DEF RtmpInvariant, RtmpJoined, RtmpReader, RtmpOpen, RtmpTest, RtmpRead
  <1>2. CASE UNCHANGED rtmp
    BY <1>2 DEF RtmpJoined
  <1>3. CASE RtmpExists(g)
    <2>1. rtmp[g].t
      BY <1>1, <1>3 DEF RtmpNoReader, RtmpExists, RtmpUnborn
    <2>2. rtmp'[g].t = rtmp[g].t /\ \A h \in RtmpGen : h # g => rtmp'[h] = rtmp[h]
      <3>1. CASE \E to : rtmp' = [rtmp EXCEPT ![g].reader = to]
        BY <1>1, <3>1 DEF RtmpInvariant, RtmpRecord
      <3>2. CASE RtmpFrameRead(g)
        BY <1>1, <3>2 DEF RtmpInvariant, RtmpRecord, RtmpFrameRead
      <3> QED
        BY <1>3, <3>1, <3>2
          DEF RtmpReader, RtmpOpen, RtmpTest, RtmpRead, RtmpFrameRead
    <2> QED
      BY <2>1, <2>2 DEF RtmpJoined, RtmpNoReader
  <1> QED
    BY <1>2, <1>3 DEF RtmpReader, RtmpOpen, RtmpTest, RtmpRead, RtmpCrashes

\* The daemon takes a thread object away behind a join, and makes one with a reader.
LEMMA RtmpDaemonJoins ==
  ASSUME RtmpInvariant, RtmpJoined, RtmpDaemon
  PROVE  RtmpJoined'
  <1> DEFINE g == rtmpMod.objs[rtmpMod.i]
  <1>1. CASE RtmpDaemonPass
    <2>1. CASE rtmpMod.running
      <3>1. ASSUME NEW h \in RtmpGen
            PROVE  /\ rtmp'[h].t = rtmp[h].t /\ rtmp'[h].pc = rtmp[h].pc
                   /\ rtmp'[h].reader = rtmp[h].reader
        BY <1>1, <2>1 DEF RtmpDaemonPass, RtmpInvariant, RtmpRecord
      <3> QED
        BY <3>1 DEF RtmpJoined, RtmpNoReader
    <2>2. CASE ~rtmpMod.running
      BY <1>1, <2>2 DEF RtmpDaemonPass, RtmpJoined
    <2> QED
      BY <2>1, <2>2
  <1>2. CASE RtmpDaemonLook
    <2> DEFINE r == [rtmp[g] EXCEPT !.again = FALSE]
    <2>1. ASSUME g \in RtmpGen PROVE RtmpNoReader(r)
      <3>1. rtmp[g] \in RtmpRecord /\ RtmpNoReader(rtmp[g])
        BY <2>1 DEF RtmpInvariant, RtmpJoined
      <3>2. r.pc = rtmp[g].pc /\ r.t = rtmp[g].t /\ r.reader = rtmp[g].reader
        BY <3>1 DEF RtmpRecord
      <3> QED
        BY <3>1, <3>2 DEF RtmpNoReader
    <2>2. rtmp' = [rtmp EXCEPT ![g] = r] \/ UNCHANGED rtmp
      BY <1>2 DEF RtmpDaemonLook, RtmpCrashes
    <2>3. CASE UNCHANGED rtmp
      BY <2>3 DEF RtmpJoined
    <2> QED
      BY <2>1, <2>2, <2>3, RtmpOneJoined
  <1>3. CASE RtmpDaemonJoin
    <2> DEFINE r == [rtmp[g] EXCEPT !.t = FALSE]
    <2>1. ASSUME g \in RtmpGen PROVE RtmpNoReader(r)
      <3>1. rtmp[g] \in RtmpRecord /\ rtmp[g].reader = "ended"
        BY <1>3, <2>1 DEF RtmpInvariant, RtmpDaemonJoin
      <3>2. r.reader = "ended"
        BY <3>1 DEF RtmpRecord
      <3> QED
        BY <3>2 DEF RtmpNoReader
    <2>2. rtmp' = [rtmp EXCEPT ![g] = r] \/ UNCHANGED rtmp
      BY <1>3 DEF RtmpDaemonJoin, RtmpCrashes
    <2>3. CASE UNCHANGED rtmp
      BY <2>3 DEF RtmpJoined
    <2> QED
      BY <2>1, <2>2, <2>3, RtmpOneJoined
  <1>4. CASE RtmpDaemonRestart
    <2> DEFINE r == [rtmp[g] EXCEPT !.queue = <<>>, !.again = TRUE, !.t = TRUE,
                                    !.reader = "open", !.age = 0]
    <2>1. ASSUME g \in RtmpGen PROVE RtmpNoReader(r)
      <3>1. rtmp[g] \in RtmpRecord
        BY <2>1 DEF RtmpInvariant
      <3>2. r.t
        BY <3>1 DEF RtmpRecord
      <3> QED
        BY <3>2 DEF RtmpNoReader
    <2>2. rtmp' = [rtmp EXCEPT ![g] = r]
      BY <1>4 DEF RtmpDaemonRestart
    <2> HIDE DEF r
    <2> QED
      BY <2>1, <2>2, RtmpOneJoined
  <1>5. CASE RtmpDaemonSleeps
    BY <1>5 DEF RtmpDaemonSleeps, RtmpJoined
  <1> QED
    BY <1>1, <1>2, <1>3, <1>4, <1>5 DEF RtmpDaemon

\* The element's thread gives its object a reader when it makes it, and joins it.
LEMMA RtmpThreadJoins ==
  ASSUME RtmpInvariant, RtmpJoined, NEW g \in RtmpGen, RtmpThread(g)
  PROVE  RtmpJoined'
  <1>1. rtmp[g] \in RtmpRecord /\ RtmpNoReader(rtmp[g])
    BY DEF RtmpInvariant, RtmpJoined
  <1>2. CASE RtmpInit(g) \/ RtmpSetRunning(g) \/ RtmpListed(g) \/ RtmpLoop(g) \/ RtmpErase(g)
    <2>1. \E to : RtmpGo(g, to) /\ (to \in RtmpUnborn \/ rtmp[g].pc \notin RtmpUnborn)
      BY <1>2 DEF RtmpInit, RtmpSetRunning, RtmpListed, RtmpLoop, RtmpErase, RtmpUnborn
    <2> QED
      BY <2>1, RtmpGoJoined
  <1>3. ASSUME NEW c \in RtmpChannel[g],
               rtmp' = [rtmp EXCEPT ![g].id = c, ![g].pc = "ready", ![g].running = TRUE,
                                    ![g].again = TRUE, ![g].t = TRUE, ![g].reader = "open",
                                    ![g].age = 0]
        PROVE  RtmpJoined'
    <2> DEFINE r == [rtmp[g] EXCEPT !.id = c, !.pc = "ready", !.running = TRUE, !.again = TRUE,
                                    !.t = TRUE, !.reader = "open", !.age = 0]
    <2>1. r.t
      BY <1>1 DEF RtmpRecord
    <2>2. rtmp' = [rtmp EXCEPT ![g] = r]
      BY <1>3
    <2> HIDE DEF r
    <2> QED
      BY <2>1, <2>2, RtmpOneJoined DEF RtmpNoReader
  <1>4. CASE RtmpProcess(g)
    <2>1. CASE RtmpTake(g)
      <3> DEFINE r == [rtmp[g] EXCEPT !.out = Head(rtmp[g].queue), !.outs = @ + 1,
                                      !.queue = Tail(@), !.pc = "loop"]
      <3>1. r.t = rtmp[g].t /\ r.reader = rtmp[g].reader
        BY <1>1 DEF RtmpRecord
      <3>2. rtmp[g].pc \notin RtmpUnborn
        BY <1>4 DEF RtmpProcess, RtmpUnborn
      <3>3. rtmp' = [rtmp EXCEPT ![g] = r]
        BY <2>1 DEF RtmpTake
      <3> HIDE DEF r
      <3> QED
        BY <3>1, <3>2, <3>3, RtmpKeepsReader
    <2>2. CASE \E to \in RtmpPC : RtmpGo(g, to)
      BY <1>4, <2>2, RtmpGoJoined DEF RtmpProcess, RtmpUnborn
    <2> QED
      BY <1>4, <2>1, <2>2 DEF RtmpProcess, RtmpPC
  <1>5. CASE RtmpStop(g)
    <2> DEFINE p == IF rtmp[g].t THEN "join" ELSE "drain"
               r == [rtmp[g] EXCEPT !.running = FALSE, !.pc = p]
    <2>1. r.t = rtmp[g].t /\ r.reader = rtmp[g].reader
      BY <1>1 DEF RtmpRecord
    <2>2. rtmp' = [rtmp EXCEPT ![g] = r] /\ rtmp[g].pc \notin RtmpUnborn
      BY <1>5 DEF RtmpStop, RtmpUnborn
    <2> HIDE DEF r
    <2> QED
      BY <2>1, <2>2, RtmpKeepsReader
  <1>6. CASE RtmpStopJoins(g)
    <2> DEFINE r == [rtmp[g] EXCEPT !.t = FALSE, !.pc = "drain"]
    <2>1. r.reader = "ended"
      BY <1>1, <1>6 DEF RtmpRecord, RtmpStopJoins
    <2>2. rtmp' = [rtmp EXCEPT ![g] = r] \/ UNCHANGED rtmp
      BY <1>6 DEF RtmpStopJoins, RtmpCrashes
    <2>3. CASE UNCHANGED rtmp
      BY <2>3 DEF RtmpJoined
    <2> HIDE DEF r
    <2> QED
      BY <2>1, <2>2, <2>3, RtmpOneJoined DEF RtmpNoReader
  <1>7. CASE RtmpDrain(g)
    <2> DEFINE r == [rtmp[g] EXCEPT !.queue = <<>>, !.pc = "erase"]
    <2>1. r.t = rtmp[g].t /\ r.reader = rtmp[g].reader
      BY <1>1 DEF RtmpRecord
    <2>2. rtmp' = [rtmp EXCEPT ![g] = r] /\ rtmp[g].pc \notin RtmpUnborn
      BY <1>7 DEF RtmpDrain, RtmpUnborn
    <2> HIDE DEF r
    <2> QED
      BY <2>1, <2>2, RtmpKeepsReader
  <1>8. CASE RtmpStart(g)
    <2>1. CASE RtmpGo(g, "null")
      BY <2>1, RtmpGoJoined DEF RtmpUnborn
    <2> QED
      BY <1>3, <1>8, <2>1 DEF RtmpStart
  <1> QED
    BY <1>2, <1>4, <1>5, <1>6, <1>7, <1>8 DEF RtmpThread

\* The thread that stops the task neither makes nor joins a reader.
LEMMA RtmpStopperJoins ==
  ASSUME RtmpInvariant, RtmpJoined, NEW g \in RtmpGen,
         RtmpTaskStops(g) \/ RtmpNotify(g) \/ RtmpNotifyAll(g)
  PROVE  RtmpJoined'
  <1>1. rtmp[g] \in RtmpRecord /\ RtmpNoReader(rtmp[g])
    BY DEF RtmpInvariant, RtmpJoined
  <1>2. CASE RtmpTaskStops(g)
    <2> DEFINE r == [rtmp[g] EXCEPT !.stopping = TRUE]
    <2>1. r.t = rtmp[g].t /\ r.reader = rtmp[g].reader
      BY <1>1 DEF RtmpRecord
    <2>2. rtmp' = [rtmp EXCEPT ![g] = r] /\ rtmp[g].pc \notin RtmpUnborn
      BY <1>2 DEF RtmpTaskStops, RtmpInLoop, RtmpUnborn
    <2> HIDE DEF r
    <2> QED
      BY <2>1, <2>2, RtmpKeepsReader
  <1>3. CASE RtmpNotify(g)
    <2> DEFINE r == [rtmp[g] EXCEPT !.running = FALSE, !.notify = "flag"]
    <2>1. r.t = rtmp[g].t /\ r.reader = rtmp[g].reader
      BY <1>1 DEF RtmpRecord
    <2>2. rtmp' = [rtmp EXCEPT ![g] = r] /\ rtmp[g].pc \notin RtmpUnborn
      BY <1>3 DEF RtmpNotify, RtmpExists, RtmpUnborn
    <2> HIDE DEF r
    <2> QED
      BY <2>1, <2>2, RtmpKeepsReader
  <1>4. CASE RtmpNotifyAll(g)
    <2> DEFINE r == [rtmp[g] EXCEPT !.notify = "done",
                                    !.pc = IF @ = "wait" THEN "woken" ELSE @]
    <2>1. r.t = rtmp[g].t /\ r.reader = rtmp[g].reader
      BY <1>1 DEF RtmpRecord
    <2>2. CASE UNCHANGED rtmp
      BY <2>2 DEF RtmpJoined
    <2>3. CASE rtmp' = [rtmp EXCEPT ![g] = r] /\ RtmpExists(g)
      <3> HIDE DEF r
      <3> QED
        BY <2>1, <2>3, RtmpKeepsReader DEF RtmpExists, RtmpUnborn
    <2> QED
      BY <1>4, <2>2, <2>3 DEF RtmpNotifyAll, RtmpCrashes
  <1> QED
    BY <1>2, <1>3, <1>4

\* A stopped element has no reader that still runs, unless the daemon has made it
\* a new one, which it then still holds: for any number of elements, and although
\* RtmpStop joins without module.obj_mtx and the daemon may join the same reader.
THEOREM RtmpReaderJoinedHolds == RtmpSpec => []RtmpReaderJoined
  <1>1. RtmpInitial => RtmpJoined
    BY DEF RtmpInitial, RtmpJoined, RtmpNoReader, RtmpUnborn
  <1>2. ASSUME RtmpInvariant, RtmpJoined, [RtmpNext]_rtmpVars PROVE RtmpJoined'
    <2>1. CASE UNCHANGED rtmpVars
      BY <1>2, <2>1 DEF rtmpVars, RtmpJoined
    <2> QED
      BY <1>2, <2>1, RtmpReaderJoins, RtmpDaemonJoins, RtmpThreadJoins, RtmpStopperJoins
        DEF RtmpNext
  <1>3. RtmpInvariant /\ [RtmpNext]_rtmpVars => RtmpInvariant'
    BY RtmpStepImplements
  <1>4. RtmpJoined => RtmpReaderJoined
    BY DEF RtmpJoined, RtmpReaderJoined, RtmpNoReader, RtmpUnborn
  <1> QED
    BY <1>1, <1>2, <1>3, <1>4, RtmpInitialOrdered, PTL DEF RtmpSpec
==============================================================================
