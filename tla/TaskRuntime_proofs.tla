-------------------------- MODULE TaskRuntime_proofs --------------------------
(***************************************************************************)
(* Proofs about TaskRuntime, for every pipeline: any number of threads,    *)
(* elements and queues, any queue length, any plugins that fail.           *)
(***************************************************************************)
EXTENDS TaskRuntime, FiniteSetTheorems, TLAPS

-----------------------------------------------------------------------------
(* What the assumptions say about a thread and an element.                 *)

LEMMA ElesType ==
  ASSUME NEW t \in Thread
  PROVE  /\ Len(Eles[t]) \in Nat \ {0}
         /\ \A i \in 1..Len(Eles[t]) : Eles[t][i] \in Element
BY PipelineAssumption

LEMMA InputsType ==
  ASSUME NEW e \in Element
  PROVE  /\ Len(Inputs[e]) \in Nat
         /\ \A i \in 1..Len(Inputs[e]) : Inputs[e][i] \in Queue /\ Producer[Inputs[e][i]] \in Element
         /\ Inputs[e] # <<>> => Main(e) \in Queue
BY PipelineAssumption DEF Main

LEMMA CurEleType ==
  ASSUME ThreadType, NEW t \in Thread
  PROVE  CurEle(t) \in Element
BY ElesType DEF ThreadType, CurEle

LEMMA NotifiedType ==
  ASSUME ThreadType, NEW qs
  PROVE  Notified(qs) \in [Thread -> ThreadPC]
BY DEF ThreadType, Notified, ThreadPC, Serving

LEMMA ThreadPCs ==
  ThreadPC = {"entry", "make", "init", "connect", "pstart", "sync", "spin", "loop", "get", "wait",
              "woken", "match", "process", "push", "beat", "clean", "pstop", "done", "none"}
BY DEF ThreadPC, Starting, Barrier, Serving, Ending

-----------------------------------------------------------------------------
(* Type correctness.                                                       *)

\* What no step of a thread changes, and how it changes the task's flags.
LEMMA ThreadActionTask ==
  ASSUME TaskType, NEW t \in Thread, ThreadAction(t)
  PROVE  /\ UNCHANGED <<assigned, inQue, erased, stop, restarts>>
         /\ running' => running
         /\ TaskType'
<1> USE DEF TaskType
<1>1. CASE Entry(t)
  BY <1>1 DEF Entry, Crash, taskVars
<1>2. CASE MakeFramework(t)
  BY <1>2 DEF MakeFramework, taskVars
<1>3. CASE InitElement(t)
  BY <1>3 DEF InitElement, taskVars
<1>4. CASE InitFailed(t)
  BY <1>4 DEF InitFailed, GiveUp
<1>5. CASE ConnectElement(t)
  BY <1>5 DEF ConnectElement, taskVars
<1>6. CASE SyncArrive(t)
  BY <1>6 DEF SyncArrive
<1>7. CASE SyncPass(t)
  BY <1>7 DEF SyncPass, taskVars
<1>8. CASE PluginStart(t)
  BY <1>8 DEF PluginStart, taskVars
<1>9. CASE PluginStartFailed(t)
  BY <1>9 DEF PluginStartFailed, GiveUp
<1>10. CASE LoopCheck(t)
  BY <1>10 DEF LoopCheck, taskVars
<1>11. CASE GetNothing(t)
  BY <1>11 DEF GetNothing, taskVars
<1>12. CASE PopMain(t)
  BY <1>12 DEF PopMain, taskVars
<1>13. CASE WaitMain(t)
  BY <1>13 DEF WaitMain, taskVars
<1>14. CASE StoppedAtMain(t)
  BY <1>14 DEF StoppedAtMain, taskVars
<1>15. CASE MatchInput(t)
  BY <1>15 DEF MatchInput, taskVars
<1>16. CASE Matched(t)
  BY <1>16 DEF Matched, taskVars
<1>17. CASE ProcessPacket(t)
  BY <1>17 DEF ProcessPacket, taskVars
<1>18. CASE ProcessNothing(t)
  BY <1>18 DEF ProcessNothing, taskVars
<1>19. CASE PushOutput(t)
  BY <1>19 DEF PushOutput, taskVars
<1>20. CASE Pushed(t)
  BY <1>20 DEF Pushed, taskVars
<1>21. CASE BeatAlive(t)
  BY <1>21 DEF BeatAlive
<1>22. CASE CleanOutputs(t)
  BY <1>22 DEF CleanOutputs, taskVars
<1>23. CASE StopElement(t)
  BY <1>23 DEF StopElement, Crash, taskVars
<1> QED
  BY <1>1, <1>2, <1>3, <1>4, <1>5, <1>6, <1>7, <1>8, <1>9, <1>10, <1>11, <1>12,
     <1>13, <1>14, <1>15, <1>16, <1>17, <1>18, <1>19, <1>20, <1>21, <1>22, <1>23
  DEF ThreadAction, ThreadStep

\* A thread goes to another place and another of its elements.
LEMMA MoveType ==
  ASSUME ThreadType, NEW t \in Thread, NEW p \in ThreadPC, NEW c \in 1..Len(Eles[t]),
         pc' = [pc EXCEPT ![t] = p], cur' = [cur EXCEPT ![t] = c],
         pos' \in [Thread -> Nat \ {0}], outNum' \in [Thread -> Nat]
  PROVE  ThreadType'
<1>1. pc' \in [Thread -> ThreadPC]
  BY DEF ThreadType
<1>2. Len(Eles[t]) \in Nat
  BY ElesType
<1>3. cur' \in [Thread -> Nat]
  BY <1>2 DEF ThreadType
<1>4. ASSUME NEW u \in Thread PROVE cur'[u] \in 1..Len(Eles[u])
  BY DEF ThreadType
<1> QED
  BY <1>1, <1>3, <1>4 DEF ThreadType

\* The way from one element of a thread to the next, or to its end.
LEMMA AdvanceType ==
  ASSUME ThreadType, NEW t \in Thread, NEW p \in ThreadPC, NEW r \in ThreadPC,
         IF Last(t) THEN pc' = [pc EXCEPT ![t] = p] /\ cur' = [cur EXCEPT ![t] = 1]
                    ELSE pc' = [pc EXCEPT ![t] = r] /\ cur' = [cur EXCEPT ![t] = @ + 1],
         pos' \in [Thread -> Nat \ {0}], outNum' \in [Thread -> Nat]
  PROVE  ThreadType'
<1>1. Len(Eles[t]) \in Nat \ {0}
  BY ElesType
<1>2. CASE Last(t)
  <2>1. 1 \in 1..Len(Eles[t])
    BY <1>1
  <2> QED
    BY <1>2, <2>1, MoveType
<1>3. CASE ~Last(t)
  <2>1. cur[t] + 1 \in 1..Len(Eles[t])
    BY <1>1, <1>3 DEF Last, ThreadType
  <2> QED
    BY <1>3, <2>1, MoveType
<1> QED
  BY <1>2, <1>3

LEMMA NextElementType ==
  ASSUME ThreadType, NEW t \in Thread, NextElement(t)
  PROVE  ThreadType'
<1>1. pos' \in [Thread -> Nat \ {0}] /\ outNum' \in [Thread -> Nat]
  BY DEF NextElement, ThreadType
<1>2. "beat" \in ThreadPC /\ "get" \in ThreadPC
  BY ThreadPCs
<1> QED
  BY <1>1, <1>2, AdvanceType DEF NextElement

LEMMA ThreadActionThread ==
  ASSUME ThreadType, DataType, NEW t \in Thread, ThreadAction(t)
  PROVE  ThreadType'
<1> USE ThreadPCs
<1>0. CurEle(t) \in Element /\ Len(Eles[t]) \in Nat \ {0}
  BY ElesType, CurEleType
<1>1. CASE Entry(t)
  BY <1>1 DEF Entry, Crash, threadVars, ThreadType
<1>2. CASE MakeFramework(t)
  BY <1>2 DEF MakeFramework, ThreadType
<1>3. CASE InitElement(t)
  BY <1>3 DEF InitElement, ThreadType
<1>4. CASE InitFailed(t)
  BY <1>4, <1>0 DEF InitFailed, GiveUp, ThreadType
<1>5. CASE ConnectElement(t)
  <2>1. /\ \/ UNCHANGED pc
           \/ pc' = [pc EXCEPT ![t] = IF Single(t) THEN "sync" ELSE "pstart"]
        /\ pos' = [pos EXCEPT ![t] = @ + 1] \/ pos' = [pos EXCEPT ![t] = 1]
        /\ UNCHANGED <<cur, outNum>>
    BY <1>5 DEF ConnectElement
  <2> QED
    BY <2>1 DEF ThreadType
<1>6. CASE SyncArrive(t)
  BY <1>6 DEF SyncArrive, ThreadType
<1>7. CASE SyncPass(t)
  BY <1>7 DEF SyncPass, ThreadType
<1>8. CASE PluginStart(t)
  <2>1. UNCHANGED <<pos, outNum>>
    BY <1>8 DEF PluginStart
  <2>2. "loop" \in ThreadPC /\ "sync" \in ThreadPC /\ "make" \in ThreadPC
    OBVIOUS
  <2>3. CASE Single(t)
    BY <1>8, <2>1, <2>2, <2>3, AdvanceType DEF PluginStart, ThreadType
  <2>4. CASE ~Single(t)
    BY <1>8, <2>1, <2>2, <2>4, AdvanceType DEF PluginStart, ThreadType
  <2> QED
    BY <2>3, <2>4
<1>9. CASE PluginStartFailed(t)
  BY <1>9, <1>0 DEF PluginStartFailed, GiveUp, ThreadType
<1>10. CASE LoopCheck(t)
  BY <1>10 DEF LoopCheck, ThreadType
<1>11. CASE GetNothing(t)
  BY <1>11, <1>0 DEF GetNothing, ToProcess, DataType, ThreadType
<1>12. CASE PopMain(t)
  BY <1>12 DEF PopMain, ThreadType
<1>13. CASE WaitMain(t)
  BY <1>13 DEF WaitMain, ThreadType
<1>14. CASE StoppedAtMain(t)
  BY <1>14, <1>0 DEF StoppedAtMain, ThreadType
<1>15. CASE MatchInput(t)
  <2>1. \/ NextElement(t)
        \/ pos' = [pos EXCEPT ![t] = @ + 1] /\ UNCHANGED <<pc, cur, outNum>>
    BY <1>15 DEF MatchInput
  <2>2. CASE pos' = [pos EXCEPT ![t] = @ + 1] /\ UNCHANGED <<pc, cur, outNum>>
    BY <2>2 DEF ThreadType
  <2> QED
    BY <2>1, <2>2, NextElementType
<1>16. CASE Matched(t)
  BY <1>16, <1>0 DEF Matched, ToProcess, DataType, ThreadType
<1>17. CASE ProcessPacket(t)
  BY <1>17 DEF ProcessPacket, ThreadType
<1>18. CASE ProcessNothing(t)
  BY <1>18, NextElementType DEF ProcessNothing
<1>19. CASE PushOutput(t)
  BY <1>19, NotifiedType DEF PushOutput, ThreadType
<1>20. CASE Pushed(t)
  BY <1>20, NextElementType DEF Pushed
<1>21. CASE BeatAlive(t)
  BY <1>21 DEF BeatAlive, ThreadType
<1>22. CASE CleanOutputs(t)
  BY <1>22, NotifiedType DEF CleanOutputs, ThreadType
<1>23. CASE StopElement(t)
  <2>1. CASE UNCHANGED threadVars
    BY <2>1 DEF threadVars, ThreadType
  <2>2. CASE ~UNCHANGED threadVars
    <3>1. /\ UNCHANGED <<pos, outNum>>
          /\ IF Last(t)
               THEN pc' = [pc EXCEPT ![t] = "done"] /\ cur' = [cur EXCEPT ![t] = 1]
               ELSE pc' = [pc EXCEPT ![t] = "clean"] /\ cur' = [cur EXCEPT ![t] = @ + 1]
      BY <1>23, <2>2 DEF StopElement, Crash
    <3>2. "done" \in ThreadPC /\ "clean" \in ThreadPC
      OBVIOUS
    <3> QED
      BY <3>1, <3>2, AdvanceType DEF ThreadType
  <2> QED
    BY <2>1, <2>2
<1> QED
  BY <1>1, <1>2, <1>3, <1>4, <1>5, <1>6, <1>7, <1>8, <1>9, <1>10, <1>11, <1>12,
     <1>13, <1>14, <1>15, <1>16, <1>17, <1>18, <1>19, <1>20, <1>21, <1>22, <1>23
  DEF ThreadAction, ThreadStep

LEMMA ThreadActionData ==
  ASSUME ThreadType, DataType, NEW t \in Thread, ThreadAction(t)
  PROVE  DataType'
<1>0. CurEle(t) \in Element
  BY CurEleType
<1>1. CASE Entry(t)
  BY <1>1 DEF Entry, Crash, dataVars, DataType, PluginState
<1>2. CASE MakeFramework(t)
  BY <1>2 DEF MakeFramework, DataType, PluginState
<1>3. CASE InitElement(t)
  BY <1>3 DEF InitElement, DataType, PluginState
<1>4. CASE InitFailed(t)
  BY <1>4 DEF InitFailed, GiveUp, DataType, PluginState
<1>5. CASE ConnectElement(t)
  <2> DEFINE q == Inputs[CurEle(t)][pos[t]]
  <2>1. CASE pos[t] <= Len(Inputs[CurEle(t)])
    <3>1. q \in Queue /\ Producer[q] \in Element
      BY <1>0, <2>1, InputsType DEF ThreadType
    <3>2. output' = [output EXCEPT ![Producer[q]] = Append(@, q)] /\ UNCHANGED <<plugin, qlen>>
      BY <1>5, <2>1 DEF ConnectElement
    <3> HIDE DEF q
    <3>3. output' \in [Element -> Seq(Queue)]
      BY <3>1, <3>2 DEF DataType
    <3> QED
      BY <3>2, <3>3 DEF DataType
  <2>2. CASE ~(pos[t] <= Len(Inputs[CurEle(t)]))
    BY <1>5, <2>2 DEF ConnectElement, DataType
  <2> QED
    BY <2>1, <2>2
<1>6. CASE SyncArrive(t)
  BY <1>6 DEF SyncArrive, dataVars, DataType, PluginState
<1>7. CASE SyncPass(t)
  BY <1>7 DEF SyncPass, dataVars, DataType, PluginState
<1>8. CASE PluginStart(t)
  BY <1>8 DEF PluginStart, DataType, PluginState
<1>9. CASE PluginStartFailed(t)
  BY <1>9 DEF PluginStartFailed, GiveUp, DataType, PluginState
<1>10. CASE LoopCheck(t)
  BY <1>10 DEF LoopCheck, dataVars, DataType, PluginState
<1>11. CASE GetNothing(t)
  BY <1>11 DEF GetNothing, dataVars, DataType, PluginState
<1>12. CASE PopMain(t)
  <2>1. Main(CurEle(t)) \in Queue
    BY <1>0, <1>12, InputsType DEF PopMain
  <2>2. /\ qlen[Main(CurEle(t))] > 0
        /\ qlen' = [qlen EXCEPT ![Main(CurEle(t))] = @ - 1] /\ UNCHANGED <<plugin, output>>
    BY <1>12 DEF PopMain
  <2> QED
    BY <2>1, <2>2, QueueLenAssumption DEF DataType
<1>13. CASE WaitMain(t)
  BY <1>13 DEF WaitMain, dataVars, DataType, PluginState
<1>14. CASE StoppedAtMain(t)
  BY <1>14 DEF StoppedAtMain, dataVars, DataType, PluginState
<1>15. CASE MatchInput(t)
  <2> DEFINE q == Inputs[CurEle(t)][pos[t]]
  <2>1. q \in Queue
    BY <1>0, <1>15, InputsType DEF MatchInput, ThreadType
  <2>2. /\ UNCHANGED <<plugin, output>>
        /\ \/ \E n \in 1..qlen[q] : qlen' = [qlen EXCEPT ![q] = @ - n]
           \/ qlen' = [qlen EXCEPT ![q] = 0]
    BY <1>15 DEF MatchInput
  <2> HIDE DEF q
  <2>3. CASE qlen' = [qlen EXCEPT ![q] = 0]
    BY <2>1, <2>2, <2>3, QueueLenAssumption DEF DataType
  <2>4. ASSUME NEW n \in 1..qlen[q], qlen' = [qlen EXCEPT ![q] = @ - n] PROVE DataType'
    BY <2>1, <2>2, <2>4, QueueLenAssumption DEF DataType
  <2> QED
    BY <2>2, <2>3, <2>4
<1>16. CASE Matched(t)
  BY <1>16 DEF Matched, dataVars, DataType, PluginState
<1>17. CASE ProcessPacket(t)
  BY <1>17 DEF ProcessPacket, dataVars, DataType, PluginState
<1>18. CASE ProcessNothing(t)
  BY <1>18 DEF ProcessNothing, dataVars, DataType, PluginState
<1>19. CASE PushOutput(t)
  <2> DEFINE q == output[CurEle(t)][pos[t]]
             held == IF qlen[q] >= QueueLen THEN qlen[q] - 1 ELSE qlen[q]
  <2>1. qlen' = [qlen EXCEPT ![q] = held + 1] /\ UNCHANGED <<plugin, output>>
    BY <1>19 DEF PushOutput
  <2>2. q \in Queue => held + 1 \in 0..QueueLen
    BY QueueLenAssumption DEF DataType
  <2> DEFINE n == held + 1
  <2>3. qlen' = [qlen EXCEPT ![q] = n] /\ (q \in Queue => n \in 0..QueueLen)
    BY <2>1, <2>2
  <2> HIDE DEF n, held, q
  <2>4. qlen' \in [Queue -> 0..QueueLen]
    BY <2>3 DEF DataType
  <2> QED
    BY <2>1, <2>4 DEF DataType
<1>20. CASE Pushed(t)
  BY <1>20 DEF Pushed, dataVars, DataType, PluginState
<1>21. CASE BeatAlive(t)
  BY <1>21 DEF BeatAlive, dataVars, DataType, PluginState
<1>22. CASE CleanOutputs(t)
  BY <1>22, QueueLenAssumption DEF CleanOutputs, DataType, PluginState
<1>23. CASE StopElement(t)
  BY <1>23 DEF StopElement, Crash, dataVars, DataType, PluginState
<1> QED
  BY <1>1, <1>2, <1>3, <1>4, <1>5, <1>6, <1>7, <1>8, <1>9, <1>10, <1>11, <1>12,
     <1>13, <1>14, <1>15, <1>16, <1>17, <1>18, <1>19, <1>20, <1>21, <1>22, <1>23
  DEF ThreadAction, ThreadStep

LEMMA ThreadActionTypeOK ==
  ASSUME TypeOK, NEW t \in Thread, ThreadAction(t)
  PROVE  TypeOK'
<1>1. TaskType' /\ UNCHANGED stop
  BY ThreadActionTask DEF TypeOK
<1>2. ThreadType' /\ DataType'
  BY ThreadActionThread, ThreadActionData DEF TypeOK
<1> QED
  BY <1>1, <1>2 DEF TypeOK, StopType

\* The first element of the first thread is where every stop begins.
LEMMA FirstType == 1 \in Thread /\ 1 \in 1..Len(Eles[1])
<1>1. 1 \in Thread
  BY NThreadsAssumption DEF Thread
<1> QED
  BY <1>1, ElesType

LEMMA IdleType == Idle \in StopState /\ Idle.ti = 1 /\ Idle.ei = 1
BY DEF Idle, StopState

\* The walk of TaskParams::Stop stays within thread_vec and t_ele_vec.
LEMMA AdvanceThread ==
  ASSUME NEW s \in StopState, NEW r, r = [s EXCEPT !.at = "queues", !.ti = @ + 1, !.ei = 1]
  PROVE  r \in StopState /\ r.ti = s.ti + 1 /\ r.ei = 1
<1>1. s.ti + 1 \in Nat
  BY DEF StopState
<1> QED
  BY <1>1 DEF StopState

LEMMA AdvanceElement ==
  ASSUME NEW s \in StopState, NEW r, r = [s EXCEPT !.at = "queues", !.ei = @ + 1]
  PROVE  r \in StopState /\ r.ti = s.ti /\ r.ei = s.ei + 1
<1>1. s.ei + 1 \in Nat
  BY DEF StopState
<1> QED
  BY <1>1 DEF StopState

LEMMA NextStopThreadType ==
  ASSUME StopType, NextStopThread
  PROVE  StopType'
<1>1. CASE stop.ti < NThreads
  <2>1. stop.ti + 1 \in Thread
    BY <1>1, NThreadsAssumption DEF StopType, Thread
  <2>2. 1 \in 1..Len(Eles[stop.ti + 1])
    BY <2>1, ElesType
  <2>3. stop' = [stop EXCEPT !.at = "queues", !.ti = @ + 1, !.ei = 1]
    BY <1>1 DEF NextStopThread
  <2>4. stop' \in StopState /\ stop'.ti = stop.ti + 1 /\ stop'.ei = 1
    BY <2>3, AdvanceThread DEF StopType
  <2> QED
    BY <2>1, <2>2, <2>4 DEF StopType
<1>2. CASE ~(stop.ti < NThreads)
  BY <1>2 DEF NextStopThread, StopType, StopState
<1> QED
  BY <1>1, <1>2

LEMMA StopNotifyPluginType ==
  ASSUME TypeOK, StopNotifyPlugin
  PROVE  TypeOK'
<1>1. CASE UNCHANGED stop
  <2>1. CASE UNCHANGED plugin
    BY <1>1, <2>1 DEF StopNotifyPlugin, Crash, TypeOK, TaskType, ThreadType, DataType, StopType,
                      taskVars, threadVars, dataVars
  <2>2. CASE ~UNCHANGED plugin
    BY <1>1, <2>2 DEF StopNotifyPlugin, NextStopThread, Crash, dataVars, TypeOK, StopType, StopState
  <2> QED
    BY <2>1, <2>2
<1>2. CASE ~UNCHANGED stop
  <2>1. /\ plugin' = [plugin EXCEPT ![StopEle] =
                        IF StopEle \in Notifies /\ @ = "live" THEN "notified" ELSE @]
        /\ IF stop.ei < Len(Eles[stop.ti])
             THEN stop' = [stop EXCEPT !.at = "queues", !.ei = @ + 1]
             ELSE IF stop.by = "mgr" THEN stop' = [stop EXCEPT !.at = "join"]
                                     ELSE NextStopThread
        /\ UNCHANGED <<taskVars, threadVars, output, qlen, restarts, crashed>>
    BY <1>2 DEF StopNotifyPlugin, Crash
  <2>2. TaskType' /\ ThreadType' /\ DataType'
    BY <2>1 DEF TypeOK, TaskType, ThreadType, DataType, PluginState, taskVars, threadVars
  <2>3. StopType'
    <3>1. CASE stop.ei < Len(Eles[stop.ti])
      <4>1. stop' \in StopState /\ stop'.ti = stop.ti /\ stop'.ei = stop.ei + 1
        BY <2>1, <3>1, AdvanceElement DEF TypeOK, StopType
      <4>2. stop.ei + 1 \in 1..Len(Eles[stop.ti])
        BY <3>1, ElesType DEF TypeOK, StopType
      <4> QED
        BY <4>1, <4>2 DEF TypeOK, StopType
    <3>2. CASE ~(stop.ei < Len(Eles[stop.ti])) /\ stop.by = "mgr"
      BY <2>1, <3>2 DEF TypeOK, StopType, StopState
    <3>3. CASE ~(stop.ei < Len(Eles[stop.ti])) /\ stop.by # "mgr"
      BY <2>1, <3>3, NextStopThreadType DEF TypeOK
    <3> QED
      BY <3>1, <3>2, <3>3
  <2> QED
    BY <2>2, <2>3 DEF TypeOK
<1> QED
  BY <1>1, <1>2

LEMMA StopByType ==
  ASSUME TypeOK, NEW who \in {"mgr", "rest"}, NEW del \in BOOLEAN, StopBy(who, del)
  PROVE  StopType'
<1>1. stop' \in StopState /\ stop'.ti = 1 /\ stop'.ei = 1
  BY DEF StopBy, StopState
<1> QED
  BY <1>1, FirstType DEF StopType

LEMMA StopActionTypeOK ==
  ASSUME TypeOK, StopStep \/ HeartbeatTimeout \/ RestStop \/ ObjErased
  PROVE  TypeOK'
<1> USE DEF TypeOK
<1>0. CASE ObjErased
  BY <1>0 DEF ObjErased, threadVars, dataVars, TaskType, ThreadType, DataType, StopType
<1>1. CASE HeartbeatTimeout
  BY <1>1 DEF HeartbeatTimeout, threadVars, dataVars, TaskType, ThreadType, DataType, StopType
<1>2. CASE KeepAliveFails
  <2>1. StopType'
    BY <1>2, StopByType DEF KeepAliveFails
  <2>2. ThreadType' /\ DataType'
    BY <1>2 DEF KeepAliveFails, threadVars, dataVars, ThreadType, DataType
  <2>3. restarts' \in Nat
    BY <1>2 DEF KeepAliveFails, TaskType
  <2>4. TaskType'
    BY <1>2, <2>3 DEF KeepAliveFails, StopBy, TaskType
  <2> QED
    BY <2>1, <2>2, <2>4
<1>3. CASE RestStop
  <2>1. StopType'
    BY <1>3, StopByType DEF RestStop
  <2>2. TaskType' /\ ThreadType' /\ DataType'
    BY <1>3 DEF RestStop, StopBy, threadVars, dataVars, TaskType, ThreadType, DataType
  <2> QED
    BY <2>1, <2>2
<1>4. CASE StopNotifyQueues
  <2>1. ThreadType'
    BY <1>4, NotifiedType DEF StopNotifyQueues, ThreadType
  <2>2. TaskType' /\ DataType'
    BY <1>4 DEF StopNotifyQueues, taskVars, dataVars, TaskType, DataType
  <2>3. StopType'
    BY <1>4 DEF StopNotifyQueues, StopType, StopState
  <2> QED
    BY <2>1, <2>2, <2>3
<1>5. CASE StopNotifyPlugin
  BY <1>5, StopNotifyPluginType
<1>6. CASE Join
  <2>1. ThreadType'
    BY <1>6, ThreadPCs DEF Join, ThreadType
  <2>2. TaskType' /\ DataType'
    BY <1>6 DEF Join, taskVars, dataVars, TaskType, DataType
  <2>3. StopType'
    BY <1>6, NextStopThreadType DEF Join
  <2> QED
    BY <2>1, <2>2, <2>3
<1>7. CASE TaskStart
  <2>1. pc' \in [Thread -> ThreadPC]
    BY <1>7, ThreadPCs DEF TaskStart
  <2>2. ThreadType'
    BY <1>7, <2>1, ElesType DEF TaskStart, ThreadType
  <2>3. DataType'
    BY <1>7, QueueLenAssumption DEF TaskStart, DataType, PluginState
  <2>4. TaskType' /\ StopType'
    BY <1>7, FirstType, IdleType DEF TaskStart, TaskType, StopType
  <2> QED
    BY <2>2, <2>3, <2>4
<1>8. CASE TaskStartFails
  BY <1>8, FirstType, IdleType
  DEF TaskStartFails, threadVars, dataVars, TaskType, ThreadType, DataType, StopType
<1>9. CASE RestStopEnds
  <2>1. stop.del \in BOOLEAN
    BY DEF StopType, StopState
  <2> QED
    BY <1>9, <2>1, FirstType, IdleType
    DEF RestStopEnds, threadVars, dataVars, TaskType, ThreadType, DataType, StopType
<1> QED
  BY <1>0, <1>1, <1>2, <1>3, <1>4, <1>5, <1>6, <1>7, <1>8, <1>9 DEF StopStep

LEMMA InitTypeOK == Init => TypeOK
<1> SUFFICES ASSUME Init PROVE TypeOK
  OBVIOUS
<1>1. TaskType
  BY DEF Init, TaskType
<1>2. pc \in [Thread -> ThreadPC]
  BY ThreadPCs DEF Init
<1>3. ThreadType
  BY <1>2, ElesType DEF Init, ThreadType
<1>4. DataType
  BY QueueLenAssumption DEF Init, DataType, PluginState
<1>5. StopType
  BY FirstType, IdleType DEF Init, StopType
<1> QED
  BY <1>1, <1>3, <1>4, <1>5 DEF TypeOK

\* Every step keeps the variables in their types: a queue within QueueLen, the
\* counters over elements within t_ele_vec, the walk of Stop within thread_vec.
THEOREM TypeCorrect == Spec => []TypeOK
<1>1. Init => TypeOK
  BY InitTypeOK
<1>2. TypeOK /\ [Next]_vars => TypeOK'
  <2> SUFFICES ASSUME TypeOK, [Next]_vars PROVE TypeOK'
    OBVIOUS
  <2>1. CASE \E t \in Thread : ThreadAction(t)
    BY <2>1, ThreadActionTypeOK
  <2>2. CASE StopStep \/ HeartbeatTimeout \/ RestStop \/ ObjErased
    BY <2>2, StopActionTypeOK
  <2>3. CASE UNCHANGED vars
    BY <2>3 DEF vars, TypeOK, TaskType, ThreadType, DataType, StopType
  <2> QED
    BY <2>1, <2>2, <2>3 DEF Next
<1> QED
  BY <1>1, <1>2, PTL DEF Spec

-----------------------------------------------------------------------------
(* What one step of a thread can do, said once for all its actions.        *)

LEMMA RangeAppend ==
  ASSUME NEW S, NEW s \in Seq(S), NEW x \in S
  PROVE  Range(Append(s, x)) = Range(s) \cup {x}
<1>1. ASSUME NEW y \in Range(s) PROVE y \in Range(Append(s, x))
  BY <1>1 DEF Range
<1>2. x \in Range(Append(s, x))
  <2>1. Len(s) + 1 \in DOMAIN Append(s, x) /\ Append(s, x)[Len(s) + 1] = x
    OBVIOUS
  <2> QED
    BY <2>1 DEF Range
<1>3. ASSUME NEW y \in Range(Append(s, x)) PROVE y \in Range(s) \cup {x}
  BY <1>3 DEF Range
<1> QED
  BY <1>1, <1>2, <1>3

\* The other threads stay where they are, but for one that is woken.
LEMMA ThreadActionOthers ==
  ASSUME ThreadType, NEW t \in Thread, ThreadAction(t), NEW u \in Thread, u # t
  PROVE  /\ cur'[u] = cur[u] /\ pos'[u] = pos[u]
         /\ \/ pc'[u] = pc[u]
            \/ pc[u] = "wait" /\ pc'[u] = "woken"
<1> USE DEF ThreadType
<1>1. CASE Entry(t)
  BY <1>1 DEF Entry, Crash, threadVars
<1>2. CASE MakeFramework(t)
  BY <1>2 DEF MakeFramework
<1>3. CASE InitElement(t)
  BY <1>3 DEF InitElement
<1>4. CASE InitFailed(t)
  BY <1>4 DEF InitFailed, GiveUp
<1>5. CASE ConnectElement(t)
  BY <1>5 DEF ConnectElement
<1>6. CASE SyncArrive(t)
  BY <1>6 DEF SyncArrive
<1>7. CASE SyncPass(t)
  BY <1>7 DEF SyncPass
<1>8. CASE PluginStart(t)
  BY <1>8 DEF PluginStart, Last
<1>9. CASE PluginStartFailed(t)
  BY <1>9 DEF PluginStartFailed, GiveUp
<1>10. CASE LoopCheck(t)
  BY <1>10 DEF LoopCheck
<1>11. CASE GetNothing(t)
  BY <1>11 DEF GetNothing, ToProcess
<1>12. CASE PopMain(t)
  BY <1>12 DEF PopMain
<1>13. CASE WaitMain(t)
  BY <1>13 DEF WaitMain
<1>14. CASE StoppedAtMain(t)
  BY <1>14 DEF StoppedAtMain
<1>15. CASE MatchInput(t)
  BY <1>15 DEF MatchInput, NextElement, Last
<1>16. CASE Matched(t)
  BY <1>16 DEF Matched, ToProcess
<1>17. CASE ProcessPacket(t)
  BY <1>17 DEF ProcessPacket
<1>18. CASE ProcessNothing(t)
  BY <1>18 DEF ProcessNothing, NextElement, Last
<1>19. CASE PushOutput(t)
  BY <1>19 DEF PushOutput, Notified
<1>20. CASE Pushed(t)
  BY <1>20 DEF Pushed, NextElement, Last
<1>21. CASE BeatAlive(t)
  BY <1>21 DEF BeatAlive
<1>22. CASE CleanOutputs(t)
  BY <1>22 DEF CleanOutputs, Notified
<1>23. CASE StopElement(t)
  BY <1>23 DEF StopElement, Crash, Last, threadVars
<1> QED
  BY <1>1, <1>2, <1>3, <1>4, <1>5, <1>6, <1>7, <1>8, <1>9, <1>10, <1>11, <1>12,
     <1>13, <1>14, <1>15, <1>16, <1>17, <1>18, <1>19, <1>20, <1>21, <1>22, <1>23
  DEF ThreadAction, ThreadStep

\* Where the thread itself can go.
LEMMA ThreadActionOwn ==
  ASSUME TaskType, ThreadType, FirstElement, NEW t \in Thread, ThreadAction(t)
  PROVE  /\ pc[t] \notin {"none", "wait", "done"} /\ pc'[t] # "none"
         /\ pc'[t] = "wait" =>
              running /\ cur'[t] = cur[t] /\ pc[t] \in Serving /\ Inputs[CurEle(t)] # <<>>
         /\ pc'[t] \in {"entry", "sync", "spin", "loop", "beat"} => cur'[t] = 1
         /\ pc'[t] \in Ending =>
              \/ pc[t] \notin Ending /\ ~running' /\ pc'[t] = "clean" /\ cur'[t] = 1
              \/ pc[t] = "clean" /\ pc'[t] = "pstop" /\ cur'[t] = cur[t]
              \/ pc[t] = "pstop" /\ pc'[t] = "pstop" /\ cur'[t] = cur[t]
              \/ pc[t] = "pstop" /\ pc'[t] = "clean" /\ cur'[t] = cur[t] + 1
              \/ pc[t] = "pstop" /\ pc'[t] = "done" /\ cur[t] = Len(Eles[t])
         /\ pc[t] \in Ending => pc'[t] \in Ending
<1> USE DEF ThreadType, TaskType, Serving, Ending
<1>0. /\ pc[t] \in {"entry", "sync", "spin", "loop", "beat"} \/ Single(t) => cur[t] = 1
      /\ cur[t] \in Nat
  BY ElesType DEF FirstElement, Single
<1>1. CASE Entry(t)
  BY <1>1, <1>0 DEF Entry, Crash, threadVars
<1>2. CASE MakeFramework(t)
  BY <1>2, <1>0 DEF MakeFramework
<1>3. CASE InitElement(t)
  BY <1>3, <1>0 DEF InitElement
<1>4. CASE InitFailed(t)
  BY <1>4, <1>0 DEF InitFailed, GiveUp
<1>5. CASE ConnectElement(t)
  <2>1. \/ UNCHANGED <<pc, cur>>
        \/ pc' = [pc EXCEPT ![t] = IF Single(t) THEN "sync" ELSE "pstart"] /\ UNCHANGED cur
    BY <1>5 DEF ConnectElement
  <2>2. pc[t] = "connect"
    BY <1>5 DEF ConnectElement
  <2> QED
    BY <1>0, <2>1, <2>2
<1>6. CASE SyncArrive(t)
  BY <1>6, <1>0 DEF SyncArrive
<1>7. CASE SyncPass(t)
  BY <1>7, <1>0 DEF SyncPass
<1>8. CASE PluginStart(t)
  BY <1>8, <1>0 DEF PluginStart, Last
<1>9. CASE PluginStartFailed(t)
  BY <1>9, <1>0 DEF PluginStartFailed, GiveUp
<1>10. CASE LoopCheck(t)
  BY <1>10, <1>0 DEF LoopCheck, taskVars
<1>11. CASE GetNothing(t)
  BY <1>11, <1>0 DEF GetNothing, ToProcess
<1>12. CASE PopMain(t)
  BY <1>12, <1>0 DEF PopMain
<1>13. CASE WaitMain(t)
  BY <1>13, <1>0 DEF WaitMain
<1>14. CASE StoppedAtMain(t)
  BY <1>14, <1>0 DEF StoppedAtMain
<1>15. CASE MatchInput(t)
  BY <1>15, <1>0 DEF MatchInput, NextElement, Last
<1>16. CASE Matched(t)
  BY <1>16, <1>0 DEF Matched, ToProcess
<1>17. CASE ProcessPacket(t)
  BY <1>17, <1>0 DEF ProcessPacket
<1>18. CASE ProcessNothing(t)
  BY <1>18, <1>0 DEF ProcessNothing, NextElement, Last
<1>19. CASE PushOutput(t)
  BY <1>19 DEF PushOutput, Notified
<1>20. CASE Pushed(t)
  BY <1>20, <1>0 DEF Pushed, NextElement, Last
<1>21. CASE BeatAlive(t)
  BY <1>21, <1>0 DEF BeatAlive
<1>22. CASE CleanOutputs(t)
  BY <1>22 DEF CleanOutputs, Notified
<1>23. CASE StopElement(t)
  BY <1>23, <1>0 DEF StopElement, Crash, Last, threadVars
<1> QED
  BY <1>1, <1>2, <1>3, <1>4, <1>5, <1>6, <1>7, <1>8, <1>9, <1>10, <1>11, <1>12,
     <1>13, <1>14, <1>15, <1>16, <1>17, <1>18, <1>19, <1>20, <1>21, <1>22, <1>23
  DEF ThreadAction, ThreadStep

\* Only ConnectElement changes an output list: it adds the next input queue of
\* the element it is at.
LEMMA ThreadActionOutput ==
  ASSUME ThreadType, DataType, NEW t \in Thread, ThreadAction(t)
  PROVE  \/ UNCHANGED output /\ (pc[t] = "connect" => pc'[t] # "connect")
         \/ /\ pc[t] = "connect" /\ pc'[t] = "connect" /\ UNCHANGED cur
            /\ pos'[t] = pos[t] + 1 /\ pos[t] \in 1..Len(Inputs[CurEle(t)])
            /\ \A e \in Element : Range(output'[e]) =
                 IF e = Producer[Inputs[CurEle(t)][pos[t]]]
                   THEN Range(output[e]) \cup {Inputs[CurEle(t)][pos[t]]}
                   ELSE Range(output[e])
<1>1. CASE ConnectElement(t) /\ pos[t] <= Len(Inputs[CurEle(t)])
  <2> DEFINE q == Inputs[CurEle(t)][pos[t]]
  <2>1. /\ output' = [output EXCEPT ![Producer[q]] = Append(@, q)]
        /\ pos' = [pos EXCEPT ![t] = @ + 1] /\ UNCHANGED <<pc, cur>> /\ pc[t] = "connect"
    BY <1>1 DEF ConnectElement
  <2>2. pos[t] \in 1..Len(Inputs[CurEle(t)])
    BY <1>1, CurEleType, InputsType DEF ThreadType
  <2>3. q \in Queue
    BY <2>2, CurEleType, InputsType
  <2> HIDE DEF q
  <2>4. ASSUME NEW e \in Element
        PROVE  Range(output'[e]) = IF e = Producer[q] THEN Range(output[e]) \cup {q}
                                                      ELSE Range(output[e])
    <3>1. output[e] \in Seq(Queue)
      BY DEF DataType
    <3>2. CASE e = Producer[q]
      <4>1. output'[e] = Append(output[e], q)
        BY <2>1, <3>2 DEF DataType
      <4> QED
        BY <2>3, <3>1, <3>2, <4>1, RangeAppend
    <3>3. CASE e # Producer[q]
      <4>1. output'[e] = output[e]
        BY <2>1, <3>3 DEF DataType
      <4> QED
        BY <3>3, <4>1
    <3> QED
      BY <3>2, <3>3
  <2>5. pc'[t] = "connect" /\ pos'[t] = pos[t] + 1
    BY <2>1 DEF ThreadType
  <2> QED
    BY <2>1, <2>2, <2>4, <2>5 DEF q
<1>2. CASE ConnectElement(t) /\ ~(pos[t] <= Len(Inputs[CurEle(t)]))
  <2>1. UNCHANGED output /\ pc' = [pc EXCEPT ![t] = IF Single(t) THEN "sync" ELSE "pstart"]
    BY <1>2 DEF ConnectElement
  <2> QED
    BY <2>1 DEF ThreadType
<1>3. CASE \/ Entry(t) \/ MakeFramework(t) \/ InitElement(t) \/ InitFailed(t) \/ SyncArrive(t)
           \/ SyncPass(t) \/ PluginStart(t) \/ PluginStartFailed(t)
  BY <1>3 DEF Entry, Crash, MakeFramework, InitElement, InitFailed, GiveUp, SyncArrive, SyncPass,
              PluginStart, PluginStartFailed, dataVars
<1>4. CASE \/ LoopCheck(t) \/ GetNothing(t) \/ PopMain(t) \/ WaitMain(t) \/ StoppedAtMain(t)
           \/ MatchInput(t) \/ Matched(t)
  BY <1>4 DEF LoopCheck, GetNothing, PopMain, WaitMain, StoppedAtMain, MatchInput, Matched, dataVars
<1>5. CASE \/ ProcessPacket(t) \/ ProcessNothing(t) \/ PushOutput(t) \/ Pushed(t) \/ BeatAlive(t)
           \/ CleanOutputs(t) \/ StopElement(t)
  BY <1>5 DEF ProcessPacket, ProcessNothing, PushOutput, Pushed, BeatAlive, CleanOutputs,
              StopElement, Crash, dataVars
<1> QED
  BY <1>1, <1>2, <1>3, <1>4, <1>5 DEF ThreadAction, ThreadStep

\* A thread gets past the connection of an element only at the end of
\* ConnectElement.
LEMMA ThreadActionPast ==
  ASSUME TaskType, ThreadType, FirstElement, NEW t \in Thread, ThreadAction(t),
         NEW i \in 1..Len(Eles[t]), PastConnect(t, i)'
  PROVE  \/ PastConnect(t, i)
         \/ pc[t] = "connect" /\ i = cur[t] /\ pos[t] > Len(Inputs[CurEle(t)])
<1>0. /\ Len(Eles[t]) \in Nat /\ cur[t] \in 1..Len(Eles[t])
      /\ pc[t] \in {"entry", "sync", "spin", "loop", "beat"} => cur[t] = 1
      /\ Single(t) => cur[t] = 1 /\ i = 1
  <2>1. Len(Eles[t]) \in Nat /\ cur[t] \in 1..Len(Eles[t])
    BY ElesType DEF ThreadType
  <2>2. pc[t] \in {"entry", "sync", "spin", "loop", "beat"} => cur[t] = 1
    BY DEF FirstElement
  <2>3. Single(t) => cur[t] = 1 /\ i = 1
    BY <2>1 DEF Single
  <2> QED
    BY <2>1, <2>2, <2>3
<1> USE ThreadActionTask DEF PastConnect, ThreadType, Serving
<1>1. CASE Entry(t)
  BY <1>1, <1>0 DEF Entry, Crash, threadVars
<1>2. CASE MakeFramework(t)
  BY <1>2, <1>0 DEF MakeFramework
<1>3. CASE InitElement(t)
  BY <1>3, <1>0 DEF InitElement
<1>4. CASE InitFailed(t)
  BY <1>4 DEF InitFailed, GiveUp, Ending
<1>5. CASE ConnectElement(t)
  <2>1. CASE pos[t] <= Len(Inputs[CurEle(t)])
    <3>1. UNCHANGED <<pc, cur>>
      BY <1>5, <2>1 DEF ConnectElement
    <3> QED
      BY <1>0, <3>1
  <2>2. CASE ~(pos[t] <= Len(Inputs[CurEle(t)]))
    <3>1. pc' = [pc EXCEPT ![t] = IF Single(t) THEN "sync" ELSE "pstart"] /\ UNCHANGED cur
      BY <1>5, <2>2 DEF ConnectElement
    <3>2. pc[t] = "connect"
      BY <1>5 DEF ConnectElement
    <3>3. pos[t] > Len(Inputs[CurEle(t)])
      BY <2>2, CurEleType, InputsType
    <3> QED
      BY <1>0, <3>1, <3>2, <3>3
  <2> QED
    BY <2>1, <2>2
<1>6. CASE SyncArrive(t)
  BY <1>6, <1>0 DEF SyncArrive
<1>7. CASE SyncPass(t)
  BY <1>7, <1>0 DEF SyncPass
<1>8. CASE PluginStart(t)
  BY <1>8, <1>0 DEF PluginStart, Last
<1>9. CASE PluginStartFailed(t)
  BY <1>9 DEF PluginStartFailed, GiveUp, Ending
<1>10. CASE LoopCheck(t)
  BY <1>10, <1>0 DEF LoopCheck
<1>11. CASE GetNothing(t)
  BY <1>11, <1>0 DEF GetNothing, ToProcess
<1>12. CASE PopMain(t)
  BY <1>12, <1>0 DEF PopMain
<1>13. CASE WaitMain(t)
  BY <1>13, <1>0 DEF WaitMain
<1>14. CASE StoppedAtMain(t)
  BY <1>14, <1>0 DEF StoppedAtMain
<1>15. CASE MatchInput(t)
  BY <1>15, <1>0 DEF MatchInput, NextElement, Last
<1>16. CASE Matched(t)
  BY <1>16, <1>0 DEF Matched, ToProcess
<1>17. CASE ProcessPacket(t)
  BY <1>17, <1>0 DEF ProcessPacket
<1>18. CASE ProcessNothing(t)
  BY <1>18, <1>0 DEF ProcessNothing, NextElement, Last
<1>19. CASE PushOutput(t)
  BY <1>19, <1>0 DEF PushOutput, Notified
<1>20. CASE Pushed(t)
  BY <1>20, <1>0 DEF Pushed, NextElement, Last
<1>21. CASE BeatAlive(t)
  BY <1>21, <1>0 DEF BeatAlive
<1>22. CASE CleanOutputs(t)
  BY <1>22, <1>0 DEF CleanOutputs, Notified
<1>23. CASE StopElement(t)
  BY <1>23, <1>0 DEF StopElement, Crash, Last, threadVars
<1> QED
  BY <1>1, <1>2, <1>3, <1>4, <1>5, <1>6, <1>7, <1>8, <1>9, <1>10, <1>11, <1>12,
     <1>13, <1>14, <1>15, <1>16, <1>17, <1>18, <1>19, <1>20, <1>21, <1>22, <1>23
  DEF ThreadAction, ThreadStep

\* ConnectElement starts with the first input.
LEMMA ThreadActionConnect ==
  ASSUME ThreadType, NEW t \in Thread, ThreadAction(t), pc'[t] = "connect"
  PROVE  pc[t] = "connect" \/ (pc[t] = "init" /\ pos'[t] = 1)
<1> USE DEF ThreadType
<1>1. CASE Entry(t)
  BY <1>1 DEF Entry, Crash, threadVars
<1>2. CASE MakeFramework(t)
  BY <1>2 DEF MakeFramework
<1>3. CASE InitElement(t)
  BY <1>3 DEF InitElement
<1>4. CASE InitFailed(t)
  BY <1>4 DEF InitFailed, GiveUp
<1>5. CASE ConnectElement(t)
  BY <1>5 DEF ConnectElement
<1>6. CASE SyncArrive(t)
  BY <1>6 DEF SyncArrive
<1>7. CASE SyncPass(t)
  BY <1>7 DEF SyncPass
<1>8. CASE PluginStart(t)
  BY <1>8 DEF PluginStart, Last
<1>9. CASE PluginStartFailed(t)
  BY <1>9 DEF PluginStartFailed, GiveUp
<1>10. CASE LoopCheck(t)
  BY <1>10 DEF LoopCheck
<1>11. CASE GetNothing(t)
  BY <1>11 DEF GetNothing, ToProcess
<1>12. CASE PopMain(t)
  BY <1>12 DEF PopMain
<1>13. CASE WaitMain(t)
  BY <1>13 DEF WaitMain
<1>14. CASE StoppedAtMain(t)
  BY <1>14 DEF StoppedAtMain
<1>15. CASE MatchInput(t)
  BY <1>15 DEF MatchInput, NextElement, Last
<1>16. CASE Matched(t)
  BY <1>16 DEF Matched, ToProcess
<1>17. CASE ProcessPacket(t)
  BY <1>17 DEF ProcessPacket
<1>18. CASE ProcessNothing(t)
  BY <1>18 DEF ProcessNothing, NextElement, Last
<1>19. CASE PushOutput(t)
  BY <1>19 DEF PushOutput, Notified
<1>20. CASE Pushed(t)
  BY <1>20 DEF Pushed, NextElement, Last
<1>21. CASE BeatAlive(t)
  BY <1>21 DEF BeatAlive
<1>22. CASE CleanOutputs(t)
  BY <1>22 DEF CleanOutputs, Notified
<1>23. CASE StopElement(t)
  BY <1>23 DEF StopElement, Crash, Last, threadVars
<1> QED
  BY <1>1, <1>2, <1>3, <1>4, <1>5, <1>6, <1>7, <1>8, <1>9, <1>10, <1>11, <1>12,
     <1>13, <1>14, <1>15, <1>16, <1>17, <1>18, <1>19, <1>20, <1>21, <1>22, <1>23
  DEF ThreadAction, ThreadStep

\* CleanOutputs leaves nobody waiting on the queues it has notified.
LEMMA CleanNotifies ==
  ASSUME ThreadType, NEW t \in Thread, ThreadAction(t), pc[t] = "clean",
         NEW u \in Thread, pc'[u] = "wait"
  PROVE  Main(CurEle(u)) \notin Range(output[CurEle(t)])
<1>1. CleanOutputs(t)
  BY DEF ThreadAction, ThreadStep, Entry, MakeFramework, InitElement, InitFailed, ConnectElement,
         SyncArrive, SyncPass, PluginStart, PluginStartFailed, LoopCheck, GetNothing, PopMain,
         WaitMain, StoppedAtMain, MatchInput, Matched, ProcessPacket, ProcessNothing, PushOutput,
         Pushed, BeatAlive, StopElement
<1> QED
  BY <1>1 DEF CleanOutputs, Notified, ThreadType

LEMMA ThreadActionConnectedUpTo ==
  ASSUME ThreadType, DataType, NEW t \in Thread, ThreadAction(t),
         NEW e \in Element, NEW n \in Int, ConnectedUpTo(e, n)
  PROVE  ConnectedUpTo(e, n)'
<1>1. ASSUME NEW f \in Element PROVE Range(output[f]) \subseteq Range(output'[f])
  <2>1. CASE UNCHANGED output
    BY <2>1
  <2>2. CASE ~UNCHANGED output
    BY <2>2, ThreadActionOutput
  <2> QED
    BY <2>1, <2>2
<1>2. \A j \in 1..Len(Inputs[e]) : Producer[Inputs[e][j]] \in Element
  BY InputsType
<1> QED
  BY <1>1, <1>2 DEF ConnectedUpTo

-----------------------------------------------------------------------------
(* The invariant of the stop, under the steps of a thread.                 *)

LEMMA ThreadActionFlags ==
  ASSUME TypeOK, StopInvariant, NEW t \in Thread, ThreadAction(t)
  PROVE  /\ StopClearsRunning' /\ Joined' /\ RunningThreads' /\ FirstElement'
         /\ WaitersHaveInput'
<1> USE DEF TypeOK, StopInvariant
<1>1. UNCHANGED <<assigned, inQue, stop>> /\ (running' => running)
  BY ThreadActionTask
<1>2. StopClearsRunning'
  BY <1>1 DEF StopClearsRunning
<1>3. Joined'
  <2>1. ASSUME NEW u \in Thread, pc[u] = "none" PROVE pc'[u] = "none"
    BY <2>1, ThreadActionOthers, ThreadActionOwn
  <2> QED
    BY <1>1, <2>1 DEF Joined
<1>4. RunningThreads'
  <2> SUFFICES ASSUME running', NEW u \in Thread PROVE pc'[u] \notin Ending \cup {"none"}
    BY DEF RunningThreads
  <2>1. pc[u] \notin Ending \cup {"none"}
    BY <1>1 DEF RunningThreads
  <2>2. CASE u = t
    BY <2>1, <2>2, ThreadActionOwn DEF Ending
  <2>3. CASE u # t
    BY <2>1, <2>3, ThreadActionOthers DEF Ending
  <2> QED
    BY <2>2, <2>3
<1>5. FirstElement'
  <2> SUFFICES ASSUME NEW u \in Thread, pc'[u] \in {"entry", "sync", "spin", "loop", "beat"}
               PROVE  cur'[u] = 1
    BY DEF FirstElement
  <2>1. CASE u = t
    BY <2>1, ThreadActionOwn
  <2>2. CASE u # t
    BY <2>2, ThreadActionOthers DEF FirstElement
  <2> QED
    BY <2>1, <2>2
<1>6. WaitersHaveInput'
  <2> SUFFICES ASSUME NEW u \in Thread, pc'[u] = "wait" PROVE Inputs[CurEle(u)'] # <<>>
    BY DEF WaitersHaveInput
  <2>1. CASE u = t
    BY <2>1, ThreadActionOwn DEF CurEle
  <2>2. CASE u # t
    BY <2>2, ThreadActionOthers DEF WaitersHaveInput, CurEle
  <2> QED
    BY <2>1, <2>2
<1> QED
  BY <1>2, <1>3, <1>4, <1>5, <1>6

LEMMA ThreadActionConnected ==
  ASSUME TypeOK, StopInvariant, NEW t \in Thread, ThreadAction(t)
  PROVE  ElementsConnected' /\ InputsConnected'
<1>1. TaskType /\ ThreadType /\ DataType /\ FirstElement /\ ElementsConnected /\ InputsConnected
  BY DEF TypeOK, StopInvariant
<1>2. ElementsConnected'
  <2> SUFFICES ASSUME NEW u \in Thread, NEW i \in 1..Len(Eles[u]), PastConnect(u, i)'
               PROVE  ConnectedUpTo(Eles[u][i], Len(Inputs[Eles[u][i]]))'
    BY DEF ElementsConnected
  <2>1. Eles[u][i] \in Element /\ Len(Inputs[Eles[u][i]]) \in Nat
    BY ElesType, InputsType
  <2>2. CASE PastConnect(u, i)
    <3>1. ConnectedUpTo(Eles[u][i], Len(Inputs[Eles[u][i]]))
      BY <1>1, <2>2 DEF ElementsConnected
    <3> QED
      BY <1>1, <2>1, <3>1, ThreadActionConnectedUpTo
  <2>3. CASE ~PastConnect(u, i)
    <3>1. u = t
      <4>1. running' => running
        BY <1>1, ThreadActionTask
      <4> SUFFICES ASSUME u # t PROVE FALSE
        OBVIOUS
      <4>2. /\ cur'[u] = cur[u]
            /\ pc'[u] = pc[u] \/ (pc[u] = "wait" /\ pc'[u] = "woken")
        BY <1>1, ThreadActionOthers
      <4> QED
        BY <2>3, <4>1, <4>2 DEF PastConnect, Serving
    <3>2. pc[t] = "connect" /\ i = cur[t] /\ pos[t] > Len(Inputs[CurEle(t)])
      BY <1>1, <2>3, <3>1, ThreadActionPast
    <3>3. ConnectedUpTo(CurEle(t), pos[t] - 1)
      BY <1>1, <3>2 DEF InputsConnected
    <3>4. CurEle(t) = Eles[u][i] /\ pos[t] \in Nat
      BY <1>1, <3>1, <3>2 DEF CurEle, ThreadType
    <3>5. ConnectedUpTo(Eles[u][i], Len(Inputs[Eles[u][i]]))
      <4>1. \A j \in 1..Len(Inputs[CurEle(t)]) : j <= pos[t] - 1
        BY <2>1, <3>2, <3>4
      <4> QED
        BY <3>3, <3>4, <4>1 DEF ConnectedUpTo
    <3> QED
      BY <1>1, <2>1, <3>5, ThreadActionConnectedUpTo
  <2> QED
    BY <2>2, <2>3
<1>3. InputsConnected'
  <2> SUFFICES ASSUME NEW u \in Thread, pc'[u] = "connect"
               PROVE  ConnectedUpTo(CurEle(u), pos[u] - 1)'
    BY DEF InputsConnected
  <2>1. CASE u # t
    <3>1. pc[u] = "connect" /\ cur'[u] = cur[u] /\ pos'[u] = pos[u]
      BY <1>1, <2>1, ThreadActionOthers
    <3>2. ConnectedUpTo(CurEle(u), pos[u] - 1) /\ CurEle(u) \in Element /\ pos[u] - 1 \in Int
      BY <1>1, <3>1, CurEleType DEF InputsConnected, ThreadType
    <3>3. \A j \in 1..Len(Inputs[CurEle(u)]) : j <= pos[u] - 1 =>
            Inputs[CurEle(u)][j] \in Range(output'[Producer[Inputs[CurEle(u)][j]]])
      BY <1>1, <3>2, ThreadActionConnectedUpTo DEF ConnectedUpTo
    <3> QED
      BY <3>1, <3>3 DEF ConnectedUpTo, CurEle
  <2>2. CASE u = t /\ pc[t] = "init" /\ pos'[t] = 1
    <3>1. \A j \in 1..Len(Inputs[CurEle(t)']) : ~(j <= 0)
      OBVIOUS
    <3> QED
      BY <2>2, <3>1 DEF ConnectedUpTo
  <2>3. CASE u = t /\ pc[t] = "connect"
    <3> DEFINE e == CurEle(t)
    <3>1. /\ cur' = cur /\ pos'[t] = pos[t] + 1 /\ pos[t] \in 1..Len(Inputs[e])
          /\ \A f \in Element : Range(output'[f]) =
               IF f = Producer[Inputs[e][pos[t]]]
                 THEN Range(output[f]) \cup {Inputs[e][pos[t]]} ELSE Range(output[f])
      BY <1>1, <2>3, ThreadActionOutput
    <3>2. CurEle(t)' = e
      BY <3>1 DEF CurEle
    <3>3. e \in Element /\ ConnectedUpTo(e, pos[t] - 1) /\ pos[t] - 1 \in Int /\ pos[t] \in Nat
      BY <1>1, <2>3, CurEleType DEF InputsConnected, ThreadType
    <3>4. \A j \in 1..Len(Inputs[e]) : Producer[Inputs[e][j]] \in Element
      BY <3>3, InputsType
    <3> HIDE DEF e
    <3>5. ASSUME NEW j \in 1..Len(Inputs[e]), j <= pos[t]
          PROVE  Inputs[e][j] \in Range(output'[Producer[Inputs[e][j]]])
      <4>1. CASE j = pos[t]
        BY <3>1, <3>4, <4>1
      <4>2. CASE j <= pos[t] - 1
        BY <3>1, <3>3, <3>4, <4>2 DEF ConnectedUpTo
      <4> QED
        BY <3>3, <3>5, <4>1, <4>2
    <3>6. pos'[t] - 1 = pos[t]
      BY <3>1, <3>3
    <3> QED
      BY <2>3, <3>2, <3>5, <3>6 DEF ConnectedUpTo
  <2> QED
    BY <1>1, <2>1, <2>2, <2>3, ThreadActionConnect
<1> QED
  BY <1>2, <1>3

LEMMA ThreadActionNoLostWakeup ==
  ASSUME TypeOK, StopInvariant, NEW t \in Thread, ThreadAction(t)
  PROVE  NoLostWakeup'
<1>1. /\ TaskType /\ ThreadType /\ DataType /\ FirstElement /\ ElementsConnected
      /\ RunningThreads /\ WaitersHaveInput /\ NoLostWakeup
  BY DEF TypeOK, StopInvariant
<1> SUFFICES ASSUME NEW v \in Thread, pc'[v] = "wait"
             PROVE  \E u \in Thread : \E i \in 1..Len(Eles[u]) :
                      /\ Eles[u][i] = Producer[Main(CurEle(v)')]
                      /\ Main(CurEle(v)') \in Range(output'[Producer[Main(CurEle(v)')]])
                      /\ StillCleans(u, i)'
  BY DEF NoLostWakeup, Main
<1> DEFINE e == CurEle(v)
           q == Main(CurEle(v))
<1>2. cur'[v] = cur[v] /\ Inputs[e] # <<>>
  <2>1. CASE v = t
    BY <1>1, <2>1, ThreadActionOwn
  <2>2. CASE v # t
    BY <1>1, <2>2, ThreadActionOthers DEF WaitersHaveInput
  <2> QED
    BY <2>1, <2>2
<1>3. CurEle(v)' = e
  BY <1>2 DEF CurEle
<1>4. /\ e \in Element /\ 1 \in 1..Len(Inputs[e]) /\ q = Inputs[e][1]
      /\ Producer[q] \in Element
  <2>1. e \in Element
    BY <1>1, CurEleType
  <2>2. 1 \in 1..Len(Inputs[e])
    BY <1>2, <2>1, PipelineAssumption
  <2> QED
    BY <2>1, <2>2, InputsType DEF Main
<1>5. q \in Range(output[Producer[q]]) => q \in Range(output'[Producer[q]])
  <2>1. CASE UNCHANGED output
    BY <2>1
  <2>2. CASE ~UNCHANGED output
    BY <1>1, <1>4, <2>2, ThreadActionOutput
  <2> QED
    BY <2>1, <2>2
<1>6. CASE v = t
  <2>1. running /\ pc[t] \in Serving
    BY <1>1, <1>6, ThreadActionOwn
  <2>2. q \in Range(output[Producer[q]])
    <3>1. cur[t] \in 1..Len(Eles[t]) /\ Eles[t][cur[t]] = e
      BY <1>1, <1>6 DEF ThreadType, CurEle
    <3>2. ConnectedUpTo(e, Len(Inputs[e]))
      BY <1>1, <2>1, <3>1 DEF ElementsConnected, PastConnect
    <3>3. Len(Inputs[e]) \in Nat
      BY <1>4, InputsType
    <3> QED
      BY <1>4, <3>2, <3>3 DEF ConnectedUpTo
  <2>3. PICK u \in Thread : \E i \in 1..Len(Eles[u]) : Eles[u][i] = Producer[q]
    BY <1>4, PlacementAssumption
  <2>4. PICK i \in 1..Len(Eles[u]) : Eles[u][i] = Producer[q]
    BY <2>3
  <2>5. pc'[u] \in ThreadPC \ (Ending \cup {"none"})
    <3>1. pc[u] \notin Ending \cup {"none"} /\ pc[u] \in ThreadPC
      BY <1>1, <2>1 DEF RunningThreads, ThreadType
    <3>2. CASE u = t
      BY <1>6, <3>2, ThreadPCs DEF Ending
    <3>3. CASE u # t
      BY <1>1, <3>1, <3>3, ThreadActionOthers, ThreadPCs DEF Ending
    <3> QED
      BY <3>2, <3>3
  <2>6. StillCleans(u, i)'
    BY <2>5 DEF StillCleans
  <2> QED
    BY <1>3, <1>5, <2>2, <2>4, <2>6
<1>7. CASE v # t
  <2>1. pc[v] = "wait"
    BY <1>1, <1>7, ThreadActionOthers
  <2>0. PICK u \in Thread : \E i \in 1..Len(Eles[u]) :
          Eles[u][i] = Producer[q] /\ q \in Range(output[Producer[q]]) /\ StillCleans(u, i)
    BY <1>1, <2>1 DEF NoLostWakeup
  <2>2. PICK i \in 1..Len(Eles[u]) :
          Eles[u][i] = Producer[q] /\ q \in Range(output[Producer[q]]) /\ StillCleans(u, i)
    BY <2>0
  <2>3. StillCleans(u, i)'
    <3>1. CASE u # t
      <4>1. cur'[u] = cur[u] /\ (pc'[u] = pc[u] \/ (pc[u] = "wait" /\ pc'[u] = "woken"))
        BY <1>1, <3>1, ThreadActionOthers
      <4> QED
        BY <2>2, <4>1, ThreadPCs DEF StillCleans, Ending
    <3>2. CASE u = t /\ pc[t] \notin Ending
      <4>1. \/ pc'[t] \in ThreadPC \ (Ending \cup {"none"})
            \/ pc'[t] = "clean" /\ cur'[t] = 1
        <5>1. pc'[t] \in ThreadPC
          BY <1>1, ThreadActionThread DEF ThreadType
        <5> QED
          BY <1>1, <3>2, <5>1, ThreadActionOwn DEF Ending
      <4> QED
        BY <3>2, <4>1 DEF StillCleans
    <3>3. CASE u = t /\ pc[t] \in Ending
      <4>1. /\ cur[t] \in Nat /\ i \in Nat /\ i <= Len(Eles[t])
            /\ \/ pc[t] = "clean" /\ cur[t] <= i
               \/ pc[t] = "pstop" /\ cur[t] < i
        BY <1>1, <2>2, <3>3, ElesType DEF StillCleans, ThreadType, Ending
      <4>2. pc[t] = "clean" => cur[t] # i
        <5> SUFFICES ASSUME pc[t] = "clean", cur[t] = i PROVE FALSE
          OBVIOUS
        <5>1. CurEle(t) = Producer[q]
          BY <2>2, <3>3 DEF CurEle
        <5>2. q \notin Range(output[CurEle(t)])
          BY <1>1, CleanNotifies
        <5> QED
          BY <2>2, <5>1, <5>2
      <4>3. pc'[t] \in Ending
        BY <1>1, <3>3, ThreadActionOwn
      <4>4. \/ pc'[t] = "pstop" /\ cur'[t] = cur[t]
            \/ pc[t] = "pstop" /\ pc'[t] = "clean" /\ cur'[t] = cur[t] + 1
            \/ pc[t] = "pstop" /\ cur[t] = Len(Eles[t])
        BY <1>1, <3>3, <4>3, ThreadActionOwn
      <4> QED
        BY <3>3, <4>1, <4>2, <4>4 DEF StillCleans
    <3> QED
      BY <3>1, <3>2, <3>3
  <2> QED
    BY <1>3, <1>5, <2>2, <2>3
<1> QED
  BY <1>6, <1>7

LEMMA ThreadActionStopWakes ==
  ASSUME TypeOK, StopInvariant, NEW t \in Thread, ThreadAction(t)
  PROVE  StopWakesEveryone'
<1>1. /\ TaskType /\ ThreadType /\ DataType /\ FirstElement
      /\ StopClearsRunning /\ WaitersHaveInput /\ StopWakesEveryone
  BY DEF TypeOK, StopInvariant
<1>2. UNCHANGED <<stop, inQue>>
  BY <1>1, ThreadActionTask
<1>3. ASSUME NEW v \in Thread, pc'[v] = "wait", ~running
      PROVE  v # t /\ pc[v] = "wait" /\ CurEle(v)' = CurEle(v)
  <2>1. v # t
    BY <1>1, <1>3, ThreadActionOwn
  <2>2. pc[v] = "wait" /\ cur'[v] = cur[v]
    BY <1>1, <1>3, <2>1, ThreadActionOthers
  <2> QED
    BY <2>1, <2>2 DEF CurEle
<1>4. ASSUME stop.by # "none", NEW u \in Thread, NEW i \in 1..Len(Eles[u]), StopPassed(u, i)',
             NEW v \in Thread, pc'[v] = "wait"
      PROVE  Main(CurEle(v)') \notin Range(output'[Eles[u][i]])
  <2>1. v # t /\ pc[v] = "wait" /\ CurEle(v)' = CurEle(v)
    BY <1>1, <1>3, <1>4 DEF StopClearsRunning
  <2>2. StopPassed(u, i)
    BY <1>2, <1>4 DEF StopPassed
  <2>3. Main(CurEle(v)) \notin Range(output[Eles[u][i]])
    BY <1>1, <1>4, <2>1, <2>2 DEF StopWakesEveryone
  <2>4. CASE UNCHANGED output
    BY <2>1, <2>3, <2>4
  <2>5. CASE ~UNCHANGED output
    <3>1. Eles[u][i] \in Element /\ CurEle(v) \in Element /\ CurEle(t) \in Element
      BY <1>1, ElesType, CurEleType
    <3>2. 1 \in 1..Len(Inputs[CurEle(v)])
      <4>1. Inputs[CurEle(v)] # <<>>
        BY <1>1, <2>1 DEF WaitersHaveInput
      <4>2. Inputs[CurEle(v)] \in Seq(Queue)
        BY <3>1, PipelineAssumption
      <4> QED
        BY <4>1, <4>2
    <3>3. /\ pos[t] \in 1..Len(Inputs[CurEle(t)])
          /\ \A f \in Element :
               Range(output'[f]) \subseteq Range(output[f]) \cup {Inputs[CurEle(t)][pos[t]]}
      BY <1>1, <2>5, ThreadActionOutput
    <3>4. CurEle(v) # CurEle(t)
      <4>1. cur[v] \in 1..Len(Eles[v]) /\ cur[t] \in 1..Len(Eles[t])
        BY <1>1 DEF ThreadType
      <4> QED
        BY <2>1, <4>1, PlacementAssumption DEF CurEle
    <3>5. Main(CurEle(v)) # Inputs[CurEle(t)][pos[t]]
      BY <3>1, <3>2, <3>3, <3>4, PlacementAssumption DEF Main
    <3> QED
      BY <2>1, <2>3, <3>1, <3>3, <3>5
  <2> QED
    BY <2>4, <2>5
<1>5. ASSUME ~inQue, NEW v \in Thread PROVE pc'[v] # "wait"
  BY <1>1, <1>3, <1>5 DEF StopClearsRunning, StopWakesEveryone
<1>6. ASSUME stop'.by # "none" PROVE stop.by # "none"
  BY <1>2, <1>6
<1> QED
  BY <1>2, <1>4, <1>5, <1>6 DEF StopWakesEveryone, Main

-----------------------------------------------------------------------------
(* The invariant of the stop, under the steps of the stop.                 *)

\* What a stop does to the threads: it wakes some that wait and forgets some that
\* are done.
StopMoves ==
  /\ UNCHANGED <<cur, pos, output>>
  /\ running' => running
  /\ \A u \in Thread : \/ pc'[u] = pc[u]
                       \/ pc[u] = "wait" /\ pc'[u] = "woken"
                       \/ pc[u] = "done" /\ pc'[u] = "none"

LEMMA StopMovesKeeps ==
  ASSUME TypeOK, StopInvariant, StopMoves
  PROVE  /\ RunningThreads' /\ FirstElement' /\ ElementsConnected' /\ InputsConnected'
         /\ WaitersHaveInput' /\ NoLostWakeup'
<1>1. /\ UNCHANGED <<cur, pos, output>> /\ (running' => running)
      /\ \A u \in Thread : \/ pc'[u] = pc[u]
                           \/ pc[u] = "wait" /\ pc'[u] = "woken"
                           \/ pc[u] = "done" /\ pc'[u] = "none"
  BY DEF StopMoves
<1>2. /\ RunningThreads /\ FirstElement /\ ElementsConnected /\ InputsConnected
      /\ WaitersHaveInput /\ NoLostWakeup
  BY DEF StopInvariant
<1>3. RunningThreads'
  BY <1>1, <1>2 DEF RunningThreads, Ending
<1>4. FirstElement'
  BY <1>1, <1>2 DEF FirstElement
<1>5. ASSUME NEW e, NEW n PROVE ConnectedUpTo(e, n)' <=> ConnectedUpTo(e, n)
  BY <1>1 DEF ConnectedUpTo
<1>6. ElementsConnected'
  <2> SUFFICES ASSUME NEW u \in Thread, NEW i \in 1..Len(Eles[u]), PastConnect(u, i)'
               PROVE  PastConnect(u, i)
    BY <1>2, <1>5 DEF ElementsConnected
  <2> QED
    BY <1>1 DEF PastConnect, Serving
<1>7. InputsConnected'
  <2> SUFFICES ASSUME NEW u \in Thread, pc'[u] = "connect"
               PROVE  ConnectedUpTo(CurEle(u), pos[u] - 1)'
    BY DEF InputsConnected
  <2>1. pc[u] = "connect" /\ CurEle(u)' = CurEle(u)
    BY <1>1 DEF CurEle
  <2>2. ConnectedUpTo(CurEle(u), pos[u] - 1)
    BY <1>2, <2>1 DEF InputsConnected
  <2> QED
    BY <1>1, <2>1, <2>2 DEF ConnectedUpTo
<1>8. WaitersHaveInput'
  BY <1>1, <1>2 DEF WaitersHaveInput, CurEle
<1>9. NoLostWakeup'
  <2> SUFFICES ASSUME NEW v \in Thread, pc'[v] = "wait"
               PROVE  \E u \in Thread : \E i \in 1..Len(Eles[u]) :
                        /\ Eles[u][i] = Producer[Main(CurEle(v)')]
                        /\ Main(CurEle(v)') \in Range(output'[Producer[Main(CurEle(v)')]])
                        /\ StillCleans(u, i)'
    BY DEF NoLostWakeup, Main
  <2>1. pc[v] = "wait" /\ CurEle(v)' = CurEle(v)
    BY <1>1 DEF CurEle
  <2>2. PICK u \in Thread : \E i \in 1..Len(Eles[u]) :
          /\ Eles[u][i] = Producer[Main(CurEle(v))]
          /\ Main(CurEle(v)) \in Range(output[Producer[Main(CurEle(v))]])
          /\ StillCleans(u, i)
    BY <1>2, <2>1 DEF NoLostWakeup
  <2>3. ASSUME NEW i, StillCleans(u, i) PROVE StillCleans(u, i)'
    BY <1>1, <2>3, ThreadPCs DEF StillCleans, Ending
  <2> QED
    BY <1>1, <2>1, <2>2, <2>3
<1> QED
  BY <1>3, <1>4, <1>6, <1>7, <1>8, <1>9

\* Every step of the stop but TaskStart is such a move.
LEMMA StopStepMoves ==
  ASSUME TypeOK, (StopStep /\ ~TaskStart) \/ HeartbeatTimeout \/ RestStop \/ ObjErased
  PROVE  StopMoves
<1>1. ThreadType /\ TaskType
  BY DEF TypeOK
<1> USE DEF StopMoves
<1>2. CASE HeartbeatTimeout
  BY <1>2 DEF HeartbeatTimeout, threadVars, dataVars
<1>10. CASE ObjErased
  BY <1>10 DEF ObjErased, threadVars, dataVars
<1>3. CASE KeepAliveFails
  BY <1>3 DEF KeepAliveFails, StopBy, threadVars, dataVars
<1>4. CASE RestStop
  BY <1>4 DEF RestStop, StopBy, threadVars, dataVars
<1>5. CASE StopNotifyQueues
  <2>1. UNCHANGED <<cur, pos, output, running>> /\ pc' = Notified(Range(output[StopEle]))
    BY <1>5 DEF StopNotifyQueues, taskVars, dataVars
  <2> QED
    BY <2>1 DEF Notified
<1>6. CASE StopNotifyPlugin
  <2>1. UNCHANGED <<cur, pos, output, running, pc>>
    BY <1>6 DEF StopNotifyPlugin, Crash, taskVars, threadVars, dataVars
  <2> QED
    BY <2>1
<1>7. CASE Join
  <2>1. /\ UNCHANGED <<cur, pos, output, running>> /\ pc[stop.ti] = "done"
        /\ pc' = [pc EXCEPT ![stop.ti] = "none"]
    BY <1>7 DEF Join, taskVars, dataVars
  <2> QED
    BY <1>1, <2>1 DEF ThreadType
<1>8. CASE TaskStartFails
  BY <1>8 DEF TaskStartFails, threadVars, dataVars
<1>9. CASE RestStopEnds
  BY <1>9 DEF RestStopEnds, threadVars, dataVars
<1> QED
  BY <1>10, <1>2, <1>3, <1>4, <1>5, <1>6, <1>7, <1>8, <1>9 DEF StopStep

\* A stop that starts has passed nothing, and if it has nothing to walk through
\* there is no thread.
LEMMA StopByKeeps ==
  ASSUME TypeOK, StopInvariant, NEW who \in {"mgr", "rest"}, NEW del \in BOOLEAN,
         StopBy(who, del), inQue, UNCHANGED <<assigned, inQue, pc, output>>
  PROVE  StopClearsRunning' /\ Joined' /\ StopWakesEveryone'
<1>1. /\ running' = FALSE /\ stop'.by = who /\ stop'.ti = 1 /\ stop'.ei = 1
      /\ stop'.at = IF assigned THEN "queues" ELSE "end"
  BY DEF StopBy
<1>2. ~assigned => \A u \in Thread : pc[u] = "none"
  BY DEF StopInvariant, Joined
<1>3. StopClearsRunning'
  BY <1>1 DEF StopClearsRunning
<1>4. \A u \in Thread : ~(u < 1)
  BY NThreadsAssumption DEF Thread
<1>5. Joined'
  BY <1>1, <1>2, <1>4 DEF Joined
<1>6. StopWakesEveryone'
  <2>1. CASE assigned
    <3>1. ASSUME NEW u \in Thread, NEW i \in 1..Len(Eles[u]) PROVE ~StopPassed(u, i)'
      BY <1>1, <1>4, <2>1 DEF StopPassed
    <3> QED
      BY <3>1 DEF StopWakesEveryone
  <2>2. CASE ~assigned
    <3>1. \A u \in Thread : pc'[u] # "wait"
      BY <1>2, <2>2
    <3> QED
      BY <3>1 DEF StopWakesEveryone
  <2> QED
    BY <2>1, <2>2
<1> QED
  BY <1>3, <1>5, <1>6

\* A stop that walks on without a new notification has passed nothing new.
LEMMA StopWalks ==
  ASSUME TypeOK, StopInvariant, StopMoves, UNCHANGED inQue, stop.by # "none",
         \A u \in Thread : \A i \in 1..Len(Eles[u]) : StopPassed(u, i)' => StopPassed(u, i)
  PROVE  StopWakesEveryone'
<1>1. StopWakesEveryone
  BY DEF StopInvariant
<1>2. ASSUME NEW v \in Thread, pc'[v] = "wait" PROVE pc[v] = "wait" /\ CurEle(v)' = CurEle(v)
  BY <1>2 DEF StopMoves, CurEle
<1>3. ASSUME NEW u \in Thread, NEW i \in 1..Len(Eles[u]), StopPassed(u, i)',
             NEW v \in Thread, pc'[v] = "wait"
      PROVE  Main(CurEle(v)') \notin Range(output'[Eles[u][i]])
  <2>1. StopPassed(u, i)
    BY <1>3
  <2>2. pc[v] = "wait" /\ CurEle(v)' = CurEle(v)
    BY <1>2, <1>3
  <2>3. Main(CurEle(v)) \notin Range(output[Eles[u][i]])
    BY <1>1, <2>1, <2>2 DEF StopWakesEveryone
  <2> QED
    BY <2>2, <2>3 DEF StopMoves
<1>4. ASSUME ~inQue, NEW v \in Thread PROVE pc'[v] # "wait"
  BY <1>1, <1>2, <1>4 DEF StopWakesEveryone
<1> QED
  BY <1>3, <1>4 DEF StopWakesEveryone, Main

LEMMA StopNotifyQueuesKeeps ==
  ASSUME TypeOK, StopInvariant, StopNotifyQueues
  PROVE  StopClearsRunning' /\ Joined' /\ StopWakesEveryone'
<1>1. /\ stop.at = "queues" /\ pc' = Notified(Range(output[StopEle]))
      /\ stop'.by = stop.by /\ stop'.at = "plugin" /\ stop'.ti = stop.ti /\ stop'.ei = stop.ei
      /\ UNCHANGED <<running, assigned, inQue, cur, output>>
  <2>1. stop' = [stop EXCEPT !.at = "plugin"] /\ stop \in StopState
    BY DEF StopNotifyQueues, TypeOK, StopType
  <2>2. /\ stop'.by = stop.by /\ stop'.at = "plugin" /\ stop'.ti = stop.ti /\ stop'.ei = stop.ei
    BY <2>1 DEF StopState
  <2> QED
    BY <2>2 DEF StopNotifyQueues, taskVars, dataVars
<1>2. StopClearsRunning /\ Joined /\ StopWakesEveryone
  BY DEF StopInvariant
<1>3. StopClearsRunning'
  BY <1>1, <1>2 DEF StopClearsRunning
<1>4. stop.by # "none"
  BY <1>1, <1>2 DEF StopClearsRunning
<1>5. ASSUME NEW v \in Thread
      PROVE  /\ pc[v] = "none" => pc'[v] = "none"
             /\ pc'[v] = "wait" =>
                  pc[v] = "wait" /\ Main(CurEle(v)) \notin Range(output[StopEle])
  BY <1>1 DEF Notified
<1>6. Joined'
  BY <1>1, <1>2, <1>5 DEF Joined
<1>7. ASSUME NEW u \in Thread, NEW i \in 1..Len(Eles[u]), StopPassed(u, i)',
             NEW v \in Thread, pc'[v] = "wait"
      PROVE  Main(CurEle(v)') \notin Range(output'[Eles[u][i]])
  <2>1. StopPassed(u, i) \/ Eles[u][i] = StopEle
    BY <1>1, <1>7 DEF StopPassed, StopEle
  <2>2. Main(CurEle(v)) \notin Range(output[Eles[u][i]])
    BY <1>2, <1>4, <1>5, <1>7, <2>1 DEF StopWakesEveryone
  <2>3. CurEle(v)' = CurEle(v)
    BY <1>1 DEF CurEle
  <2> QED
    BY <1>1, <2>2, <2>3
<1>8. ASSUME ~inQue, NEW v \in Thread PROVE pc'[v] # "wait"
  BY <1>2, <1>5, <1>8 DEF StopWakesEveryone
<1>9. StopWakesEveryone'
  BY <1>1, <1>7, <1>8 DEF StopWakesEveryone, Main
<1> QED
  BY <1>3, <1>6, <1>9

\* The end of one thread of thread_vec, in StopNotifyPlugin or in Join.
LEMMA NextStopThreadPasses ==
  ASSUME TypeOK, NextStopThread,
         stop.at = "join" \/ (stop.at = "plugin" /\ stop.ei = Len(Eles[stop.ti]))
  PROVE  /\ stop'.by = stop.by /\ stop'.at \in {"queues", "end"}
         /\ \A u \in Thread : \A i \in 1..Len(Eles[u]) :
              StopPassed(u, i)' => StopPassed(u, i)
         /\ \A u \in Thread : u < stop'.ti \/ stop'.at = "end" => u <= stop.ti
<1>1. stop \in StopState /\ stop.ti \in Thread /\ stop.ti \in Nat
  BY DEF TypeOK, StopType, StopState
<1>2. NThreads \in Nat /\ \A u \in Thread : u \in Nat /\ u <= NThreads
  BY NThreadsAssumption DEF Thread
<1>3. ASSUME NEW u \in Thread, NEW i \in 1..Len(Eles[u]), u <= stop.ti PROVE StopPassed(u, i)
  <2>1. Len(Eles[u]) \in Nat
    BY ElesType
  <2>2. u < stop.ti \/ u = stop.ti
    BY <1>1, <1>2, <1>3
  <2>3. CASE u = stop.ti /\ stop.at = "plugin"
    BY <2>1, <2>3 DEF StopPassed
  <2> QED
    BY <2>2, <2>3 DEF StopPassed
<1>4. CASE stop.ti < NThreads
  <2>1. stop' = [stop EXCEPT !.at = "queues", !.ti = @ + 1, !.ei = 1]
    BY <1>4 DEF NextStopThread
  <2>2. stop'.by = stop.by /\ stop'.at = "queues" /\ stop'.ti = stop.ti + 1 /\ stop'.ei = 1
    BY <1>1, <2>1 DEF StopState
  <2>3. \A u \in Thread : u < stop'.ti => u <= stop.ti
    BY <1>1, <1>2, <2>2
  <2>4. ASSUME NEW u \in Thread, NEW i \in 1..Len(Eles[u]), StopPassed(u, i)'
        PROVE  u < stop'.ti
    BY <2>2, <2>4 DEF StopPassed
  <2> QED
    BY <1>3, <2>2, <2>3, <2>4
<1>5. CASE ~(stop.ti < NThreads)
  <2>1. stop' = [stop EXCEPT !.at = "end"]
    BY <1>5 DEF NextStopThread
  <2>2. stop'.by = stop.by /\ stop'.at = "end" /\ stop'.ti = stop.ti
    BY <1>1, <2>1 DEF StopState
  <2>3. \A u \in Thread : u <= stop.ti
    BY <1>1, <1>2, <1>5
  <2> QED
    BY <1>3, <2>2, <2>3
<1> QED
  BY <1>4, <1>5

LEMMA StopNotifyPluginKeeps ==
  ASSUME TypeOK, StopInvariant, StopNotifyPlugin
  PROVE  StopClearsRunning' /\ Joined' /\ StopWakesEveryone'
<1>1. /\ stop.at = "plugin" /\ UNCHANGED <<running, assigned, inQue, pc>>
  BY DEF StopNotifyPlugin, Crash, taskVars, threadVars
<1>2. StopClearsRunning /\ Joined
  BY DEF StopInvariant
<1>3. stop.by # "none"
  BY <1>1, <1>2 DEF StopClearsRunning
<1>4. StopMoves
  <2>1. ~TaskStart
    BY <1>1 DEF TaskStart
  <2> QED
    BY <2>1, StopStepMoves DEF StopStep
<1>5. /\ stop \in StopState /\ stop.ei \in Nat /\ stop.ti \in Thread /\ Len(Eles[stop.ti]) \in Nat
      /\ stop.ei <= Len(Eles[stop.ti])
  BY ElesType DEF TypeOK, StopType
<1>6. /\ stop'.by = stop.by /\ stop'.at \in {"plugin", "queues", "join", "end"}
      /\ \A u \in Thread : \A i \in 1..Len(Eles[u]) : StopPassed(u, i)' => StopPassed(u, i)
      /\ stop.by = "mgr" => stop'.ti = stop.ti /\ stop'.at # "end"
  <2>1. CASE UNCHANGED stop
    BY <1>1, <2>1 DEF StopPassed
  <2>2. CASE stop.ei < Len(Eles[stop.ti]) /\ stop' = [stop EXCEPT !.at = "queues", !.ei = @ + 1]
    <3>1. stop'.by = stop.by /\ stop'.at = "queues" /\ stop'.ti = stop.ti /\ stop'.ei = stop.ei + 1
      BY <1>5, <2>2 DEF StopState
    <3>2. ASSUME NEW u \in Thread, NEW i \in 1..Len(Eles[u]), StopPassed(u, i)'
          PROVE  StopPassed(u, i)
      <4>1. u < stop.ti \/ (u = stop.ti /\ i < stop.ei + 1)
        BY <3>1, <3>2 DEF StopPassed
      <4>2. i \in Nat
        BY ElesType
      <4>3. i < stop.ei + 1 => i < stop.ei \/ i = stop.ei
        BY <1>5, <4>2
      <4> QED
        BY <1>1, <4>1, <4>3 DEF StopPassed
    <3> QED
      BY <3>1, <3>2
  <2>3. CASE stop.ei = Len(Eles[stop.ti]) /\ stop.by = "mgr" /\ stop' = [stop EXCEPT !.at = "join"]
    <3>1. stop'.by = stop.by /\ stop'.at = "join" /\ stop'.ti = stop.ti /\ stop'.ei = stop.ei
      BY <1>5, <2>3 DEF StopState
    <3>2. ASSUME NEW u \in Thread, NEW i \in 1..Len(Eles[u]), StopPassed(u, i)'
          PROVE  StopPassed(u, i)
      <4>1. u < stop.ti \/ u = stop.ti
        BY <3>1, <3>2 DEF StopPassed
      <4>2. u = stop.ti => i < stop.ei \/ i = stop.ei
        BY <1>5, <2>3
      <4> QED
        BY <1>1, <4>1, <4>2 DEF StopPassed
    <3> QED
      BY <3>1, <3>2
  <2>4. CASE stop.ei = Len(Eles[stop.ti]) /\ stop.by # "mgr" /\ NextStopThread
    BY <1>1, <2>4, NextStopThreadPasses
  <2>5. \/ UNCHANGED stop
        \/ /\ stop.ei < Len(Eles[stop.ti])
           /\ stop' = [stop EXCEPT !.at = "queues", !.ei = @ + 1]
        \/ /\ ~(stop.ei < Len(Eles[stop.ti])) /\ stop.by = "mgr"
           /\ stop' = [stop EXCEPT !.at = "join"]
        \/ ~(stop.ei < Len(Eles[stop.ti])) /\ stop.by # "mgr" /\ NextStopThread
    BY DEF StopNotifyPlugin, Crash
  <2>6. ~(stop.ei < Len(Eles[stop.ti])) => stop.ei = Len(Eles[stop.ti])
    BY <1>5
  <2> QED
    BY <2>1, <2>2, <2>3, <2>4, <2>5, <2>6
<1>7. StopClearsRunning'
  BY <1>1, <1>2, <1>3, <1>6 DEF StopClearsRunning
<1>8. Joined'
  BY <1>1, <1>2, <1>6 DEF Joined
<1>9. StopWakesEveryone'
  BY <1>1, <1>3, <1>4, <1>6, StopWalks
<1> QED
  BY <1>7, <1>8, <1>9

LEMMA JoinKeeps ==
  ASSUME TypeOK, StopInvariant, Join
  PROVE  StopClearsRunning' /\ Joined' /\ StopWakesEveryone'
<1>1. /\ stop.at = "join" /\ NextStopThread /\ UNCHANGED <<running, assigned, inQue>>
      /\ pc' = [pc EXCEPT ![stop.ti] = "none"]
  BY DEF Join, taskVars
<1>2. StopClearsRunning /\ Joined /\ ThreadType
  BY DEF StopInvariant, TypeOK
<1>3. stop.by # "none"
  BY <1>1, <1>2 DEF StopClearsRunning
<1>4. StopMoves
  <2>1. ~TaskStart
    BY <1>1 DEF TaskStart
  <2> QED
    BY <2>1, StopStepMoves DEF StopStep
<1>5. /\ stop'.by = stop.by /\ stop'.at \in {"queues", "end"}
      /\ \A u \in Thread : \A i \in 1..Len(Eles[u]) : StopPassed(u, i)' => StopPassed(u, i)
      /\ \A u \in Thread : u < stop'.ti \/ stop'.at = "end" => u <= stop.ti
  BY <1>1, NextStopThreadPasses
<1>6. StopClearsRunning'
  BY <1>1, <1>2, <1>3, <1>5 DEF StopClearsRunning
<1>7. Joined'
  <2>1. ASSUME NEW u \in Thread, pc[u] = "none" \/ u = stop.ti PROVE pc'[u] = "none"
    BY <1>1, <1>2, <2>1 DEF ThreadType
  <2>2. ASSUME stop.by = "mgr", NEW u \in Thread, u <= stop.ti PROVE pc'[u] = "none"
    <3>1. u < stop.ti \/ u = stop.ti
      BY <2>2, NThreadsAssumption DEF Thread, TypeOK, StopType
    <3> QED
      BY <1>2, <2>1, <2>2, <3>1 DEF Joined
  <2> QED
    BY <1>1, <1>2, <1>5, <2>1, <2>2 DEF Joined
<1>8. StopWakesEveryone'
  BY <1>1, <1>3, <1>4, <1>5, StopWalks
<1> QED
  BY <1>6, <1>7, <1>8

\* TaskParams::Start with new threads: nothing of the old ones is left.
LEMMA TaskStartKeeps ==
  ASSUME TypeOK, StopInvariant, TaskStart
  PROVE  StopInvariant'
<1>1. /\ stop' = Idle /\ running' = TRUE /\ assigned' = TRUE /\ UNCHANGED inQue
      /\ pc' = [t \in Thread |-> "entry"] /\ cur' = [t \in Thread |-> 1]
  BY DEF TaskStart
<1>2. inQue
  BY DEF TaskStart, StopInvariant, StopClearsRunning
<1>3. stop'.by = "none" /\ stop'.at = "idle"
  BY <1>1 DEF Idle
<1>4. \A t \in Thread : pc'[t] = "entry" /\ cur'[t] = 1
  BY <1>1
<1>5. StopClearsRunning' /\ Joined' /\ RunningThreads' /\ FirstElement'
  BY <1>1, <1>2, <1>3, <1>4 DEF StopClearsRunning, Joined, RunningThreads, FirstElement, Ending
<1>6. ElementsConnected'
  BY <1>4 DEF ElementsConnected, PastConnect, Serving
<1>7. InputsConnected' /\ WaitersHaveInput' /\ NoLostWakeup'
  BY <1>4 DEF InputsConnected, WaitersHaveInput, NoLostWakeup
<1>8. StopWakesEveryone'
  BY <1>3, <1>4 DEF StopWakesEveryone
<1> QED
  BY <1>5, <1>6, <1>7, <1>8 DEF StopInvariant

\* A stop that ends: DelFromTaskQue erases a task that nobody waits in.
LEMMA StopEndsKeeps ==
  ASSUME TypeOK, StopInvariant, TaskStartFails \/ RestStopEnds
  PROVE  StopClearsRunning' /\ Joined' /\ StopWakesEveryone'
<1>1. /\ stop' = Idle /\ stop.at = "end" /\ stop.by # "none"
      /\ UNCHANGED <<running, pc>>
  BY DEF TaskStartFails, RestStopEnds, threadVars
<1>2. stop'.by = "none" /\ stop'.at = "idle"
  BY <1>1 DEF Idle
<1>3. StopClearsRunning /\ Joined /\ StopWakesEveryone /\ NoLostWakeup
  BY DEF StopInvariant
<1>4. StopClearsRunning'
  BY <1>1, <1>2, <1>3 DEF StopClearsRunning
<1>5. Joined'
  <2>1. CASE TaskStartFails
    <3>1. \A u \in Thread : pc[u] = "none"
      BY <1>1, <1>3, <2>1 DEF TaskStartFails, Joined
    <3> QED
      BY <1>1, <1>2, <3>1 DEF Joined
  <2>2. CASE RestStopEnds
    <3>1. UNCHANGED assigned
      BY <2>2 DEF RestStopEnds
    <3> QED
      BY <1>1, <1>2, <1>3, <3>1 DEF Joined
  <2> QED
    BY <2>1, <2>2
<1>6. StopWakesEveryone'
  <2>1. ASSUME NEW v \in Thread, pc[v] = "wait" PROVE FALSE
    <3>1. PICK u \in Thread : \E i \in 1..Len(Eles[u]) :
            /\ Eles[u][i] = Producer[Main(CurEle(v))]
            /\ Main(CurEle(v)) \in Range(output[Producer[Main(CurEle(v))]])
      BY <1>3, <2>1 DEF NoLostWakeup
    <3>2. PICK i \in 1..Len(Eles[u]) :
            /\ Eles[u][i] = Producer[Main(CurEle(v))]
            /\ Main(CurEle(v)) \in Range(output[Producer[Main(CurEle(v))]])
      BY <3>1
    <3>3. StopPassed(u, i)
      BY <1>1 DEF StopPassed
    <3> QED
      BY <1>1, <1>3, <2>1, <3>2, <3>3 DEF StopWakesEveryone
  <2> QED
    BY <1>1, <1>2, <2>1 DEF StopWakesEveryone
<1> QED
  BY <1>4, <1>5, <1>6

LEMMA StopActionKeeps ==
  ASSUME TypeOK, StopInvariant, StopStep \/ HeartbeatTimeout \/ RestStop \/ ObjErased
  PROVE  StopInvariant'
<1>1. CASE TaskStart
  BY <1>1, TaskStartKeeps
<1>2. CASE ~TaskStart
  <2>1. StopMoves
    BY <1>2, StopStepMoves
  <2>2. /\ RunningThreads' /\ FirstElement' /\ ElementsConnected' /\ InputsConnected'
        /\ WaitersHaveInput' /\ NoLostWakeup'
    BY <2>1, StopMovesKeeps
  <2>3. StopClearsRunning' /\ Joined' /\ StopWakesEveryone'
    <3>1. CASE HeartbeatTimeout
      BY <3>1 DEF HeartbeatTimeout, threadVars, dataVars, StopInvariant, StopClearsRunning,
                  Joined, StopWakesEveryone, StopPassed, CurEle, Main
    <3>8. CASE ObjErased
      BY <3>8 DEF ObjErased, threadVars, dataVars, StopInvariant, StopClearsRunning,
                  Joined, StopWakesEveryone, StopPassed, CurEle, Main
    <3>2. CASE KeepAliveFails
      <4>1. StopBy("mgr", FALSE) /\ inQue /\ UNCHANGED <<assigned, inQue, pc, output>>
        BY <3>2 DEF KeepAliveFails, threadVars, dataVars
      <4> QED
        BY <4>1, StopByKeeps
    <3>3. CASE RestStop
      <4>1. PICK del \in BOOLEAN : StopBy("rest", del)
        BY <3>3 DEF RestStop
      <4>2. inQue /\ UNCHANGED <<assigned, inQue, pc, output>>
        BY <3>3 DEF RestStop, threadVars, dataVars
      <4> QED
        BY <4>1, <4>2, StopByKeeps
    <3>4. CASE StopNotifyQueues
      BY <3>4, StopNotifyQueuesKeeps
    <3>5. CASE StopNotifyPlugin
      BY <3>5, StopNotifyPluginKeeps
    <3>6. CASE Join
      BY <3>6, JoinKeeps
    <3>7. CASE TaskStartFails \/ RestStopEnds
      BY <3>7, StopEndsKeeps
    <3> QED
      BY <1>2, <3>1, <3>2, <3>3, <3>4, <3>5, <3>6, <3>7, <3>8 DEF StopStep
  <2> QED
    BY <2>2, <2>3 DEF StopInvariant
<1> QED
  BY <1>1, <1>2

LEMMA InitStopInvariant == Init => StopInvariant
<1> SUFFICES ASSUME Init PROVE StopInvariant
  OBVIOUS
<1>1. /\ running = FALSE /\ inQue = TRUE /\ stop.by = "none" /\ stop.at = "idle"
      /\ \A t \in Thread : pc[t] = "none"
  BY DEF Init, Idle
<1>2. StopClearsRunning /\ Joined /\ RunningThreads /\ FirstElement
  BY <1>1 DEF StopClearsRunning, Joined, RunningThreads, FirstElement
<1>3. ElementsConnected /\ InputsConnected
  BY <1>1 DEF ElementsConnected, PastConnect, Serving, InputsConnected
<1>4. WaitersHaveInput /\ NoLostWakeup /\ StopWakesEveryone
  BY <1>1 DEF WaitersHaveInput, NoLostWakeup, StopWakesEveryone
<1> QED
  BY <1>2, <1>3, <1>4 DEF StopInvariant

\* The inductive invariant: whatever threads, elements and queues a pipeline has,
\* and whoever fails, gives up, stops or restarts in whatever order.
THEOREM StopInvariantHolds == Spec => []StopInvariant
<1>1. Init => StopInvariant
  BY InitStopInvariant
<1>2. TypeOK /\ StopInvariant /\ [Next]_vars => StopInvariant'
  <2> SUFFICES ASSUME TypeOK, StopInvariant, [Next]_vars PROVE StopInvariant'
    OBVIOUS
  <2>1. ASSUME NEW t \in Thread, ThreadAction(t) PROVE StopInvariant'
    BY <2>1, ThreadActionFlags, ThreadActionConnected, ThreadActionNoLostWakeup,
       ThreadActionStopWakes DEF StopInvariant
  <2>2. CASE StopStep \/ HeartbeatTimeout \/ RestStop \/ ObjErased
    BY <2>2, StopActionKeeps
  <2>3. CASE UNCHANGED vars
    <3>1. StopMoves
      BY <2>3 DEF StopMoves, vars
    <3>2. StopClearsRunning' /\ Joined' /\ StopWakesEveryone'
      BY <2>3 DEF vars, StopInvariant, StopClearsRunning, Joined, StopWakesEveryone, StopPassed,
                  CurEle, Main
    <3> QED
      BY <3>1, <3>2, StopMovesKeeps DEF StopInvariant
  <2> QED
    BY <2>1, <2>2, <2>3 DEF Next
<1> QED
  BY <1>1, <1>2, TypeCorrect, PTL DEF Spec

\* GetInput never misses its last wake-up: while a thread waits on input[0], the
\* producer of that queue is connected to it and still has its final notify_all
\* to do.
THEOREM WakeupsAreNotLost == Spec => []NoLostWakeup
<1>1. StopInvariant => NoLostWakeup
  BY DEF StopInvariant
<1> QED
  BY <1>1, StopInvariantHolds, PTL

\* Nobody waits on a queue that TaskParams::Stop has notified, and nobody at all
\* once DelFromTaskQue has erased the task.
THEOREM StopWakesAll == Spec => []StopWakesEveryone
<1>1. StopInvariant => StopWakesEveryone
  BY DEF StopInvariant
<1> QED
  BY <1>1, StopInvariantHolds, PTL

\* TaskParams::Start never starts a thread while one of an earlier start lives.
THEOREM RestartAfterJoin == Spec => JoinedBeforeRestart
<1>1. StopInvariant /\ [Next]_vars => [TaskStart => \A t \in Thread : pc[t] = "none"]_vars
  <2> SUFFICES ASSUME StopInvariant, TaskStart, NEW t \in Thread PROVE pc[t] = "none"
    OBVIOUS
  <2> QED
    BY DEF StopInvariant, Joined, TaskStart
<1> QED
  BY <1>1, StopInvariantHolds, PTL DEF Spec, JoinedBeforeRestart

-----------------------------------------------------------------------------
(* What a step of a thread does to its plugins, its queues and the start.  *)

\* An element is in one place: another place of a thread has another element.
LEMMA OtherElement ==
  ASSUME NEW t \in Thread, NEW i \in 1..Len(Eles[t]), NEW u \in Thread, NEW j \in 1..Len(Eles[u]),
         t # u \/ i # j
  PROVE  Eles[t][i] # Eles[u][j]
BY PlacementAssumption

\* A thread touches no plugin but that of the element it is at, and that one only
\* while it constructs, initialises, starts or stops it.
LEMMA ThreadActionPlugin ==
  ASSUME ThreadType, DataType, NEW t \in Thread, ThreadAction(t)
  PROVE  /\ \A e \in Element : e # CurEle(t) => plugin'[e] = plugin[e]
         /\ plugin' # plugin => pc[t] \in {"make", "init", "pstart", "pstop"}
<1> USE DEF DataType
<1>1. CASE Entry(t)
  BY <1>1 DEF Entry, Crash, threadVars, dataVars
<1>2. CASE MakeFramework(t)
  BY <1>2 DEF MakeFramework
<1>3. CASE InitElement(t)
  BY <1>3 DEF InitElement
<1>4. CASE InitFailed(t)
  BY <1>4 DEF InitFailed, GiveUp
<1>5. CASE ConnectElement(t)
  BY <1>5 DEF ConnectElement
<1>6. CASE SyncArrive(t)
  BY <1>6 DEF SyncArrive, dataVars
<1>7. CASE SyncPass(t)
  BY <1>7 DEF SyncPass, dataVars
<1>8. CASE PluginStart(t)
  BY <1>8 DEF PluginStart, Last
<1>9. CASE PluginStartFailed(t)
  BY <1>9 DEF PluginStartFailed, GiveUp
<1>10. CASE LoopCheck(t)
  BY <1>10 DEF LoopCheck, dataVars
<1>11. CASE GetNothing(t)
  BY <1>11 DEF GetNothing, ToProcess, dataVars
<1>12. CASE PopMain(t)
  BY <1>12 DEF PopMain
<1>13. CASE WaitMain(t)
  BY <1>13 DEF WaitMain, dataVars
<1>14. CASE StoppedAtMain(t)
  BY <1>14 DEF StoppedAtMain, dataVars
<1>15. CASE MatchInput(t)
  BY <1>15 DEF MatchInput, NextElement, Last
<1>16. CASE Matched(t)
  BY <1>16 DEF Matched, ToProcess, dataVars
<1>17. CASE ProcessPacket(t)
  BY <1>17 DEF ProcessPacket, dataVars
<1>18. CASE ProcessNothing(t)
  BY <1>18 DEF ProcessNothing, NextElement, Last, dataVars
<1>19. CASE PushOutput(t)
  BY <1>19 DEF PushOutput, Notified
<1>20. CASE Pushed(t)
  BY <1>20 DEF Pushed, NextElement, Last, dataVars
<1>21. CASE BeatAlive(t)
  BY <1>21 DEF BeatAlive, dataVars
<1>22. CASE CleanOutputs(t)
  BY <1>22 DEF CleanOutputs, Notified
<1>23. CASE StopElement(t)
  BY <1>23 DEF StopElement, Crash, Last, threadVars, dataVars
<1> QED
  BY <1>1, <1>2, <1>3, <1>4, <1>5, <1>6, <1>7, <1>8, <1>9, <1>10, <1>11, <1>12,
     <1>13, <1>14, <1>15, <1>16, <1>17, <1>18, <1>19, <1>20, <1>21, <1>22, <1>23
  DEF ThreadAction, ThreadStep

\* A thread has started a plugin only when it returns from PluginStart, and does not
\* touch it again before its loop has ended.
LEMMA ThreadActionStarted ==
  ASSUME TaskType, ThreadType, DataType, FirstElement, NEW t \in Thread, ThreadAction(t),
         NEW i \in 1..Len(Eles[t]), Started(t, i)'
  PROVE  \/ Started(t, i) /\ i # cur[t]
         \/ Started(t, i) /\ plugin' = plugin
         \/ i = cur[t] /\ plugin'[CurEle(t)] = "live"
<1>0. /\ Len(Eles[t]) \in Nat /\ cur[t] \in 1..Len(Eles[t])
      /\ pc[t] \in {"entry", "sync", "spin", "loop", "beat"} => cur[t] = 1
      /\ Single(t) => cur[t] = 1 /\ i = 1
      /\ CurEle(t) \in Element
  <2>1. Len(Eles[t]) \in Nat /\ cur[t] \in 1..Len(Eles[t])
    BY ElesType DEF ThreadType
  <2>2. pc[t] \in {"entry", "sync", "spin", "loop", "beat"} => cur[t] = 1
    BY DEF FirstElement
  <2>3. Single(t) => cur[t] = 1 /\ i = 1
    BY <2>1 DEF Single
  <2> QED
    BY <2>1, <2>2, <2>3, CurEleType
<1>a. running' => running
  BY ThreadActionTask
<1> USE <1>0, <1>a DEF Started, ThreadType, DataType, Serving, Barrier
<1>1. CASE Entry(t)
  BY <1>1 DEF Entry, Crash, threadVars, dataVars
<1>2. CASE MakeFramework(t)
  BY <1>2 DEF MakeFramework
<1>3. CASE InitElement(t)
  BY <1>3 DEF InitElement
<1>4. CASE InitFailed(t)
  BY <1>4 DEF InitFailed, GiveUp
<1>5. CASE ConnectElement(t)
  BY <1>5 DEF ConnectElement
<1>6. CASE SyncArrive(t)
  BY <1>6 DEF SyncArrive, dataVars
<1>7. CASE SyncPass(t)
  BY <1>7 DEF SyncPass, dataVars
<1>8. CASE PluginStart(t)
  BY <1>8 DEF PluginStart, Last
<1>9. CASE PluginStartFailed(t)
  BY <1>9 DEF PluginStartFailed, GiveUp
<1>10. CASE LoopCheck(t)
  BY <1>10 DEF LoopCheck, dataVars
<1>11. CASE GetNothing(t)
  BY <1>11 DEF GetNothing, ToProcess, dataVars
<1>12. CASE PopMain(t)
  BY <1>12 DEF PopMain
<1>13. CASE WaitMain(t)
  BY <1>13 DEF WaitMain, dataVars
<1>14. CASE StoppedAtMain(t)
  BY <1>14 DEF StoppedAtMain, dataVars
<1>15. CASE MatchInput(t)
  BY <1>15 DEF MatchInput, NextElement, Last
<1>16. CASE Matched(t)
  BY <1>16 DEF Matched, ToProcess, dataVars
<1>17. CASE ProcessPacket(t)
  BY <1>17 DEF ProcessPacket, dataVars
<1>18. CASE ProcessNothing(t)
  BY <1>18 DEF ProcessNothing, NextElement, Last, dataVars
<1>19. CASE PushOutput(t)
  BY <1>19 DEF PushOutput, Notified
<1>20. CASE Pushed(t)
  BY <1>20 DEF Pushed, NextElement, Last, dataVars
<1>21. CASE BeatAlive(t)
  BY <1>21 DEF BeatAlive, dataVars
<1>22. CASE CleanOutputs(t)
  BY <1>22 DEF CleanOutputs, Notified
<1>23. CASE StopElement(t)
  BY <1>23 DEF StopElement, Crash, Last, threadVars, dataVars
<1> QED
  BY <1>1, <1>2, <1>3, <1>4, <1>5, <1>6, <1>7, <1>8, <1>9, <1>10, <1>11, <1>12,
     <1>13, <1>14, <1>15, <1>16, <1>17, <1>18, <1>19, <1>20, <1>21, <1>22, <1>23
  DEF ThreadAction, ThreadStep

\* A thread has stopped a plugin only when StopElement is done with it.
LEMMA ThreadActionStopped ==
  ASSUME TaskType, ThreadType, DataType, FirstElement, NEW t \in Thread, ThreadAction(t),
         NEW i \in 1..Len(Eles[t])
  PROVE  /\ Stopped(t, i)' =>
              \/ Stopped(t, i) /\ i # cur[t]
              \/ i = cur[t] /\ plugin'[CurEle(t)] \notin {"live", "notified", "freed"}
         /\ Emptied(t, i)' => Emptied(t, i) \/ (pc[t] = "clean" /\ i = cur[t])
<1>0. /\ Len(Eles[t]) \in Nat /\ cur[t] \in 1..Len(Eles[t])
      /\ pc[t] \in {"entry", "sync", "spin", "loop", "beat"} => cur[t] = 1
      /\ Single(t) => cur[t] = 1
      /\ CurEle(t) \in Element
  <2>1. Len(Eles[t]) \in Nat /\ cur[t] \in 1..Len(Eles[t])
    BY ElesType DEF ThreadType
  <2>2. pc[t] \in {"entry", "sync", "spin", "loop", "beat"} => cur[t] = 1
    BY DEF FirstElement
  <2>3. Single(t) => cur[t] = 1
    BY <2>1 DEF Single
  <2> QED
    BY <2>1, <2>2, <2>3, CurEleType
<1> USE <1>0 DEF Stopped, Emptied, ThreadType, DataType
<1>1. CASE Entry(t)
  BY <1>1 DEF Entry, Crash, threadVars, dataVars
<1>2. CASE MakeFramework(t)
  BY <1>2 DEF MakeFramework
<1>3. CASE InitElement(t)
  BY <1>3 DEF InitElement
<1>4. CASE InitFailed(t)
  BY <1>4 DEF InitFailed, GiveUp
<1>5. CASE ConnectElement(t)
  BY <1>5 DEF ConnectElement
<1>6. CASE SyncArrive(t)
  BY <1>6 DEF SyncArrive, dataVars
<1>7. CASE SyncPass(t)
  BY <1>7 DEF SyncPass, dataVars
<1>8. CASE PluginStart(t)
  BY <1>8 DEF PluginStart, Last
<1>9. CASE PluginStartFailed(t)
  BY <1>9 DEF PluginStartFailed, GiveUp
<1>10. CASE LoopCheck(t)
  BY <1>10 DEF LoopCheck, dataVars
<1>11. CASE GetNothing(t)
  BY <1>11 DEF GetNothing, ToProcess, dataVars
<1>12. CASE PopMain(t)
  BY <1>12 DEF PopMain
<1>13. CASE WaitMain(t)
  BY <1>13 DEF WaitMain, dataVars
<1>14. CASE StoppedAtMain(t)
  BY <1>14 DEF StoppedAtMain, dataVars
<1>15. CASE MatchInput(t)
  BY <1>15 DEF MatchInput, NextElement, Last
<1>16. CASE Matched(t)
  BY <1>16 DEF Matched, ToProcess, dataVars
<1>17. CASE ProcessPacket(t)
  BY <1>17 DEF ProcessPacket, dataVars
<1>18. CASE ProcessNothing(t)
  BY <1>18 DEF ProcessNothing, NextElement, Last, dataVars
<1>19. CASE PushOutput(t)
  BY <1>19 DEF PushOutput, Notified
<1>20. CASE Pushed(t)
  BY <1>20 DEF Pushed, NextElement, Last, dataVars
<1>21. CASE BeatAlive(t)
  BY <1>21 DEF BeatAlive, dataVars
<1>22. CASE CleanOutputs(t)
  BY <1>22 DEF CleanOutputs, Notified
<1>23. CASE StopElement(t)
  BY <1>23 DEF StopElement, Crash, Last, threadVars, dataVars
<1> QED
  BY <1>1, <1>2, <1>3, <1>4, <1>5, <1>6, <1>7, <1>8, <1>9, <1>10, <1>11, <1>12,
     <1>13, <1>14, <1>15, <1>16, <1>17, <1>18, <1>19, <1>20, <1>21, <1>22, <1>23
  DEF ThreadAction, ThreadStep

\* Only PushOutput adds a packet to a queue, and CleanOutputs empties those of its
\* element.
LEMMA ThreadActionQueues ==
  ASSUME ThreadType, DataType, NEW t \in Thread, ThreadAction(t)
  PROVE  /\ \A q \in Queue : qlen'[q] # 0 =>
              \/ qlen[q] # 0
              \/ pc[t] = "push" /\ pos[t] <= outNum[t] /\ q = output[CurEle(t)][pos[t]]
         /\ pc[t] = "clean" => \A q \in Queue \cap Range(output[CurEle(t)]) : qlen'[q] = 0
<1>0. /\ CurEle(t) \in Element
      /\ \A j \in 1..Len(Inputs[CurEle(t)]) : Inputs[CurEle(t)][j] \in Queue
      /\ Inputs[CurEle(t)] # <<>> => Main(CurEle(t)) \in Queue
      /\ \A q \in Queue : qlen[q] \in Nat
  BY CurEleType, InputsType, QueueLenAssumption DEF DataType
<1> USE <1>0 DEF ThreadType, DataType
<1>1. CASE Entry(t)
  BY <1>1 DEF Entry, Crash, threadVars, dataVars
<1>2. CASE MakeFramework(t)
  BY <1>2 DEF MakeFramework
<1>3. CASE InitElement(t)
  BY <1>3 DEF InitElement
<1>4. CASE InitFailed(t)
  BY <1>4 DEF InitFailed, GiveUp
<1>5. CASE ConnectElement(t)
  BY <1>5 DEF ConnectElement
<1>6. CASE SyncArrive(t)
  BY <1>6 DEF SyncArrive, dataVars
<1>7. CASE SyncPass(t)
  BY <1>7 DEF SyncPass, dataVars
<1>8. CASE PluginStart(t)
  BY <1>8 DEF PluginStart, Last
<1>9. CASE PluginStartFailed(t)
  BY <1>9 DEF PluginStartFailed, GiveUp
<1>10. CASE LoopCheck(t)
  BY <1>10 DEF LoopCheck, dataVars
<1>11. CASE GetNothing(t)
  BY <1>11 DEF GetNothing, ToProcess, dataVars
<1>12. CASE PopMain(t)
  BY <1>12 DEF PopMain
<1>13. CASE WaitMain(t)
  BY <1>13 DEF WaitMain, dataVars
<1>14. CASE StoppedAtMain(t)
  BY <1>14 DEF StoppedAtMain, dataVars
<1>15. CASE MatchInput(t)
  BY <1>15 DEF MatchInput, NextElement, Last
<1>16. CASE Matched(t)
  BY <1>16 DEF Matched, ToProcess, dataVars
<1>17. CASE ProcessPacket(t)
  BY <1>17 DEF ProcessPacket, dataVars
<1>18. CASE ProcessNothing(t)
  BY <1>18 DEF ProcessNothing, NextElement, Last, dataVars
<1>19. CASE PushOutput(t)
  BY <1>19 DEF PushOutput, Notified
<1>20. CASE Pushed(t)
  BY <1>20 DEF Pushed, NextElement, Last, dataVars
<1>21. CASE BeatAlive(t)
  BY <1>21 DEF BeatAlive, dataVars
<1>22. CASE CleanOutputs(t)
  BY <1>22 DEF CleanOutputs, Notified
<1>23. CASE StopElement(t)
  BY <1>23 DEF StopElement, Crash, Last, threadVars, dataVars
<1> QED
  BY <1>1, <1>2, <1>3, <1>4, <1>5, <1>6, <1>7, <1>8, <1>9, <1>10, <1>11, <1>12,
     <1>13, <1>14, <1>15, <1>16, <1>17, <1>18, <1>19, <1>20, <1>21, <1>22, <1>23
  DEF ThreadAction, ThreadStep

\* A thread reads output_num when it has all its inputs, and an output list only
\* grows.
LEMMA ThreadActionOutNum ==
  ASSUME ThreadType, DataType, NEW t \in Thread, ThreadAction(t)
  PROVE  /\ \A u \in Thread : u # t => outNum'[u] = outNum[u]
         /\ pc'[t] \in {"process", "push"} =>
              /\ cur'[t] = cur[t] /\ output' = output
              /\ \/ outNum'[t] = Len(output[CurEle(t)])
                 \/ pc[t] \in {"process", "push"} /\ outNum'[t] = outNum[t]
         /\ \A e \in Element : Len(output'[e]) >= Len(output[e])
<1>0. /\ CurEle(t) \in Element
      /\ \A e \in Element : Len(output[e]) \in Nat
  BY CurEleType DEF DataType
<1> USE <1>0 DEF ThreadType, DataType
<1>1. CASE Entry(t)
  BY <1>1 DEF Entry, Crash, threadVars, dataVars
<1>2. CASE MakeFramework(t)
  BY <1>2 DEF MakeFramework
<1>3. CASE InitElement(t)
  BY <1>3 DEF InitElement
<1>4. CASE InitFailed(t)
  BY <1>4 DEF InitFailed, GiveUp
<1>5. CASE ConnectElement(t)
  <2>1. pc'[t] \notin {"process", "push"} /\ outNum' = outNum
    BY <1>5 DEF ConnectElement
  <2>2. ASSUME NEW q \in Queue, output' = [output EXCEPT ![Producer[q]] = Append(@, q)], NEW e \in Element
        PROVE  Len(output'[e]) >= Len(output[e])
    <3>1. CASE e = Producer[q]
      <4>1. output'[e] = Append(output[e], q) /\ output[e] \in Seq(Queue)
        BY <2>2, <3>1
      <4> QED
        BY <2>2, <4>1
    <3>2. CASE e # Producer[q]
      BY <1>0, <2>2, <3>2
    <3> QED
      BY <3>1, <3>2
  <2>3. ASSUME NEW e \in Element PROVE Len(output'[e]) >= Len(output[e])
    <3>1. CASE pos[t] <= Len(Inputs[CurEle(t)])
      <4>1. pos[t] \in 1..Len(Inputs[CurEle(t)])
        BY <3>1, <1>0, InputsType
      <4>2. output' = [output EXCEPT ![Producer[Inputs[CurEle(t)][pos[t]]]] =
                                       Append(@, Inputs[CurEle(t)][pos[t]])]
        BY <1>5, <3>1 DEF ConnectElement
      <4>3. Inputs[CurEle(t)][pos[t]] \in Queue
        BY <1>0, <4>1, InputsType
      <4> HIDE <1>0
      <4> QED
        BY <2>2, <4>2, <4>3
    <3>2. CASE ~(pos[t] <= Len(Inputs[CurEle(t)]))
      BY <1>0, <1>5, <3>2 DEF ConnectElement
    <3> QED
      BY <3>1, <3>2
  <2> QED
    BY <2>1, <2>3
<1>6. CASE SyncArrive(t)
  BY <1>6 DEF SyncArrive, dataVars
<1>7. CASE SyncPass(t)
  BY <1>7 DEF SyncPass, dataVars
<1>8. CASE PluginStart(t)
  BY <1>8 DEF PluginStart, Last
<1>9. CASE PluginStartFailed(t)
  BY <1>9 DEF PluginStartFailed, GiveUp
<1>10. CASE LoopCheck(t)
  BY <1>10 DEF LoopCheck, dataVars
<1>11. CASE GetNothing(t)
  BY <1>11 DEF GetNothing, ToProcess, dataVars
<1>12. CASE PopMain(t)
  BY <1>12 DEF PopMain
<1>13. CASE WaitMain(t)
  BY <1>13 DEF WaitMain, dataVars
<1>14. CASE StoppedAtMain(t)
  BY <1>14 DEF StoppedAtMain, dataVars
<1>15. CASE MatchInput(t)
  BY <1>15 DEF MatchInput, NextElement, Last
<1>16. CASE Matched(t)
  BY <1>16 DEF Matched, ToProcess, dataVars
<1>17. CASE ProcessPacket(t)
  BY <1>17 DEF ProcessPacket, dataVars
<1>18. CASE ProcessNothing(t)
  BY <1>18 DEF ProcessNothing, NextElement, Last, dataVars
<1>19. CASE PushOutput(t)
  BY <1>19 DEF PushOutput, Notified
<1>20. CASE Pushed(t)
  BY <1>20 DEF Pushed, NextElement, Last, dataVars
<1>21. CASE BeatAlive(t)
  BY <1>21 DEF BeatAlive, dataVars
<1>22. CASE CleanOutputs(t)
  BY <1>22 DEF CleanOutputs, Notified
<1>23. CASE StopElement(t)
  BY <1>23 DEF StopElement, Crash, Last, threadVars, dataVars
<1> QED
  BY <1>1, <1>2, <1>3, <1>4, <1>5, <1>6, <1>7, <1>8, <1>9, <1>10, <1>11, <1>12,
     <1>13, <1>14, <1>15, <1>16, <1>17, <1>18, <1>19, <1>20, <1>21, <1>22, <1>23
  DEF ThreadAction, ThreadStep

\* What brings a thread to the end of the barrier, and past it.
LEMMA ThreadActionArrived ==
  ASSUME TaskType, ThreadType, FirstElement, NEW t \in Thread, ThreadAction(t)
  PROVE  /\ running' /\ Arrived(t) => Arrived(t)'
         /\ \/ threadSync' = threadSync
            \/ threadSync' = threadSync + 1 /\ ~Arrived(t) /\ Arrived(t)'
         /\ Passed(t)' => Passed(t) \/ (pc[t] = "spin" /\ threadSync >= NThreads)
<1>0. /\ Len(Eles[t]) \in Nat /\ cur[t] \in 1..Len(Eles[t])
      /\ pc[t] \in {"entry", "sync", "spin", "loop", "beat"} => cur[t] = 1
      /\ Single(t) => cur[t] = 1
      /\ CurEle(t) \in Element
  <2>1. Len(Eles[t]) \in Nat /\ cur[t] \in 1..Len(Eles[t])
    BY ElesType DEF ThreadType
  <2>2. pc[t] \in {"entry", "sync", "spin", "loop", "beat"} => cur[t] = 1
    BY DEF FirstElement
  <2>3. Single(t) => cur[t] = 1
    BY <2>1 DEF Single
  <2> QED
    BY <2>1, <2>2, <2>3, CurEleType
<1> USE <1>0 DEF Arrived, Passed, ThreadType, TaskType, taskVars, Serving
<1>1. CASE Entry(t)
  BY <1>1 DEF Entry, Crash, threadVars, dataVars
<1>2. CASE MakeFramework(t)
  BY <1>2 DEF MakeFramework
<1>3. CASE InitElement(t)
  BY <1>3 DEF InitElement
<1>4. CASE InitFailed(t)
  BY <1>4 DEF InitFailed, GiveUp
<1>5. CASE ConnectElement(t)
  BY <1>5 DEF ConnectElement
<1>6. CASE SyncArrive(t)
  BY <1>6 DEF SyncArrive, dataVars
<1>7. CASE SyncPass(t)
  BY <1>7 DEF SyncPass, dataVars
<1>8. CASE PluginStart(t)
  <2>1. pc[t] = "pstart" /\ threadSync' = threadSync
    BY <1>8 DEF PluginStart, taskVars
  <2>2. CASE Last(t)
    <3>1. pc'[t] = IF Single(t) THEN "loop" ELSE "sync"
      BY <1>8, <2>2 DEF PluginStart
    <3> QED
      BY <2>1, <3>1
  <2>3. CASE ~Last(t)
    <3>1. pc'[t] = "make"
      BY <1>8, <2>3 DEF PluginStart
    <3>2. ~Single(t)
      BY <1>0, <2>3 DEF Single, Last
    <3> QED
      BY <2>1, <3>1, <3>2
  <2> QED
    BY <2>2, <2>3
<1>9. CASE PluginStartFailed(t)
  BY <1>9 DEF PluginStartFailed, GiveUp
<1>10. CASE LoopCheck(t)
  BY <1>10 DEF LoopCheck, dataVars
<1>11. CASE GetNothing(t)
  BY <1>11 DEF GetNothing, ToProcess, dataVars
<1>12. CASE PopMain(t)
  BY <1>12 DEF PopMain
<1>13. CASE WaitMain(t)
  BY <1>13 DEF WaitMain, dataVars
<1>14. CASE StoppedAtMain(t)
  BY <1>14 DEF StoppedAtMain, dataVars
<1>15. CASE MatchInput(t)
  BY <1>15 DEF MatchInput, NextElement, Last
<1>16. CASE Matched(t)
  BY <1>16 DEF Matched, ToProcess, dataVars
<1>17. CASE ProcessPacket(t)
  BY <1>17 DEF ProcessPacket, dataVars
<1>18. CASE ProcessNothing(t)
  BY <1>18 DEF ProcessNothing, NextElement, Last, dataVars
<1>19. CASE PushOutput(t)
  BY <1>19 DEF PushOutput, Notified
<1>20. CASE Pushed(t)
  BY <1>20 DEF Pushed, NextElement, Last, dataVars
<1>21. CASE BeatAlive(t)
  BY <1>21 DEF BeatAlive, dataVars
<1>22. CASE CleanOutputs(t)
  BY <1>22 DEF CleanOutputs, Notified
<1>23. CASE StopElement(t)
  BY <1>23 DEF StopElement, Crash, Last, threadVars, dataVars
<1> QED
  BY <1>1, <1>2, <1>3, <1>4, <1>5, <1>6, <1>7, <1>8, <1>9, <1>10, <1>11, <1>12,
     <1>13, <1>14, <1>15, <1>16, <1>17, <1>18, <1>19, <1>20, <1>21, <1>22, <1>23
  DEF ThreadAction, ThreadStep

\* Only the assertion on the expired object ends the process with "object", and
\* no thread comes back to its entry.
LEMMA ThreadActionEntry ==
  ASSUME TaskType, ThreadType, NEW t \in Thread, ThreadAction(t)
  PROVE  /\ crashed' = "object" => crashed = "object" \/ (pc[t] = "entry" /\ ObjExpired)
         /\ pc'[t] = "entry" => pc[t] = "entry"
         /\ beat' = beat \/ (beat' = "fresh" /\ pc[t] = "beat")
<1> USE DEF ThreadType, taskVars
<1>1. CASE Entry(t)
  BY <1>1 DEF Entry, Crash, threadVars, dataVars
<1>2. CASE MakeFramework(t)
  BY <1>2 DEF MakeFramework
<1>3. CASE InitElement(t)
  BY <1>3 DEF InitElement
<1>4. CASE InitFailed(t)
  BY <1>4 DEF InitFailed, GiveUp
<1>5. CASE ConnectElement(t)
  BY <1>5 DEF ConnectElement
<1>6. CASE SyncArrive(t)
  BY <1>6 DEF SyncArrive, dataVars
<1>7. CASE SyncPass(t)
  BY <1>7 DEF SyncPass, dataVars
<1>8. CASE PluginStart(t)
  BY <1>8 DEF PluginStart, Last
<1>9. CASE PluginStartFailed(t)
  BY <1>9 DEF PluginStartFailed, GiveUp
<1>10. CASE LoopCheck(t)
  BY <1>10 DEF LoopCheck, dataVars
<1>11. CASE GetNothing(t)
  BY <1>11 DEF GetNothing, ToProcess, dataVars
<1>12. CASE PopMain(t)
  BY <1>12 DEF PopMain
<1>13. CASE WaitMain(t)
  BY <1>13 DEF WaitMain, dataVars
<1>14. CASE StoppedAtMain(t)
  BY <1>14 DEF StoppedAtMain, dataVars
<1>15. CASE MatchInput(t)
  BY <1>15 DEF MatchInput, NextElement, Last
<1>16. CASE Matched(t)
  BY <1>16 DEF Matched, ToProcess, dataVars
<1>17. CASE ProcessPacket(t)
  BY <1>17 DEF ProcessPacket, dataVars
<1>18. CASE ProcessNothing(t)
  BY <1>18 DEF ProcessNothing, NextElement, Last, dataVars
<1>19. CASE PushOutput(t)
  BY <1>19 DEF PushOutput, Notified
<1>20. CASE Pushed(t)
  BY <1>20 DEF Pushed, NextElement, Last, dataVars
<1>21. CASE BeatAlive(t)
  BY <1>21 DEF BeatAlive, dataVars
<1>22. CASE CleanOutputs(t)
  BY <1>22 DEF CleanOutputs, Notified
<1>23. CASE StopElement(t)
  BY <1>23 DEF StopElement, Crash, Last, threadVars, dataVars
<1> QED
  BY <1>1, <1>2, <1>3, <1>4, <1>5, <1>6, <1>7, <1>8, <1>9, <1>10, <1>11, <1>12,
     <1>13, <1>14, <1>15, <1>16, <1>17, <1>18, <1>19, <1>20, <1>21, <1>22, <1>23
  DEF ThreadAction, ThreadStep

-----------------------------------------------------------------------------
(* The plugins, the queues and the start, under a step of a thread.        *)

\* What another thread has done stays done.
LEMMA ThreadActionElsewhere ==
  ASSUME TypeOK, NEW t \in Thread, ThreadAction(t), NEW u \in Thread, u # t
  PROVE  /\ cur'[u] = cur[u] /\ outNum'[u] = outNum[u]
         /\ pc'[u] = pc[u] \/ (pc[u] = "wait" /\ pc'[u] = "woken")
         /\ \A i \in 1..Len(Eles[u]) :
              /\ plugin'[Eles[u][i]] = plugin[Eles[u][i]]
              /\ Started(u, i)' => Started(u, i)
              /\ Stopped(u, i)' => Stopped(u, i)
              /\ Emptied(u, i)' => Emptied(u, i)
         /\ Arrived(u)' <=> Arrived(u)
         /\ Passed(u)' <=> Passed(u)
<1>1. TaskType /\ ThreadType /\ DataType
  BY DEF TypeOK
<1>2. /\ cur'[u] = cur[u] /\ outNum'[u] = outNum[u]
      /\ pc'[u] = pc[u] \/ (pc[u] = "wait" /\ pc'[u] = "woken")
  BY <1>1, ThreadActionOthers, ThreadActionOutNum
<1>3. running' => running
  BY <1>1, ThreadActionTask
<1>4. ASSUME NEW i \in 1..Len(Eles[u]) PROVE plugin'[Eles[u][i]] = plugin[Eles[u][i]]
  <2>1. cur[t] \in 1..Len(Eles[t])
    BY <1>1 DEF ThreadType
  <2>2. Eles[u][i] # CurEle(t) /\ Eles[u][i] \in Element
    BY <2>1, OtherElement, ElesType DEF CurEle
  <2> QED
    BY <1>1, <2>2, ThreadActionPlugin
<1>5. ASSUME NEW i \in 1..Len(Eles[u])
      PROVE  /\ Started(u, i)' => Started(u, i)
             /\ Stopped(u, i)' => Stopped(u, i)
             /\ Emptied(u, i)' => Emptied(u, i)
  BY <1>2, <1>3 DEF Started, Stopped, Emptied, Barrier, Serving
<1>6. (Arrived(u)' <=> Arrived(u)) /\ (Passed(u)' <=> Passed(u))
  BY <1>2 DEF Arrived, Passed, Serving
<1> QED
  BY <1>2, <1>4, <1>5, <1>6

LEMMA ThreadActionPlugins ==
  ASSUME TypeOK, StopInvariant, PluginsStarted, PluginsStopped, NEW t \in Thread, ThreadAction(t)
  PROVE  PluginsStarted' /\ PluginsStopped'
<1>1. TaskType /\ ThreadType /\ DataType /\ FirstElement
  BY DEF TypeOK, StopInvariant
<1>2. ASSUME NEW i \in 1..Len(Eles[t]), i # cur[t] PROVE plugin'[Eles[t][i]] = plugin[Eles[t][i]]
  <2>1. cur[t] \in 1..Len(Eles[t])
    BY <1>1 DEF ThreadType
  <2>2. Eles[t][i] # CurEle(t) /\ Eles[t][i] \in Element
    BY <1>2, <2>1, OtherElement, ElesType DEF CurEle
  <2> QED
    BY <1>1, <2>2, ThreadActionPlugin
<1>3. PluginsStarted'
  <2> SUFFICES ASSUME NEW u \in Thread, NEW i \in 1..Len(Eles[u]), Started(u, i)'
               PROVE  plugin'[Eles[u][i]] \in {"live", "notified"}
    BY DEF PluginsStarted
  <2>1. CASE u # t
    BY <2>1, ThreadActionElsewhere DEF PluginsStarted
  <2>2. CASE u = t
    <3>1. CASE Started(t, i) /\ i # cur[t]
      BY <1>2, <2>2, <3>1 DEF PluginsStarted
    <3>2. CASE Started(t, i) /\ plugin' = plugin
      BY <2>2, <3>2 DEF PluginsStarted
    <3>3. CASE i = cur[t] /\ plugin'[CurEle(t)] = "live"
      BY <2>2, <3>3 DEF CurEle
    <3> QED
      BY <1>1, <2>2, <3>1, <3>2, <3>3, ThreadActionStarted
  <2> QED
    BY <2>1, <2>2
<1>4. PluginsStopped'
  <2> SUFFICES ASSUME NEW u \in Thread, NEW i \in 1..Len(Eles[u]), Stopped(u, i)'
               PROVE  plugin'[Eles[u][i]] \notin {"live", "notified", "freed"}
    BY DEF PluginsStopped
  <2>1. CASE u # t
    BY <2>1, ThreadActionElsewhere DEF PluginsStopped
  <2>2. CASE u = t
    <3>1. CASE Stopped(t, i) /\ i # cur[t]
      BY <1>2, <2>2, <3>1 DEF PluginsStopped
    <3>2. CASE i = cur[t] /\ plugin'[CurEle(t)] \notin {"live", "notified", "freed"}
      BY <2>2, <3>2 DEF CurEle
    <3> QED
      BY <1>1, <2>2, <3>1, <3>2, ThreadActionStopped
  <2> QED
    BY <2>1, <2>2
<1> QED
  BY <1>3, <1>4

LEMMA ThreadActionQueuesKept ==
  ASSUME TypeOK, StopInvariant, QueuesEmptied, OutputsOfProducer, NEW t \in Thread, ThreadAction(t)
  PROVE  QueuesEmptied' /\ OutputsOfProducer'
<1>1. TaskType /\ ThreadType /\ DataType /\ DataType' /\ FirstElement
  BY ThreadActionData DEF TypeOK, StopInvariant
<1>2. CurEle(t) \in Element /\ cur[t] \in 1..Len(Eles[t])
  BY <1>1, CurEleType DEF ThreadType
<1>3. ASSUME NEW e \in Element
      PROVE  /\ Range(output[e]) \subseteq Queue /\ Range(output'[e]) \subseteq Queue
             /\ Range(output[e]) \subseteq Range(output'[e])
  <2>1. output[e] \in Seq(Queue) /\ output'[e] \in Seq(Queue)
    BY <1>1 DEF DataType
  <2>2. Range(output[e]) \subseteq Queue /\ Range(output'[e]) \subseteq Queue
    BY <2>1 DEF Range
  <2>3. Range(output[e]) \subseteq Range(output'[e])
    BY <1>1, ThreadActionOutput
  <2> QED
    BY <2>2, <2>3
<1>4. ASSUME NEW e \in Element, NEW q \in Range(output'[e]) PROVE Producer[q] = e
  <2>1. CASE q \in Range(output[e])
    BY <2>1 DEF OutputsOfProducer
  <2>2. CASE q \notin Range(output[e])
    <3>1. ~UNCHANGED output
      BY <2>2
    <3>2. Range(output'[e]) = IF e = Producer[Inputs[CurEle(t)][pos[t]]]
                                THEN Range(output[e]) \cup {Inputs[CurEle(t)][pos[t]]}
                                ELSE Range(output[e])
      BY <1>1, <3>1, ThreadActionOutput
    <3> QED
      BY <2>2, <3>2
  <2> QED
    BY <2>1, <2>2
<1>5. ASSUME pc[t] = "push", pos[t] <= outNum[t]
      PROVE  /\ output[CurEle(t)][pos[t]] \in Range(output[CurEle(t)])
             /\ Producer[output[CurEle(t)][pos[t]]] = CurEle(t)
  <2>1. output[CurEle(t)] \in Seq(Queue) /\ outNum[t] \in Nat /\ pos[t] \in Nat \ {0}
    BY <1>1, <1>2 DEF DataType, ThreadType
  <2>2. outNum[t] <= Len(output[CurEle(t)])
    BY <1>5 DEF OutputsOfProducer
  <2>3. pos[t] \in DOMAIN output[CurEle(t)]
    BY <1>5, <2>1, <2>2
  <2>4. output[CurEle(t)][pos[t]] \in Range(output[CurEle(t)])
    BY <2>3 DEF Range
  <2> QED
    BY <1>2, <2>4 DEF OutputsOfProducer
<1>6. ASSUME NEW q \in Queue, qlen'[q] # 0
      PROVE  /\ qlen[q] # 0 \/ (pc[t] = "push" /\ Producer[q] = CurEle(t))
             /\ q \in Range(output[Producer[q]])
  <2>1. CASE qlen[q] # 0
    BY <2>1 DEF OutputsOfProducer
  <2>2. CASE pc[t] = "push" /\ pos[t] <= outNum[t] /\ q = output[CurEle(t)][pos[t]]
    BY <1>5, <2>2
  <2> QED
    BY <1>1, <1>6, <2>1, <2>2, ThreadActionQueues
<1>7. ASSUME NEW q \in Queue, qlen'[q] # 0 PROVE q \in Range(output'[Producer[q]])
  BY <1>3, <1>6, <1>7, PipelineAssumption
<1>8. ASSUME NEW u \in Thread, pc'[u] \in {"process", "push"}
      PROVE  outNum'[u] <= Len(output'[CurEle(u)'])
  <2>1. CASE u # t
    <3>1. outNum'[u] = outNum[u] /\ pc[u] \in {"process", "push"} /\ CurEle(u)' = CurEle(u)
      BY <1>8, <2>1, ThreadActionElsewhere DEF CurEle
    <3>2. CurEle(u) \in Element
      BY <1>1, CurEleType
    <3>3. outNum[u] <= Len(output[CurEle(u)])
      BY <3>1 DEF OutputsOfProducer
    <3>4. Len(output'[CurEle(u)]) >= Len(output[CurEle(u)])
      BY <1>1, <3>2, ThreadActionOutNum
    <3>5. /\ Len(output'[CurEle(u)]) \in Nat /\ Len(output[CurEle(u)]) \in Nat
          /\ outNum[u] \in Nat
      BY <1>1, <3>2 DEF DataType, ThreadType
    <3> QED
      BY <3>1, <3>3, <3>4, <3>5
  <2>2. CASE u = t
    <3>1. /\ CurEle(t)' = CurEle(t) /\ output' = output
          /\ \/ outNum'[t] = Len(output[CurEle(t)])
             \/ pc[t] \in {"process", "push"} /\ outNum'[t] = outNum[t]
      BY <1>1, <1>8, <2>2, ThreadActionOutNum DEF CurEle
    <3>2. Len(output[CurEle(t)]) \in Nat
      BY <1>1, <1>2 DEF DataType
    <3> QED
      BY <2>2, <3>1, <3>2 DEF OutputsOfProducer
  <2> QED
    BY <2>1, <2>2
<1>9. OutputsOfProducer'
  BY <1>4, <1>7, <1>8 DEF OutputsOfProducer
<1>10. QueuesEmptied'
  <2> SUFFICES ASSUME NEW u \in Thread, NEW i \in 1..Len(Eles[u]), Emptied(u, i)',
                      NEW q \in Range(output'[Eles[u][i]]), qlen'[q] # 0
               PROVE  FALSE
    BY DEF QueuesEmptied
  <2>1. Eles[u][i] \in Element
    BY ElesType
  <2>2. q \in Queue /\ Producer[q] = Eles[u][i]
    BY <1>3, <1>4, <2>1
  <2>3. q \in Range(output[Eles[u][i]])
    BY <1>6, <2>2
  <2>4. CASE Emptied(u, i)
    <3>1. qlen[q] = 0
      BY <2>3, <2>4 DEF QueuesEmptied
    <3>2. pc[t] = "push" /\ Eles[u][i] = CurEle(t)
      BY <1>6, <2>2, <3>1
    <3>3. u = t /\ i = cur[t]
      BY <1>2, <3>2, OtherElement DEF CurEle
    <3> QED
      BY <2>4, <3>2, <3>3 DEF Emptied, Stopped
  <2>5. CASE ~Emptied(u, i)
    <3>1. u = t
      BY <2>5, ThreadActionElsewhere
    <3>2. pc[t] = "clean" /\ i = cur[t]
      BY <1>1, <2>5, <3>1, ThreadActionStopped
    <3>3. q \in Range(output[CurEle(t)])
      BY <2>3, <3>1, <3>2 DEF CurEle
    <3> QED
      BY <1>1, <2>2, <3>2, <3>3, ThreadActionQueues
  <2> QED
    BY <2>4, <2>5
<1> QED
  BY <1>9, <1>10

LEMMA ThreadActionEntries ==
  ASSUME TypeOK, StopInvariant, EntriesInObject, crashed = "no", NEW t \in Thread, ThreadAction(t)
  PROVE  EntriesInObject' /\ ExpiredOnlyPassedOver'
<1>1. TaskType /\ ThreadType /\ DataType
  BY DEF TypeOK
<1>2. UNCHANGED <<inQue, erased, stop>>
  BY <1>1, ThreadActionTask
<1>3. ASSUME NEW u \in Thread, pc'[u] = "entry"
      PROVE  pc[u] = "entry" /\ \A i \in 1..Len(Eles[u]) : plugin'[Eles[u][i]] = plugin[Eles[u][i]]
  <2>1. CASE u # t
    BY <1>3, <2>1, ThreadActionElsewhere
  <2>2. CASE u = t
    BY <1>1, <1>3, <2>2, ThreadActionEntry, ThreadActionPlugin
  <2> QED
    BY <2>1, <2>2
<1>4. EntriesInObject'
  BY <1>2, <1>3 DEF EntriesInObject, StopBefore
<1>5. pc[t] = "entry" /\ ObjExpired => inQue /\ stop.by = "none"
  BY DEF EntriesInObject, ObjExpired
<1>6. ExpiredOnlyPassedOver'
  BY <1>1, <1>2, <1>5, ThreadActionEntry DEF ExpiredOnlyPassedOver
<1> QED
  BY <1>4, <1>6

\* A set of threads is finite, and one that has as many members as there are
\* threads has them all.
LEMMA ThreadCount ==
  ASSUME NEW S \in SUBSET Thread
  PROVE  /\ IsFiniteSet(S) /\ Cardinality(S) \in Nat
         /\ Cardinality(S) >= NThreads => S = Thread
<1>1. IsFiniteSet(Thread) /\ Cardinality(Thread) = NThreads
  <2>1. 1 \in Int /\ NThreads \in Int /\ NThreads >= 1
    BY NThreadsAssumption
  <2>2. IsFiniteSet(1..NThreads) /\ Cardinality(1..NThreads) = NThreads - 1 + 1
    BY <2>1, FS_Interval
  <2> QED
    BY <2>1, <2>2 DEF Thread
<1>2. /\ IsFiniteSet(S) /\ Cardinality(S) <= Cardinality(Thread)
      /\ Cardinality(Thread) = Cardinality(S) => Thread = S
  BY <1>1, FS_Subset
<1>3. Cardinality(S) \in Nat
  BY <1>2, FS_CardinalityType
<1> QED
  BY <1>1, <1>2, <1>3, NThreadsAssumption

\* A larger set of threads has more members, the more so when it has a new one.
LEMMA ThreadCountGrows ==
  ASSUME NEW S \in SUBSET Thread, NEW T \in SUBSET Thread, S \subseteq T
  PROVE  /\ Cardinality(S) <= Cardinality(T)
         /\ \A t \in T : t \notin S => Cardinality(S) + 1 <= Cardinality(T)
<1>1. IsFiniteSet(S) /\ IsFiniteSet(T)
  BY ThreadCount
<1>2. Cardinality(S) <= Cardinality(T)
  BY <1>1, FS_Subset
<1>3. ASSUME NEW t \in T, t \notin S PROVE Cardinality(S) + 1 <= Cardinality(T)
  <2>1. Cardinality(S \cup {t}) = Cardinality(S) + 1
    BY <1>1, <1>3, FS_AddElement
  <2>2. S \cup {t} \in SUBSET T
    OBVIOUS
  <2>3. Cardinality(S \cup {t}) <= Cardinality(T)
    BY <1>1, <2>2, FS_Subset
  <2> QED
    BY <2>1, <2>3
<1> QED
  BY <1>2, <1>3

LEMMA PassedArrived ==
  ASSUME NEW t \in Thread, Passed(t)
  PROVE  Arrived(t)
BY DEF Passed, Arrived

LEMMA ThreadActionFirstStart ==
  ASSUME TypeOK, StopInvariant, FirstStart, NEW t \in Thread, ThreadAction(t)
  PROVE  FirstStart'
<1>1. TaskType /\ ThreadType /\ FirstElement /\ Joined
  BY DEF TypeOK, StopInvariant
<1>2. /\ UNCHANGED <<assigned, stop, restarts>> /\ (running' => running)
      /\ threadSync \in Nat
  BY <1>1, ThreadActionTask DEF TaskType
<1>3. assigned
  BY <1>1, ThreadActionOwn DEF Joined
<1>4. beat' = beat \/ beat' = "fresh"
  BY <1>1, ThreadActionEntry
<1> SUFFICES ASSUME restarts = 0, running'
             PROVE  /\ threadSync' <= Cardinality({u \in Thread : Arrived(u)'})
                    /\ (\E u \in Thread : Passed(u)') => \A u \in Thread : Arrived(u)'
  BY <1>2, <1>3, <1>4 DEF FirstStart
<1> DEFINE A == {u \in Thread : Arrived(u)}
           B == {u \in Thread : Arrived(u)'}
<1>5. /\ threadSync <= Cardinality(A)
      /\ (\E u \in Thread : Passed(u)) => \A u \in Thread : Arrived(u)
  BY <1>2 DEF FirstStart
<1>6. ASSUME NEW u \in Thread, Arrived(u) PROVE Arrived(u)'
  <2>1. CASE u # t
    BY <1>6, <2>1, ThreadActionElsewhere
  <2>2. CASE u = t
    BY <1>1, <1>6, <2>2, ThreadActionArrived
  <2> QED
    BY <2>1, <2>2
<1>7. A \in SUBSET Thread /\ B \in SUBSET Thread /\ A \subseteq B
  BY <1>6
<1>8. Cardinality(A) \in Nat /\ Cardinality(B) \in Nat
  BY <1>7, ThreadCount
<1>9. threadSync' <= Cardinality(B)
  <2>1. CASE threadSync' = threadSync
    <3>1. Cardinality(A) <= Cardinality(B)
      BY <1>7, ThreadCountGrows
    <3> HIDE DEF A, B
    <3> QED
      BY <1>2, <1>5, <1>8, <2>1, <3>1
  <2>2. CASE threadSync' = threadSync + 1 /\ ~Arrived(t) /\ Arrived(t)'
    <3>1. t \in B /\ t \notin A
      BY <2>2
    <3>2. Cardinality(A) + 1 <= Cardinality(B)
      BY <1>7, <3>1, ThreadCountGrows
    <3> HIDE DEF A, B
    <3> QED
      BY <1>2, <1>5, <1>8, <2>2, <3>2
  <2> QED
    BY <1>1, <2>1, <2>2, ThreadActionArrived
<1>10. ASSUME NEW v \in Thread, Passed(v)', NEW u \in Thread PROVE Arrived(u)'
  <2>1. CASE Passed(v)
    BY <1>5, <1>6, <2>1
  <2>2. CASE ~Passed(v)
    <3>1. v = t
      BY <1>10, <2>2, ThreadActionElsewhere
    <3>2. threadSync >= NThreads
      BY <1>1, <1>10, <2>2, <3>1, ThreadActionArrived
    <3>3. Cardinality(A) >= NThreads
      <4> HIDE DEF A
      <4> QED
        BY <1>2, <1>5, <1>8, <3>2, NThreadsAssumption
    <3>4. A = Thread
      BY <1>7, <3>3, ThreadCount
    <3> QED
      BY <1>6, <3>4
  <2> QED
    BY <2>1, <2>2
<1> QED
  BY <1>9, <1>10

-----------------------------------------------------------------------------
(* The same under the steps of the stop.                                   *)

\* A stop moves a plugin only from live to notified.
LEMMA StopStepPlugins ==
  ASSUME TypeOK, (StopStep /\ ~TaskStart) \/ HeartbeatTimeout \/ RestStop \/ ObjErased
  PROVE  /\ \A e \in Element : \/ plugin'[e] = plugin[e]
                               \/ plugin[e] = "live" /\ plugin'[e] = "notified"
         /\ UNCHANGED <<threadSync, outNum, qlen>>
         /\ crashed' = "object" => crashed = "object"
<1>1. CASE HeartbeatTimeout \/ ObjErased
  BY <1>1 DEF HeartbeatTimeout, ObjErased, threadVars, dataVars
<1>2. CASE KeepAliveFails
  BY <1>2 DEF KeepAliveFails, threadVars, dataVars
<1>3. CASE RestStop
  BY <1>3 DEF RestStop, threadVars, dataVars
<1>4. CASE StopNotifyQueues
  BY <1>4 DEF StopNotifyQueues, taskVars, dataVars
<1>5. CASE StopNotifyPlugin
  <2>1. UNCHANGED <<threadSync, outNum, qlen>> /\ (crashed' = "object" => crashed = "object")
    BY <1>5 DEF StopNotifyPlugin, Crash, taskVars, threadVars, dataVars
  <2>2. \/ UNCHANGED plugin
        \/ plugin' = [plugin EXCEPT ![StopEle] =
                         IF StopEle \in Notifies /\ @ = "live" THEN "notified" ELSE @]
    BY <1>5 DEF StopNotifyPlugin, Crash, dataVars
  <2>3. plugin \in [Element -> PluginState]
    BY DEF TypeOK, DataType
  <2> QED
    BY <2>1, <2>2, <2>3
<1>6. CASE Join
  BY <1>6 DEF Join, taskVars, dataVars
<1>7. CASE TaskStartFails
  BY <1>7 DEF TaskStartFails, threadVars, dataVars
<1>8. CASE RestStopEnds
  BY <1>8 DEF RestStopEnds, threadVars, dataVars
<1> QED
  BY <1>1, <1>2, <1>3, <1>4, <1>5, <1>6, <1>7, <1>8 DEF StopStep

LEMMA StopStepKeepsPlugins ==
  ASSUME TypeOK, PluginsStarted, PluginsStopped, QueuesEmptied, OutputsOfProducer,
         (StopStep /\ ~TaskStart) \/ HeartbeatTimeout \/ RestStop \/ ObjErased
  PROVE  PluginsStarted' /\ PluginsStopped' /\ QueuesEmptied' /\ OutputsOfProducer'
<1>1. /\ UNCHANGED <<cur, output>> /\ (running' => running)
      /\ \A u \in Thread : \/ pc'[u] = pc[u]
                           \/ pc[u] = "wait" /\ pc'[u] = "woken"
                           \/ pc[u] = "done" /\ pc'[u] = "none"
  BY StopStepMoves DEF StopMoves
<1>2. /\ \A e \in Element : \/ plugin'[e] = plugin[e]
                            \/ plugin[e] = "live" /\ plugin'[e] = "notified"
      /\ UNCHANGED <<outNum, qlen>>
  BY StopStepPlugins
<1>3. ASSUME NEW u \in Thread, NEW i \in 1..Len(Eles[u])
      PROVE  /\ Started(u, i)' => Started(u, i)
             /\ Stopped(u, i)' => Stopped(u, i)
             /\ Emptied(u, i)' => Emptied(u, i)
             /\ Eles[u][i] \in Element
  BY <1>1, ElesType DEF Started, Stopped, Emptied, Barrier, Serving
<1>4. PluginsStarted'
  BY <1>2, <1>3 DEF PluginsStarted
<1>5. PluginsStopped'
  BY <1>2, <1>3 DEF PluginsStopped
<1>6. QueuesEmptied'
  BY <1>1, <1>2, <1>3 DEF QueuesEmptied
<1>7. OutputsOfProducer'
  BY <1>1, <1>2 DEF OutputsOfProducer, CurEle
<1> QED
  BY <1>4, <1>5, <1>6, <1>7

\* A stop that leaves a thread behind stays in front of the later ones.
LEMMA NextStopThreadBefore ==
  ASSUME TypeOK, NextStopThread, NEW u \in Thread, stop.ti < u
  PROVE  StopBefore(u)'
<1>1. stop \in StopState /\ stop.ti \in Nat /\ NThreads \in Nat /\ u \in Nat /\ u <= NThreads
  BY NThreadsAssumption DEF TypeOK, StopType, StopState, Thread
<1>2. stop' = [stop EXCEPT !.at = "queues", !.ti = @ + 1, !.ei = 1]
  BY <1>1 DEF NextStopThread
<1>3. stop'.at = "queues" /\ stop'.ti = stop.ti + 1 /\ stop'.ei = 1
  BY <1>1, <1>2 DEF StopState
<1> QED
  BY <1>1, <1>3 DEF StopBefore

\* The stop finds the null framework of a thread at its entry and gets no further.
LEMMA StopNotifyPluginBefore ==
  ASSUME TypeOK, StopInvariant, EntriesInObject, StopNotifyPlugin,
         NEW u \in Thread, pc[u] = "entry"
  PROVE  StopBefore(u)'
<1>1. stop.by # "none"
  BY DEF StopNotifyPlugin, StopInvariant, StopClearsRunning
<1>2. /\ stop \in StopState /\ stop.ti \in Thread /\ stop.ti \in Nat
      /\ stop.ei \in 1..Len(Eles[stop.ti]) /\ u \in Nat
  BY NThreadsAssumption DEF TypeOK, StopType, StopState, Thread
<1>3. StopBefore(u) /\ \A i \in 1..Len(Eles[u]) : plugin[Eles[u][i]] = "null"
  BY DEF EntriesInObject
<1>4. CASE UNCHANGED stop
  BY <1>3, <1>4 DEF StopBefore
<1>5. CASE ~UNCHANGED stop
  <2>1. /\ plugin[StopEle] # "null"
        /\ \/ stop' = [stop EXCEPT !.at = "queues", !.ei = @ + 1]
           \/ stop' = [stop EXCEPT !.at = "join"]
           \/ NextStopThread
    BY <1>5 DEF StopNotifyPlugin, Crash
  <2>2. stop.ti # u
    BY <1>2, <1>3, <2>1 DEF StopEle
  <2>3. stop.ti < u
    BY <1>1, <1>2, <1>3, <2>2 DEF StopBefore
  <2>4. CASE stop' = [stop EXCEPT !.at = "queues", !.ei = @ + 1]
    <3>1. stop'.ti = stop.ti /\ stop'.at = "queues"
      BY <1>2, <2>4 DEF StopState
    <3> QED
      BY <1>2, <2>3, <3>1 DEF StopBefore
  <2>5. CASE stop' = [stop EXCEPT !.at = "join"]
    <3>1. stop'.ti = stop.ti /\ stop'.at = "join"
      BY <1>2, <2>5 DEF StopState
    <3> QED
      BY <1>2, <2>3, <3>1 DEF StopBefore
  <2> QED
    BY <2>1, <2>3, <2>4, <2>5, NextStopThreadBefore
<1> QED
  BY <1>4, <1>5

LEMMA StopStepBefore ==
  ASSUME TypeOK, StopInvariant, EntriesInObject,
         (StopStep /\ ~TaskStart) \/ HeartbeatTimeout \/ RestStop \/ ObjErased,
         NEW u \in Thread, pc[u] = "entry"
  PROVE  StopBefore(u)' /\ inQue'
<1>1. StopBefore(u) /\ inQue
  BY DEF EntriesInObject
<1>2. assigned /\ (stop.by = "none" <=> stop.at = "idle")
  BY DEF StopInvariant, Joined, StopClearsRunning
<1>3. u \in Nat /\ 1 <= u
  BY DEF Thread
<1>4. CASE HeartbeatTimeout \/ ObjErased
  BY <1>1, <1>4 DEF HeartbeatTimeout, ObjErased, StopBefore
<1>5. CASE KeepAliveFails \/ RestStop
  <2>1. (\E who, del : StopBy(who, del)) /\ UNCHANGED inQue
    BY <1>5 DEF KeepAliveFails, RestStop
  <2>2. stop'.at = "queues" /\ stop'.ti = 1 /\ stop'.ei = 1
    BY <1>2, <2>1 DEF StopBy
  <2> QED
    BY <1>1, <1>3, <2>1, <2>2 DEF StopBefore
<1>6. CASE StopNotifyQueues
  <2>1. stop' = [stop EXCEPT !.at = "plugin"] /\ stop.at = "queues" /\ stop \in StopState
    BY <1>6 DEF StopNotifyQueues, TypeOK, StopType
  <2>2. /\ stop'.by = stop.by /\ stop'.at = "plugin" /\ stop'.ti = stop.ti /\ stop'.ei = stop.ei
    BY <2>1 DEF StopState
  <2>3. UNCHANGED inQue
    BY <1>6 DEF StopNotifyQueues, taskVars
  <2> QED
    BY <1>1, <2>2, <2>3 DEF StopBefore
<1>7. CASE StopNotifyPlugin
  <2>1. UNCHANGED inQue
    BY <1>7 DEF StopNotifyPlugin, Crash, taskVars
  <2> QED
    BY <1>1, <1>7, <2>1, StopNotifyPluginBefore
<1>8. CASE Join
  <2>1. /\ stop.at = "join" /\ pc[stop.ti] = "done" /\ NextStopThread /\ UNCHANGED inQue
    BY <1>8 DEF Join, taskVars
  <2>2. stop.ti <= u /\ stop.ti # u /\ stop.ti \in Nat
    BY <1>1, <1>2, <2>1 DEF StopBefore, TypeOK, StopType, StopState
  <2>3. stop.ti < u
    BY <1>3, <2>2
  <2> QED
    BY <1>1, <2>1, <2>3, NextStopThreadBefore
<1>9. ~TaskStartFails /\ ~RestStopEnds
  BY <1>1 DEF TaskStartFails, RestStopEnds, StopBefore
<1> QED
  BY <1>4, <1>5, <1>6, <1>7, <1>8, <1>9 DEF StopStep

LEMMA StopStepKeepsEntries ==
  ASSUME TypeOK, StopInvariant, EntriesInObject, crashed = "no",
         (StopStep /\ ~TaskStart) \/ HeartbeatTimeout \/ RestStop \/ ObjErased
  PROVE  EntriesInObject' /\ ExpiredOnlyPassedOver'
<1>1. ASSUME NEW u \in Thread, pc'[u] = "entry"
      PROVE  /\ inQue' /\ StopBefore(u)'
             /\ \A i \in 1..Len(Eles[u]) : plugin'[Eles[u][i]] = "null"
  <2>1. pc[u] = "entry"
    BY <1>1, StopStepMoves DEF StopMoves
  <2>2. \A i \in 1..Len(Eles[u]) : plugin[Eles[u][i]] = "null" /\ Eles[u][i] \in Element
    BY <2>1, ElesType DEF EntriesInObject
  <2>3. \A i \in 1..Len(Eles[u]) : plugin'[Eles[u][i]] = "null"
    BY <2>2, StopStepPlugins
  <2> QED
    BY <2>1, <2>3, StopStepBefore
<1>2. erased' /\ inQue' => stop'.by = "none"
  <2>1. erased /\ inQue => stop.by = "none" /\ stop.at = "idle"
    BY DEF EntriesInObject, StopInvariant, StopClearsRunning
  <2>2. CASE HeartbeatTimeout \/ RestStop \/ ObjErased \/ KeepAliveFails
    BY <2>1, <2>2 DEF HeartbeatTimeout, RestStop, ObjErased, KeepAliveFails
  <2>3. CASE StopNotifyQueues \/ StopNotifyPlugin \/ Join
    BY <2>1, <2>3 DEF StopNotifyQueues, StopNotifyPlugin, Crash, Join, taskVars
  <2>4. CASE TaskStartFails \/ RestStopEnds
    BY <2>4 DEF TaskStartFails, RestStopEnds, Idle
  <2> QED
    BY <2>2, <2>3, <2>4 DEF StopStep
<1>3. ExpiredOnlyPassedOver'
  <2>1. crashed' # "object"
    BY StopStepPlugins
  <2> QED
    BY <2>1 DEF ExpiredOnlyPassedOver
<1> QED
  BY <1>1, <1>2, <1>3 DEF EntriesInObject

\* Before the first restart only the heartbeat that was never set stops the task by
\* the manager, and then there is no thread yet.
LEMMA StopStepKeepsFirstStart ==
  ASSUME TypeOK, StopInvariant, FirstStart,
         (StopStep /\ ~TaskStart) \/ HeartbeatTimeout \/ RestStop \/ ObjErased
  PROVE  FirstStart'
<1>1. /\ running' => running
      /\ \A u \in Thread : \/ pc'[u] = pc[u]
                           \/ pc[u] = "wait" /\ pc'[u] = "woken"
                           \/ pc[u] = "done" /\ pc'[u] = "none"
  BY StopStepMoves DEF StopMoves
<1>2. UNCHANGED threadSync
  BY StopStepPlugins
<1>3. ASSUME NEW u \in Thread PROVE (Arrived(u)' <=> Arrived(u)) /\ (Passed(u)' <=> Passed(u))
  BY <1>1 DEF Arrived, Passed, Serving
<1>4. {u \in Thread : Arrived(u)'} = {u \in Thread : Arrived(u)}
  BY <1>3
<1>5. /\ restarts' = 0 => restarts = 0
      /\ beat' = "zero" => beat = "zero" /\ stop'.by # "mgr"
      /\ restarts' = 0 /\ (stop'.by = "mgr" \/ beat' = "zero") => ~assigned'
      /\ restarts' = 0 /\ ~assigned' => threadSync' = 0
  <2>1. /\ restarts \in Nat /\ stop \in StopState
        /\ beat = "zero" => stop.by # "mgr"
        /\ restarts = 0 /\ (stop.by = "mgr" \/ beat = "zero") => ~assigned
        /\ restarts = 0 /\ ~assigned => threadSync = 0
    BY DEF FirstStart, TypeOK, TaskType, StopType
  <2>2. CASE HeartbeatTimeout \/ ObjErased
    BY <1>2, <2>1, <2>2 DEF HeartbeatTimeout, ObjErased
  <2>3. CASE KeepAliveFails
    BY <1>2, <2>1, <2>3 DEF KeepAliveFails, StopBy
  <2>4. CASE RestStop
    BY <1>2, <2>1, <2>4 DEF RestStop, StopBy
  <2>5. CASE StopNotifyQueues
    <3>1. stop' = [stop EXCEPT !.at = "plugin"]
      BY <2>5 DEF StopNotifyQueues
    <3>2. stop'.by = stop.by
      BY <2>1, <3>1 DEF StopState
    <3> QED
      BY <1>2, <2>1, <2>5, <3>2 DEF StopNotifyQueues, taskVars
  <2>6. CASE StopNotifyPlugin \/ Join
    <3>1. \/ UNCHANGED stop
          \/ stop' = [stop EXCEPT !.at = "queues", !.ei = @ + 1]
          \/ stop' = [stop EXCEPT !.at = "join"]
          \/ stop' = [stop EXCEPT !.at = "queues", !.ti = @ + 1, !.ei = 1]
          \/ stop' = [stop EXCEPT !.at = "end"]
      BY <2>6 DEF StopNotifyPlugin, Join, NextStopThread, Crash
    <3>2. stop'.by = stop.by
      BY <2>1, <3>1 DEF StopState
    <3>3. UNCHANGED <<restarts, beat, assigned>>
      BY <2>6 DEF StopNotifyPlugin, Join, Crash, taskVars
    <3> QED
      BY <1>2, <2>1, <3>2, <3>3
  <2>7. CASE TaskStartFails
    <3>1. stop'.by = "none"
      BY <2>7 DEF TaskStartFails, Idle
    <3> QED
      BY <1>2, <2>1, <2>7, <3>1 DEF TaskStartFails
  <2>8. CASE RestStopEnds
    <3>1. stop'.by = "none"
      BY <2>8 DEF RestStopEnds, Idle
    <3> QED
      BY <1>2, <2>1, <2>8, <3>1 DEF RestStopEnds
  <2> QED
    BY <2>2, <2>3, <2>4, <2>5, <2>6, <2>7, <2>8 DEF StopStep
<1>6. ASSUME restarts' = 0, running'
      PROVE  /\ threadSync' <= Cardinality({u \in Thread : Arrived(u)'})
             /\ (\E u \in Thread : Passed(u)') => \A u \in Thread : Arrived(u)'
  BY <1>1, <1>2, <1>3, <1>4, <1>5, <1>6 DEF FirstStart
<1> QED
  BY <1>5, <1>6 DEF FirstStart

-----------------------------------------------------------------------------
(* The invariant of the whole task.                                        *)

\* New threads are at their entry, with new elements and empty queues.
LEMMA TaskStartMakesNew ==
  ASSUME TypeOK, StopInvariant, EntriesInObject, FirstStart, crashed = "no", TaskStart
  PROVE  /\ PluginsStarted' /\ PluginsStopped' /\ QueuesEmptied' /\ OutputsOfProducer'
         /\ EntriesInObject' /\ FirstStart' /\ ExpiredOnlyPassedOver'
<1>1. /\ \A t \in Thread : pc'[t] = "entry"
      /\ \A e \in Element : plugin'[e] = "null" /\ output'[e] = <<>>
      /\ \A q \in Queue : qlen'[q] = 0
      /\ stop' = Idle /\ stop.by = "mgr"
      /\ UNCHANGED <<threadSync, beat, inQue, erased, restarts, crashed>>
  BY DEF TaskStart
<1>2. stop'.by = "none" /\ inQue
  BY <1>1 DEF Idle, StopInvariant, StopClearsRunning
<1>3. PluginsStarted' /\ PluginsStopped' /\ QueuesEmptied'
  BY <1>1 DEF PluginsStarted, PluginsStopped, QueuesEmptied, Started, Stopped, Emptied, Barrier,
              Serving
<1>4. OutputsOfProducer'
  <2>1. \A e \in Element : Range(output'[e]) = {}
    BY <1>1 DEF Range
  <2> QED
    BY <1>1, <2>1 DEF OutputsOfProducer
<1>5. EntriesInObject' /\ ExpiredOnlyPassedOver'
  <2>1. \A t \in Thread : \A i \in 1..Len(Eles[t]) : Eles[t][i] \in Element
    BY ElesType
  <2> QED
    BY <1>1, <1>2, <2>1 DEF EntriesInObject, StopBefore, ExpiredOnlyPassedOver
<1>6. FirstStart'
  <2>1. /\ restarts = 0 => ~assigned /\ threadSync = 0
        /\ beat # "zero"
    BY <1>1 DEF FirstStart
  <2>2. Cardinality({t \in Thread : Arrived(t)'}) >= 0
    <3>1. {t \in Thread : Arrived(t)'} \in SUBSET Thread
      OBVIOUS
    <3>2. Cardinality({t \in Thread : Arrived(t)'}) \in Nat
      BY <3>1, ThreadCount
    <3> QED
      BY <3>2
  <2>3. \A t \in Thread : ~Passed(t)'
    BY <1>1 DEF Passed, Serving
  <2>4. assigned'
    BY DEF TaskStart
  <2> QED
    BY <1>1, <1>2, <2>1, <2>2, <2>3, <2>4 DEF FirstStart
<1> QED
  BY <1>3, <1>4, <1>5, <1>6

LEMMA InitTask ==
  ASSUME Init
  PROVE  /\ PluginsStarted /\ PluginsStopped /\ QueuesEmptied /\ OutputsOfProducer
         /\ EntriesInObject /\ FirstStart /\ ExpiredOnlyPassedOver
<1>1. /\ \A t \in Thread : pc[t] = "none" /\ cur[t] = 1
      /\ \A e \in Element : plugin[e] = "null" /\ output[e] = <<>>
      /\ \A q \in Queue : qlen[q] = 0
      /\ threadSync = 0 /\ ~assigned /\ ~running /\ ~erased /\ crashed = "no"
  BY DEF Init
<1>2. stop.by = "none"
  BY DEF Init, Idle
<1>3. PluginsStarted /\ PluginsStopped /\ QueuesEmptied
  BY <1>1 DEF PluginsStarted, PluginsStopped, QueuesEmptied, Started, Stopped, Emptied, Barrier,
              Serving
<1>4. OutputsOfProducer
  <2>1. \A e \in Element : Range(output[e]) = {}
    BY <1>1 DEF Range
  <2> QED
    BY <1>1, <2>1 DEF OutputsOfProducer
<1>5. EntriesInObject /\ ExpiredOnlyPassedOver
  BY <1>1 DEF EntriesInObject, ExpiredOnlyPassedOver
<1>6. FirstStart
  BY <1>1, <1>2 DEF FirstStart
<1> QED
  BY <1>3, <1>4, <1>5, <1>6

\* The inductive invariant: whatever threads, elements and queues a pipeline has,
\* whichever plugins fail, and whoever stops or restarts the task when.
THEOREM TaskInvariantHolds == Spec => []TaskInvariant
<1>1. Init => TaskInvariant
  BY InitStopInvariant, InitTask DEF TaskInvariant
<1>2. TypeOK /\ StopInvariant' /\ TaskInvariant /\ [Next]_vars => TaskInvariant'
  <2> SUFFICES ASSUME TypeOK, StopInvariant', TaskInvariant, [Next]_vars PROVE TaskInvariant'
    OBVIOUS
  <2> USE DEF TaskInvariant
  <2>0. Next => crashed = "no"
    BY DEF Next
  <2>1. ASSUME NEW t \in Thread, ThreadAction(t), Next PROVE TaskInvariant'
    BY <2>0, <2>1, ThreadActionPlugins, ThreadActionQueuesKept, ThreadActionEntries,
       ThreadActionFirstStart
  <2>2. CASE Next /\ ((StopStep /\ ~TaskStart) \/ HeartbeatTimeout \/ RestStop \/ ObjErased)
    BY <2>0, <2>2, StopStepKeepsPlugins, StopStepKeepsEntries, StopStepKeepsFirstStart
  <2>3. CASE Next /\ TaskStart
    BY <2>0, <2>3, TaskStartMakesNew
  <2>4. CASE UNCHANGED vars
    <3> USE <2>4 DEF vars
    <3>1. PluginsStarted' /\ PluginsStopped' /\ QueuesEmptied' /\ OutputsOfProducer'
      BY DEF PluginsStarted, PluginsStopped, QueuesEmptied, OutputsOfProducer, Started, Stopped,
             Emptied, CurEle
    <3>2. EntriesInObject' /\ ExpiredOnlyPassedOver'
      BY DEF EntriesInObject, StopBefore, ExpiredOnlyPassedOver
    <3>3. ASSUME NEW t \in Thread PROVE (Arrived(t)' <=> Arrived(t)) /\ (Passed(t)' <=> Passed(t))
      BY DEF Arrived, Passed
    <3>4. {t \in Thread : Arrived(t)'} = {t \in Thread : Arrived(t)}
      BY <3>3
    <3>5. FirstStart'
      BY <3>3, <3>4 DEF FirstStart
    <3> QED
      BY <3>1, <3>2, <3>5
  <2> QED
    BY <2>1, <2>2, <2>3, <2>4 DEF Next
<1> QED
  BY <1>1, <1>2, TypeCorrect, StopInvariantHolds, PTL DEF Spec

\* ThreadFunc calls a plugin's process only with the handle that its start returned
\* and before its stop, whichever elements fail and however often the task restarts.
THEOREM ProcessNeedsHandle == Spec => []ProcessOnLiveHandle
<1>1. TypeOK /\ TaskInvariant => ProcessOnLiveHandle
  <2> SUFFICES ASSUME TypeOK, PluginsStarted, NEW t \in Thread, pc[t] = "process"
               PROVE  plugin[CurEle(t)] \in {"live", "notified"}
    BY DEF TaskInvariant, ProcessOnLiveHandle
  <2>1. cur[t] \in 1..Len(Eles[t])
    BY DEF TypeOK, ThreadType
  <2>2. Started(t, cur[t])
    BY DEF Started, Serving
  <2> QED
    BY <2>1, <2>2 DEF PluginsStarted, CurEle
<1> QED
  BY <1>1, TypeCorrect, TaskInvariantHolds, PTL

\* A thread that has ended has stopped every plugin it started, and the queues that
\* its elements feed are empty.
THEOREM EndedThreadsLeaveNothing == Spec => []EndedThreadLeavesNothing
<1>1. TaskInvariant => EndedThreadLeavesNothing
  BY DEF TaskInvariant, PluginsStopped, QueuesEmptied, Emptied, Stopped, EndedThreadLeavesNothing
<1> QED
  BY <1>1, TaskInvariantHolds, PTL

\* The assertion on the weak pointer to the object in ThreadFunc fires only in a task
\* that no stop has reached, because its object was deleted by way of another task.
THEOREM ObjectOutlivesStop == Spec => []ExpiredOnlyPassedOver
<1>1. TaskInvariant => ExpiredOnlyPassedOver
  BY DEF TaskInvariant
<1> QED
  BY <1>1, TaskInvariantHolds, PTL

\* On the first start the barrier of ThreadSync works: no thread enters its loop
\* while a queue that its elements feed is not connected yet.
THEOREM FirstStartConnects == Spec => []FirstStartConnected
<1>1. TypeOK /\ TaskInvariant => FirstStartConnected
  <2> SUFFICES ASSUME TypeOK, TaskInvariant, restarts = 0, running, NEW t \in Thread,
                      pc[t] \in {"loop"} \cup Serving, NEW u \in Thread,
                      NEW i \in 1..Len(Eles[u]), NEW q \in Range(Inputs[Eles[u][i]])
               PROVE  q \in Range(output[Producer[q]])
    BY DEF FirstStartConnected, ConnectedBeforeLoop
  <2>1. Arrived(u)
    BY DEF TaskInvariant, FirstStart, Passed
  <2>2. cur[u] \in 1..Len(Eles[u]) /\ Eles[u][i] \in Element
    BY ElesType DEF TypeOK, ThreadType
  <2>3. PastConnect(u, i)
    BY <2>1, <2>2 DEF Arrived, PastConnect, Single
  <2>4. ConnectedUpTo(Eles[u][i], Len(Inputs[Eles[u][i]]))
    BY <2>3 DEF TaskInvariant, StopInvariant, ElementsConnected
  <2>5. PICK j \in 1..Len(Inputs[Eles[u][i]]) : q = Inputs[Eles[u][i]][j]
    <3>1. Inputs[Eles[u][i]] \in Seq(Queue)
      BY <2>2, PipelineAssumption
    <3> QED
      BY <3>1 DEF Range
  <2>6. j <= Len(Inputs[Eles[u][i]])
    BY <2>2, InputsType
  <2> QED
    BY <2>4, <2>5, <2>6 DEF ConnectedUpTo
<1> QED
  BY <1>1, TypeCorrect, TaskInvariantHolds, PTL
==============================================================================
