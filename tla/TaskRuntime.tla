------------------------------ MODULE TaskRuntime ------------------------------
(***************************************************************************)
(* One task of one object on a slave: TaskParams, its TaskThreads and      *)
(* their TaskElements (task.cpp), the plugin behind each element           *)
(* (dylib.cpp), and the two parties that start and stop the task: the      *)
(* ObjManager thread, which restarts a task whose heartbeat is too old,    *)
(* and the REST handlers, which stop it (obj.cpp, rest_slave.cpp).         *)
(*                                                                         *)
(* Packets are counted, not named: PacketFlow.tla has their order.         *)
(* The mutex of a queue is held for the duration of one action, so a       *)
(* condition-variable wait is the pair of program counters "wait" (in the  *)
(* wait set) and "woken" (notified, predicate not yet re-evaluated).       *)
(*                                                                         *)
(* running     TaskParams::running                                         *)
(* threadSync  TaskParams::thread_sync                                     *)
(* assigned    thread_vec holds the NThreads threads (else it is empty)    *)
(* beat        task_beat against now_sec: never set, recent, or timed out  *)
(* inQue       the task is in its object's task_vec                        *)
(* erased      its object has been erased from obj_vec                     *)
(* pc, cur     where thread t is, and which element of t_ele_vec it is at  *)
(* pos, outNum the loop counter over inputs or outputs, and output_num;    *)
(*             back to 1 and 0 when they go out of scope                   *)
(* plugin      TaskElement::framework and DynamicLib::params and handle    *)
(* output      ElementData::output, in connection order                    *)
(* qlen        number of packets in each input queue                       *)
(* stop        the stop in progress, under task_mtx: who runs it, where it *)
(*             is, at which thread and which element                       *)
(* restarts    how often a timed out task was stopped and started again    *)
(*             (bounded by MaxRestarts)                                    *)
(* crashed     why the process died, or "no"                               *)
(***************************************************************************)
EXTENDS Integers, Sequences, FiniteSets, Functions

CONSTANTS
  NThreads,      \* thread_vec.size() after AssignToThreads
  Element,       \* the elements of the task
  Queue,         \* the input queues of its elements
  Eles,          \* t_ele_vec of each thread
  Inputs,        \* ElementData::input of each element, input[0] first
  Producer,      \* the element whose output_map feeds a queue
  QueueLen,      \* ElementData::queue_len
  Notifies,      \* elements whose plugin registers notify (rtsp, rtmp)
  Derefs,        \* elements whose plugin stop dereferences a NULL handle
  InitFails,     \* elements whose framework Init may fail
  StartFails,    \* elements whose plugin start may fail
  AlgFails,      \* whether GetAlgTask or AssignToThreads may fail
  MaxRestarts    \* bound on the number of restarts explored

Thread == 1..NThreads
Source == {e \in Element : Inputs[e] = <<>>}

ASSUME NThreadsAssumption == NThreads \in Nat \ {0}
ASSUME QueueLenAssumption == QueueLen \in Nat \ {0}
ASSUME MaxRestartsAssumption == MaxRestarts \in Nat
ASSUME PipelineAssumption ==
  /\ Eles \in [Thread -> Seq(Element)]
  /\ \A t \in Thread : Len(Eles[t]) >= 1
  /\ Inputs \in [Element -> Seq(Queue)]
  /\ Producer \in [Queue -> Element]
\* AttachToThread has put every element in exactly one place of one thread,
\* and DynamicLib::Init makes a queue for one input of one element.
ASSUME PlacementAssumption ==
  /\ \A e \in Element : \E t \in Thread : \E i \in 1..Len(Eles[t]) : Eles[t][i] = e
  /\ \A t, u \in Thread : \A i \in 1..Len(Eles[t]), j \in 1..Len(Eles[u]) :
       Eles[t][i] = Eles[u][j] => t = u /\ i = j
  /\ \A e, f \in Element : \A i \in 1..Len(Inputs[e]), j \in 1..Len(Inputs[f]) :
       Inputs[e][i] = Inputs[f][j] => e = f /\ i = j
ASSUME PluginAssumption ==
  /\ Notifies \subseteq {e \in Element : Inputs[e] = <<>>}
  /\ Derefs \subseteq Element
  /\ InitFails \subseteq Element
  /\ StartFails \subseteq Element
  /\ AlgFails \in BOOLEAN

VARIABLES running, threadSync, assigned, beat, inQue, erased,
          pc, cur, pos, outNum, plugin, output, qlen, stop, restarts, crashed

taskVars == <<running, threadSync, assigned, beat, inQue, erased>>
threadVars == <<pc, cur, pos, outNum>>
dataVars == <<plugin, output, qlen>>
vars == <<running, threadSync, assigned, beat, inQue, erased,
          pc, cur, pos, outNum, plugin, output, qlen, stop, restarts, crashed>>

-----------------------------------------------------------------------------
(* Where a thread, the stop procedure and a plugin can be.                 *)

Starting == {"entry", "make", "init", "connect", "pstart"}
Barrier == {"sync", "spin"}
Serving == {"get", "wait", "woken", "match", "process", "push", "beat"}
Ending == {"clean", "pstop", "done"}
ThreadPC == Starting \cup Barrier \cup {"loop"} \cup Serving \cup Ending \cup {"none"}

\* null: framework is nullptr; made: DynamicLib constructed, params NULL;
\* ready: params set, handle NULL; live: handle set; notified: handle set and
\* the source's own running flag cleared by its notify; freed: the plugin's stop
\* has freed what handle still points to.
PluginState == {"null", "made", "ready", "live", "notified", "freed"}

Idle == [by |-> "none", at |-> "idle", ti |-> 1, ei |-> 1, del |-> FALSE]
StopState == [by : {"none", "mgr", "rest"}, at : {"idle", "queues", "plugin", "join", "end"},
              ti : Nat, ei : Nat, del : BOOLEAN]

Single(t) == Len(Eles[t]) = 1        \* sync_in
CurEle(t) == Eles[t][cur[t]]
Last(t) == cur[t] = Len(Eles[t])
Main(e) == Inputs[e][1]

\* ThreadFunc's local shared_ptr keeps the object alive while the thread runs.
ObjExpired == erased /\ \A t \in Thread : pc[t] \in {"none", "entry", "done"}

\* notify_one or notify_all on the queues qs: a queue has one consumer, and the
\* only wait is on an element's input[0].
Notified(qs) ==
  [t \in Thread |-> IF pc[t] = "wait" /\ Main(CurEle(t)) \in qs THEN "woken" ELSE pc[t]]

\* TaskParams::TaskParams, then Put2TaskQue.
Init ==
  /\ running = FALSE /\ threadSync = 0 /\ assigned = FALSE
  /\ beat = "zero" /\ inQue = TRUE /\ erased = FALSE
  /\ pc = [t \in Thread |-> "none"]
  /\ cur = [t \in Thread |-> 1]
  /\ pos = [t \in Thread |-> 1]
  /\ outNum = [t \in Thread |-> 0]
  /\ plugin = [e \in Element |-> "null"]
  /\ output = [e \in Element |-> <<>>]
  /\ qlen = [q \in Queue |-> 0]
  /\ stop = Idle /\ restarts = 0 /\ crashed = "no"

Crash(why) ==
  /\ crashed' = why
  /\ UNCHANGED <<taskVars, threadVars, dataVars, stop, restarts>>

-----------------------------------------------------------------------------
(* TaskThread::ThreadFunc, up to its loop.                                 *)

\* assert(obj != nullptr) on the weak pointer to the object.
Entry(t) ==
  /\ pc[t] = "entry"
  /\ IF ObjExpired
       THEN Crash("object")
       ELSE /\ pc' = [pc EXCEPT ![t] = "make"]
            /\ UNCHANGED <<taskVars, cur, pos, outNum, dataVars, stop, restarts, crashed>>

\* An element's Start returned false: running = 0, and a thread with several
\* elements still goes through ThreadSync.
GiveUp(t) ==
  /\ running' = FALSE
  /\ pc' = [pc EXCEPT ![t] = IF Single(t) THEN "clean" ELSE "sync"]
  /\ cur' = [cur EXCEPT ![t] = 1]
  /\ UNCHANGED <<threadSync, assigned, beat, inQue, erased, pos, outNum, output, qlen,
                 stop, restarts, crashed>>

MakeFramework(t) ==
  /\ pc[t] = "make"
  /\ plugin' = [plugin EXCEPT ![CurEle(t)] = "made"]
  /\ pc' = [pc EXCEPT ![t] = "init"]
  /\ UNCHANGED <<taskVars, cur, pos, outNum, output, qlen, stop, restarts, crashed>>

\* DynamicLib::Init may fail before or after params is registered, and an
\* element other than the object with no input fails after it.
InitElement(t) ==
  /\ pc[t] = "init"
  /\ plugin' = [plugin EXCEPT ![CurEle(t)] = "ready"]
  /\ pc' = [pc EXCEPT ![t] = "connect"]
  /\ pos' = [pos EXCEPT ![t] = 1]
  /\ UNCHANGED <<taskVars, cur, outNum, output, qlen, stop, restarts, crashed>>

InitFailed(t) ==
  /\ pc[t] = "init"
  /\ CurEle(t) \in InitFails
  /\ \E p \in {"made", "ready"} : plugin' = [plugin EXCEPT ![CurEle(t)] = p]
  /\ GiveUp(t)

\* ConnectElement, one input at a time: the producer may be in any thread and
\* only its data_mtx is held for the push_back.
ConnectElement(t) ==
  /\ pc[t] = "connect"
  /\ LET ins == Inputs[CurEle(t)] IN
       IF pos[t] <= Len(ins)
         THEN /\ output' = [output EXCEPT ![Producer[ins[pos[t]]]] = Append(@, ins[pos[t]])]
              /\ pos' = [pos EXCEPT ![t] = @ + 1]
              /\ UNCHANGED pc
         ELSE /\ pc' = [pc EXCEPT ![t] = IF Single(t) THEN "sync" ELSE "pstart"]
              /\ pos' = [pos EXCEPT ![t] = 1]
              /\ UNCHANGED output
  /\ UNCHANGED <<taskVars, cur, outNum, plugin, qlen, stop, restarts, crashed>>

\* ThreadSync: the increment, then the spin until every thread has arrived.
SyncArrive(t) ==
  /\ pc[t] = "sync"
  /\ threadSync' = threadSync + 1
  /\ pc' = [pc EXCEPT ![t] = "spin"]
  /\ UNCHANGED <<running, assigned, beat, inQue, erased, cur, pos, outNum, dataVars,
                 stop, restarts, crashed>>

\* Mutant of SyncPass: one thread too few is waited for.
SyncPassEarly(t) ==
  /\ pc[t] = "spin"
  /\ threadSync >= NThreads - 1
  /\ pc' = [pc EXCEPT ![t] = IF Single(t) THEN "pstart" ELSE "loop"]
  /\ UNCHANGED <<taskVars, cur, pos, outNum, dataVars, stop, restarts, crashed>>

SyncPass(t) ==
  /\ pc[t] = "spin"
  /\ threadSync >= NThreads
  /\ pc' = [pc EXCEPT ![t] = IF Single(t) THEN "pstart" ELSE "loop"]
  /\ UNCHANGED <<taskVars, cur, pos, outNum, dataVars, stop, restarts, crashed>>

\* DynamicLib::Start, then the next element of the thread, or its end.
PluginStart(t) ==
  /\ pc[t] = "pstart"
  /\ plugin' = [plugin EXCEPT ![CurEle(t)] = "live"]
  /\ IF Last(t)
       THEN /\ pc' = [pc EXCEPT ![t] = IF Single(t) THEN "loop" ELSE "sync"]
            /\ cur' = [cur EXCEPT ![t] = 1]
       ELSE /\ pc' = [pc EXCEPT ![t] = "make"]
            /\ cur' = [cur EXCEPT ![t] = @ + 1]
  /\ UNCHANGED <<taskVars, pos, outNum, output, qlen, stop, restarts, crashed>>

\* Mutant of PluginStartFailed: the result of the plugin's start is not looked at.
PluginStartFailedIgnored(t) ==
  /\ pc[t] = "pstart"
  /\ CurEle(t) \in StartFails
  /\ IF Last(t)
       THEN /\ pc' = [pc EXCEPT ![t] = IF Single(t) THEN "loop" ELSE "sync"]
            /\ cur' = [cur EXCEPT ![t] = 1]
       ELSE /\ pc' = [pc EXCEPT ![t] = "make"]
            /\ cur' = [cur EXCEPT ![t] = @ + 1]
  /\ UNCHANGED <<taskVars, pos, outNum, dataVars, stop, restarts, crashed>>

\* The plugin returned no handle, or its process symbol is missing.
PluginStartFailed(t) ==
  /\ pc[t] = "pstart"
  /\ CurEle(t) \in StartFails
  /\ \E p \in {"ready", "live"} : plugin' = [plugin EXCEPT ![CurEle(t)] = p]
  /\ GiveUp(t)

-----------------------------------------------------------------------------
(* TaskThread::ThreadFunc, its loop.                                       *)

LoopCheck(t) ==
  /\ pc[t] = "loop"
  /\ pc' = [pc EXCEPT ![t] = IF running THEN "get" ELSE "clean"]
  /\ UNCHANGED <<taskVars, cur, pos, outNum, dataVars, stop, restarts, crashed>>

\* The end of one pass over an element: the next element, or BeatAlive.
NextElement(t) ==
  /\ IF Last(t)
       THEN /\ pc' = [pc EXCEPT ![t] = "beat"]
            /\ cur' = [cur EXCEPT ![t] = 1]
       ELSE /\ pc' = [pc EXCEPT ![t] = "get"]
            /\ cur' = [cur EXCEPT ![t] = @ + 1]
  /\ pos' = [pos EXCEPT ![t] = 1]
  /\ outNum' = [outNum EXCEPT ![t] = 0]

\* All inputs are there: output_num is read, then the plugin is called.
ToProcess(t) ==
  /\ pc' = [pc EXCEPT ![t] = "process"]
  /\ outNum' = [outNum EXCEPT ![t] = Len(output[CurEle(t)])]
  /\ pos' = [pos EXCEPT ![t] = 1]

\* GetInput of an element without inputs.
GetNothing(t) ==
  /\ pc[t] = "get"
  /\ Inputs[CurEle(t)] = <<>>
  /\ ToProcess(t)
  /\ UNCHANGED <<taskVars, cur, dataVars, stop, restarts, crashed>>

\* GetInput pops input[0]. A thread that found the queue non-empty does not look
\* at running; one that waited does.
PopMain(t) ==
  /\ pc[t] \in {"get", "woken"}
  /\ Inputs[CurEle(t)] # <<>>
  /\ qlen[Main(CurEle(t))] > 0
  /\ pc[t] = "woken" => running
  /\ qlen' = [qlen EXCEPT ![Main(CurEle(t))] = @ - 1]
  /\ pc' = [pc EXCEPT ![t] = "match"]
  /\ pos' = [pos EXCEPT ![t] = 2]
  /\ UNCHANGED <<taskVars, cur, outNum, plugin, output, stop, restarts, crashed>>

\* Mutant of WaitMain: the predicate of the wait does not look at running.
WaitMainUnchecked(t) ==
  /\ pc[t] \in {"get", "woken"}
  /\ Inputs[CurEle(t)] # <<>>
  /\ qlen[Main(CurEle(t))] = 0
  /\ pc' = [pc EXCEPT ![t] = "wait"]
  /\ UNCHANGED <<taskVars, cur, pos, outNum, dataVars, stop, restarts, crashed>>

\* condition.wait: neither a packet nor a stop.
WaitMain(t) ==
  /\ pc[t] \in {"get", "woken"}
  /\ Inputs[CurEle(t)] # <<>>
  /\ qlen[Main(CurEle(t))] = 0 /\ running
  /\ pc' = [pc EXCEPT ![t] = "wait"]
  /\ UNCHANGED <<taskVars, cur, pos, outNum, dataVars, stop, restarts, crashed>>

\* GetInput returns -1, which ends the pass over the elements.
StoppedAtMain(t) ==
  /\ pc[t] \in {"get", "woken"}
  /\ Inputs[CurEle(t)] # <<>>
  /\ ~running
  /\ pc[t] = "get" => qlen[Main(CurEle(t))] = 0
  /\ pc' = [pc EXCEPT ![t] = "beat"]
  /\ cur' = [cur EXCEPT ![t] = 1]
  /\ UNCHANGED <<taskVars, pos, outNum, dataVars, stop, restarts, crashed>>

\* Another input is popped up to a packet that is not older than input[0]'s;
\* when there is none the queue is left empty and GetInput returns 1.
MatchInput(t) ==
  /\ pc[t] = "match"
  /\ pos[t] <= Len(Inputs[CurEle(t)])
  /\ LET q == Inputs[CurEle(t)][pos[t]] IN
       \/ \E n \in 1..qlen[q] : /\ qlen' = [qlen EXCEPT ![q] = @ - n]
                                /\ pos' = [pos EXCEPT ![t] = @ + 1]
                                /\ UNCHANGED <<pc, cur, outNum>>
       \/ /\ qlen' = [qlen EXCEPT ![q] = 0]
          /\ NextElement(t)
  /\ UNCHANGED <<taskVars, plugin, output, stop, restarts, crashed>>

Matched(t) ==
  /\ pc[t] = "match"
  /\ pos[t] > Len(Inputs[CurEle(t)])
  /\ ToProcess(t)
  /\ UNCHANGED <<taskVars, cur, dataVars, stop, restarts, crashed>>

\* The plugin returns a packet to pass on (what process returns is not looked at,
\* DynamicLib::Process returns 0). A source that registers notify
\* returns one only when its camera delivered it.
ProcessPacket(t) ==
  /\ pc[t] = "process"
  /\ pc' = [pc EXCEPT ![t] = "push"]
  /\ UNCHANGED <<taskVars, cur, pos, outNum, dataVars, stop, restarts, crashed>>

\* The plugin returns without a packet: always possible, except for a source
\* that waits for its camera until it is notified.
ProcessNothing(t) ==
  /\ pc[t] = "process"
  /\ CurEle(t) \in Notifies => plugin[CurEle(t)] = "notified"
  /\ NextElement(t)
  /\ UNCHANGED <<taskVars, dataVars, stop, restarts, crashed>>

\* The packet goes to one more output queue, whose oldest packet makes room for
\* it when the queue is full; then notify_one.
PushOutput(t) ==
  /\ pc[t] = "push"
  /\ pos[t] <= outNum[t]
  /\ LET q == output[CurEle(t)][pos[t]]
         held == IF qlen[q] >= QueueLen THEN qlen[q] - 1 ELSE qlen[q]
     IN /\ qlen' = [qlen EXCEPT ![q] = held + 1]
        /\ pc' = Notified({q})
  /\ pos' = [pos EXCEPT ![t] = @ + 1]
  /\ UNCHANGED <<taskVars, cur, outNum, plugin, output, stop, restarts, crashed>>

Pushed(t) ==
  /\ pc[t] = "push"
  /\ pos[t] > outNum[t]
  /\ NextElement(t)
  /\ UNCHANGED <<taskVars, dataVars, stop, restarts, crashed>>

BeatAlive(t) ==
  /\ pc[t] = "beat"
  /\ beat' = "fresh"
  /\ pc' = [pc EXCEPT ![t] = "loop"]
  /\ UNCHANGED <<running, threadSync, assigned, inQue, erased, cur, pos, outNum, dataVars,
                 stop, restarts, crashed>>

-----------------------------------------------------------------------------
(* TaskThread::ThreadFunc, after its loop.                                 *)

\* Mutant of CleanOutputs: the packets stay.
CleanOutputsKeep(t) ==
  /\ pc[t] = "clean"
  /\ pc' = [Notified(Range(output[CurEle(t)])) EXCEPT ![t] = "pstop"]
  /\ UNCHANGED <<taskVars, cur, pos, outNum, dataVars, stop, restarts, crashed>>

\* The output queues of one element are emptied and their consumers notified.
CleanOutputs(t) ==
  /\ pc[t] = "clean"
  /\ LET qs == Range(output[CurEle(t)]) IN
       /\ qlen' = [q \in Queue |-> IF q \in qs THEN 0 ELSE qlen[q]]
       /\ pc' = [Notified(qs) EXCEPT ![t] = "pstop"]
  /\ UNCHANGED <<taskVars, cur, pos, outNum, plugin, output, stop, restarts, crashed>>

\* TaskElement::Stop: nothing without a framework, else DynamicLib::Stop, which
\* hands the plugin its handle even when that is NULL. The plugin's stop frees the
\* handle, and only afterwards is it set to NULL.
StopElement(t) ==
  /\ pc[t] = "pstop"
  /\ LET e == CurEle(t) IN
       IF plugin[e] = "ready" /\ e \in Derefs
         THEN Crash("handle")
         ELSE IF plugin[e] \in {"live", "notified"}
           THEN /\ plugin' = [plugin EXCEPT ![e] = "freed"]
                /\ UNCHANGED <<taskVars, threadVars, output, qlen, stop, restarts, crashed>>
           ELSE /\ plugin' = [plugin EXCEPT ![e] = IF @ = "freed" THEN "ready" ELSE @]
                /\ IF Last(t)
                     THEN /\ pc' = [pc EXCEPT ![t] = "done"]
                          /\ cur' = [cur EXCEPT ![t] = 1]
                     ELSE /\ pc' = [pc EXCEPT ![t] = "clean"]
                          /\ cur' = [cur EXCEPT ![t] = @ + 1]
                /\ UNCHANGED <<taskVars, pos, outNum, output, qlen, stop, restarts, crashed>>

ThreadStep(t) ==
  \/ Entry(t) \/ MakeFramework(t) \/ InitElement(t) \/ InitFailed(t)
  \/ ConnectElement(t) \/ SyncArrive(t) \/ SyncPass(t)
  \/ PluginStart(t) \/ PluginStartFailed(t)
  \/ LoopCheck(t) \/ GetNothing(t) \/ PopMain(t) \/ WaitMain(t) \/ StoppedAtMain(t)
  \/ MatchInput(t) \/ Matched(t) \/ ProcessNothing(t) \/ PushOutput(t) \/ Pushed(t)
  \/ BeatAlive(t) \/ CleanOutputs(t) \/ StopElement(t)

\* Any step of a thread; the camera may also never deliver another packet.
ThreadAction(t) == ThreadStep(t) \/ ProcessPacket(t)

-----------------------------------------------------------------------------
(* ObjManager and the REST handlers, which exclude each other by task_mtx. *)

\* now_sec moves past task_beat + task_timeout.
HeartbeatTimeout ==
  /\ beat = "fresh" /\ inQue
  /\ restarts < MaxRestarts
  /\ beat' = "stale"
  /\ UNCHANGED <<running, threadSync, assigned, inQue, erased, threadVars, dataVars, stop,
                 restarts, crashed>>

\* TaskParams::Stop clears running and walks thread_vec.
StopBy(who, del) ==
  /\ running' = FALSE
  /\ stop' = [by |-> who, at |-> IF assigned THEN "queues" ELSE "end",
              ti |-> 1, ei |-> 1, del |-> del]

\* Mutant of KeepAliveFails: only a heartbeat that was never set counts.
KeepAliveFailsOnce ==
  /\ stop.by = "none" /\ inQue /\ ~erased
  /\ beat = "zero"
  /\ beat' = "fresh"
  /\ StopBy("mgr", FALSE)
  /\ UNCHANGED <<threadSync, assigned, inQue, erased, threadVars, dataVars, restarts, crashed>>

\* TraverseTaskQue of a listed object: KeepAlive returned false, Stop(true).
KeepAliveFails ==
  /\ stop.by = "none" /\ inQue /\ ~erased
  /\ beat \in {"zero", "stale"}
  /\ beat' = "fresh"
  /\ restarts' = IF beat = "stale" THEN restarts + 1 ELSE restarts
  /\ StopBy("mgr", FALSE)
  /\ UNCHANGED <<threadSync, assigned, inQue, erased, threadVars, dataVars, crashed>>

\* Mutant of RestStop: the object is erased before its tasks are stopped.
RestStopErasesFirst ==
  /\ stop.by = "none" /\ inQue /\ ~erased
  /\ \E del \in BOOLEAN : StopBy("rest", del) /\ erased' = del
  /\ UNCHANGED <<threadSync, assigned, beat, inQue, threadVars, dataVars, restarts, crashed>>

\* request_stop_task, or request_del_obj, which erases the object afterwards and finds
\* this task first in its task_vec: DelFromTaskQue calls Stop(false).
RestStop ==
  /\ stop.by = "none" /\ inQue /\ ~erased
  /\ \E del \in BOOLEAN : StopBy("rest", del)
  /\ UNCHANGED <<threadSync, assigned, beat, inQue, erased, threadVars, dataVars, restarts,
                 crashed>>

\* request_del_obj finds another task in front of this one, or none at all:
\* DelFromTaskQue("all") breaks after the first, and DelFromObjQue erases the object.
ObjErased ==
  /\ stop.by = "none" /\ ~erased
  /\ erased' = TRUE
  /\ UNCHANGED <<running, threadSync, assigned, beat, inQue, threadVars, dataVars, stop,
                 restarts, crashed>>

StopEle == Eles[stop.ti][stop.ei]

\* Mutant of StopNotifyQueues: running is cleared but nobody is told.
StopNotifyQueuesSilent ==
  /\ stop.at = "queues"
  /\ stop' = [stop EXCEPT !.at = "plugin"]
  /\ UNCHANGED <<taskVars, threadVars, dataVars, restarts, crashed>>

\* TaskThread::Stop, one element: notify_all on its output queues.
StopNotifyQueues ==
  /\ stop.at = "queues"
  /\ pc' = Notified(Range(output[StopEle]))
  /\ stop' = [stop EXCEPT !.at = "plugin"]
  /\ UNCHANGED <<taskVars, cur, pos, outNum, dataVars, restarts, crashed>>

\* The thread is dealt with: the next one, or the end of TaskParams::Stop.
NextStopThread ==
  stop' = IF stop.ti < NThreads
            THEN [stop EXCEPT !.at = "queues", !.ti = @ + 1, !.ei = 1]
            ELSE [stop EXCEPT !.at = "end"]

\* Mutant of StopNotifyPlugin: the plugins are not notified.
StopNotifyPluginSilent ==
  /\ stop.at = "plugin"
  /\ IF stop.ei < Len(Eles[stop.ti])
       THEN stop' = [stop EXCEPT !.at = "queues", !.ei = @ + 1]
       ELSE IF stop.by = "mgr"
              THEN stop' = [stop EXCEPT !.at = "join"]
              ELSE NextStopThread
  /\ UNCHANGED <<taskVars, threadVars, dataVars, restarts, crashed>>

\* ele->framework->Notify(), without a check for a null framework; DynamicLib
\* hands notify the handle even when that is NULL or, because the element's own
\* thread is in DynamicLib::Stop, already freed, which may go well.
StopNotifyPlugin ==
  /\ stop.at = "plugin"
  /\ \/ plugin[StopEle] = "null" /\ Crash("framework")
     \/ StopEle \in Notifies /\ plugin[StopEle] \in {"ready", "freed"} /\ Crash("handle")
     \/ /\ plugin[StopEle] # "null"
        /\ StopEle \in Notifies => plugin[StopEle] # "ready"
        /\ plugin' = [plugin EXCEPT ![StopEle] =
                         IF StopEle \in Notifies /\ @ = "live" THEN "notified" ELSE @]
        /\ IF stop.ei < Len(Eles[stop.ti])
             THEN stop' = [stop EXCEPT !.at = "queues", !.ei = @ + 1]
             ELSE IF stop.by = "mgr"
                    THEN stop' = [stop EXCEPT !.at = "join"]
                    ELSE NextStopThread
        /\ UNCHANGED <<taskVars, threadVars, output, qlen, restarts, crashed>>

\* Mutant of Join: the thread is detached.
JoinDetaches ==
  /\ stop.at = "join"
  /\ NextStopThread
  /\ UNCHANGED <<taskVars, threadVars, dataVars, restarts, crashed>>

\* t->join() and delete t.
Join ==
  /\ stop.at = "join"
  /\ pc[stop.ti] = "done"
  /\ pc' = [pc EXCEPT ![stop.ti] = "none"]
  /\ NextStopThread
  /\ UNCHANGED <<taskVars, cur, pos, outNum, dataVars, restarts, crashed>>

\* TaskParams::Start after Stop(true): AssignToThreads makes new threads and
\* elements, and every thread is started. thread_sync is not reset.
TaskStart ==
  /\ stop.by = "mgr" /\ stop.at = "end"
  /\ stop' = Idle
  /\ running' = TRUE /\ assigned' = TRUE
  /\ pc' = [t \in Thread |-> "entry"]
  /\ cur' = [t \in Thread |-> 1]
  /\ pos' = [t \in Thread |-> 1]
  /\ outNum' = [t \in Thread |-> 0]
  /\ plugin' = [e \in Element |-> "null"]
  /\ output' = [e \in Element |-> <<>>]
  /\ qlen' = [q \in Queue |-> 0]
  /\ UNCHANGED <<threadSync, beat, inQue, erased, restarts, crashed>>

\* GetAlgTask or AssignToThreads failed: thread_vec stays cleared.
TaskStartFails ==
  /\ stop.by = "mgr" /\ stop.at = "end"
  /\ AlgFails
  /\ stop' = Idle
  /\ assigned' = FALSE
  /\ UNCHANGED <<running, threadSync, beat, inQue, erased, threadVars, dataVars, restarts,
                 crashed>>

\* DelFromTaskQue erases the task, DelFromObjQue the object.
RestStopEnds ==
  /\ stop.by = "rest" /\ stop.at = "end"
  /\ stop' = Idle
  /\ inQue' = FALSE
  /\ erased' = stop.del
  /\ UNCHANGED <<running, threadSync, assigned, beat, threadVars, dataVars, restarts, crashed>>

StopStep ==
  \/ KeepAliveFails \/ StopNotifyQueues \/ StopNotifyPlugin \/ Join
  \/ TaskStart \/ TaskStartFails \/ RestStopEnds

Next ==
  /\ crashed = "no"
  /\ \/ \E t \in Thread : ThreadAction(t)
     \/ StopStep
     \/ HeartbeatTimeout
     \/ RestStop
     \/ ObjErased

Spec == Init /\ [][Next]_vars

\* The scheduler runs every thread that can step, the thread that holds the
\* task's mutex included, and once running is cleared no thread beats for long,
\* so that the clock overtakes the heartbeat. Neither the camera nor a REST
\* client owes the task anything.
Fairness ==
  /\ \A t \in Thread : WF_vars(crashed = "no" /\ ThreadStep(t))
  /\ WF_vars(crashed = "no" /\ StopStep)
  /\ WF_vars(crashed = "no" /\ ~running /\ HeartbeatTimeout)

FairSpec == Spec /\ Fairness
-----------------------------------------------------------------------------
(* Properties.                                                             *)

TaskType ==
  /\ running \in BOOLEAN /\ threadSync \in Nat /\ assigned \in BOOLEAN
  /\ beat \in {"zero", "fresh", "stale"} /\ inQue \in BOOLEAN /\ erased \in BOOLEAN
  /\ restarts \in Nat
  /\ crashed \in {"no", "object", "framework", "handle"}

ThreadType ==
  /\ pc \in [Thread -> ThreadPC]
  /\ cur \in [Thread -> Nat] /\ \A t \in Thread : cur[t] \in 1..Len(Eles[t])
  /\ pos \in [Thread -> Nat \ {0}]
  /\ outNum \in [Thread -> Nat]

DataType ==
  /\ plugin \in [Element -> PluginState]
  /\ output \in [Element -> Seq(Queue)]
  /\ qlen \in [Queue -> 0..QueueLen]

StopType ==
  /\ stop \in StopState
  /\ stop.ti \in Thread /\ stop.ei \in 1..Len(Eles[stop.ti])

\* Every variable in its type: among other things a queue within queue_len, the
\* element counters within t_ele_vec and the walk of Stop within thread_vec.
TypeOK == TaskType /\ ThreadType /\ DataType /\ StopType

\* Thread t has not yet notified the consumers of its i-th element's outputs.
StillCleans(t, i) ==
  \/ pc[t] \in ThreadPC \ (Ending \cup {"none"})
  \/ pc[t] = "clean" /\ cur[t] <= i
  \/ pc[t] = "pstop" /\ cur[t] < i

\* No lost wake-up in GetInput: whatever the order in which running is cleared,
\* threads give up and queues are notified, the producer of a queue that a thread
\* waits on is connected to that queue and has its final notify_all still to do.
NoLostWakeup ==
  \A t \in Thread : pc[t] = "wait" =>
    LET q == Main(CurEle(t)) IN
      \E u \in Thread : \E i \in 1..Len(Eles[u]) :
        /\ Eles[u][i] = Producer[q]
        /\ q \in Range(output[Producer[q]])
        /\ StillCleans(u, i)

\* TaskParams::Stop has already notified the outputs of element i of thread u.
StopPassed(u, i) ==
  \/ u < stop.ti
  \/ u = stop.ti /\ i < stop.ei
  \/ u = stop.ti /\ i = stop.ei /\ stop.at = "plugin"
  \/ u = stop.ti /\ stop.at = "join"
  \/ stop.at = "end"

\* running is cleared before the notify_all of TaskParams::Stop, and no thread
\* goes back to sleep behind its back: nobody waits on a queue that the stop has
\* notified, and nobody at all waits once a REST stop has returned.
StopWakesEveryone ==
  /\ stop.by # "none" =>
       \A u \in Thread : \A i \in 1..Len(Eles[u]) : StopPassed(u, i) =>
         \A t \in Thread : pc[t] = "wait" =>
           Main(CurEle(t)) \notin Range(output[Eles[u][i]])
  /\ ~inQue => \A t \in Thread : pc[t] # "wait"

\* ThreadFunc calls the plugin only between its start and its stop, on a restart
\* after a failed start included: process is never given a missing handle.
ProcessOnLiveHandle ==
  \A t \in Thread : pc[t] = "process" => plugin[CurEle(t)] \in {"live", "notified"}

\* A thread that ended has stopped every plugin it started, and left no packet
\* in a queue that its elements feed (lines 348-360 of task.cpp).
EndedThreadLeavesNothing ==
  \A t \in Thread : pc[t] = "done" =>
    \A i \in 1..Len(Eles[t]) :
      /\ plugin[Eles[t][i]] \notin {"live", "notified", "freed"}
      /\ \A q \in Range(output[Eles[t][i]]) : qlen[q] = 0

\* The barrier of ThreadSync: no thread of the task enters its loop, where it
\* reads its elements' output lists without a lock, while another still has
\* queues to push into them.
ConnectedBeforeLoop ==
  \A t \in Thread : pc[t] \in {"loop"} \cup Serving /\ running =>
    \A u \in Thread : \A i \in 1..Len(Eles[u]) : \A q \in Range(Inputs[Eles[u][i]]) :
      Producer[q] \in Range(Eles[t]) => q \in Range(output[Producer[q]])

\* The same on the first start only, when thread_sync still counts from 0.
FirstStartConnected == restarts = 0 => ConnectedBeforeLoop

\* A new generation of threads starts only when every thread of the previous one
\* has been joined.
JoinedBeforeRestart ==
  [][TaskStart => \A t \in Thread : pc[t] = "none"]_vars

\* Stop(true), which runs under obj_mtx and task_mtx, returns.
StopReturns == stop.by # "none" ~> stop.by = "none" \/ crashed # "no"

\* Once a REST stop has returned, every thread of the task ends.
StoppedTaskEnds ==
  ~inQue ~> (\A t \in Thread : pc[t] \in {"none", "done"}) \/ crashed # "no"

\* A task whose threads gave up is started again by the next heartbeat timeout
\* ("detected exception, restart it ..."), unless it or its object is removed first.
DeadTaskRestarts ==
  (~running /\ assigned /\ stop.by = "none" /\ restarts < MaxRestarts)
    ~> (running \/ ~assigned \/ ~inQue \/ erased \/ crashed # "no")

\* assert(obj != nullptr) in ThreadFunc.
NoExpiredObject == crashed # "object"

\* It fires only in a task that the deletion of its object passed over, because the
\* object had another task in front: where the task itself is stopped, even while its
\* threads are being started, the erasure of the object comes after the stop, and that
\* does not get past the null framework of a thread at its entry.
ExpiredOnlyPassedOver ==
  crashed = "object" => inQue /\ stop.by = "none"

-----------------------------------------------------------------------------
(* The inductive invariant behind NoLostWakeup, StopWakesEveryone and      *)
(* JoinedBeforeRestart.                                                    *)

\* A stop has cleared running and its task is still in the object's task_vec; a
\* task that is not there any more does not run.
StopClearsRunning ==
  /\ stop.by = "none" <=> stop.at = "idle"
  /\ stop.by # "none" => ~running /\ inQue
  /\ ~inQue => ~running

\* No threads before the first start; Stop(true) has joined those it has passed.
Joined ==
  /\ ~assigned => \A t \in Thread : pc[t] = "none"
  /\ stop.by = "mgr" =>
       \A t \in Thread : t < stop.ti \/ stop.at = "end" => pc[t] = "none"

\* While running is set every thread is between its entry and its loop's end.
RunningThreads == running => \A t \in Thread : pc[t] \notin Ending \cup {"none"}

\* Outside the passes over its elements a thread is at its first element.
FirstElement ==
  \A t \in Thread : pc[t] \in {"entry", "sync", "spin", "loop", "beat"} => cur[t] = 1

\* The producers of the first n inputs of e have them in their output lists.
ConnectedUpTo(e, n) ==
  \A j \in 1..Len(Inputs[e]) : j <= n => Inputs[e][j] \in Range(output[Producer[Inputs[e][j]]])

\* Thread t is past the connection of its i-th element: it is starting a later
\* one, has them all, or is in its loop. A thread that gave up is not, but then
\* running is cleared and it will not enter the loop.
PastConnect(t, i) ==
  \/ /\ running
     /\ \/ pc[t] \in {"make", "init", "connect", "pstart"} /\ i < cur[t]
        \/ pc[t] = "pstart" /\ i = cur[t]
        \/ pc[t] \in {"sync", "spin", "loop"}
  \/ pc[t] \in Serving

\* Those elements have all their inputs connected, and keep them when running is
\* cleared.
ElementsConnected ==
  \A t \in Thread : \A i \in 1..Len(Eles[t]) :
    PastConnect(t, i) => ConnectedUpTo(Eles[t][i], Len(Inputs[Eles[t][i]]))

InputsConnected ==
  \A t \in Thread : pc[t] = "connect" => ConnectedUpTo(CurEle(t), pos[t] - 1)

\* Only an element with inputs is waited for.
WaitersHaveInput == \A t \in Thread : pc[t] = "wait" => Inputs[CurEle(t)] # <<>>

\* All of it: what a thread that waits for a packet relies on when its task is
\* stopped.
StopInvariant ==
  /\ StopClearsRunning /\ Joined /\ RunningThreads /\ FirstElement
  /\ ElementsConnected /\ InputsConnected /\ WaitersHaveInput
  /\ NoLostWakeup /\ StopWakesEveryone

-----------------------------------------------------------------------------
(* The inductive invariant behind ProcessOnLiveHandle,                     *)
(* ExpiredOnlyPassedOver, EndedThreadLeavesNothing, FirstStartConnected.   *)

\* Thread t has started the plugin of its i-th element and is still going to call it.
Started(t, i) ==
  \/ pc[t] \in {"make", "init", "connect", "pstart"} /\ i < cur[t]
  \/ running /\ pc[t] \in Barrier /\ ~Single(t)
  \/ running /\ pc[t] = "loop"
  \/ pc[t] \in Serving

\* The plugin of such an element has a handle, which only its own thread takes away.
PluginsStarted ==
  \A t \in Thread : \A i \in 1..Len(Eles[t]) :
    Started(t, i) => plugin[Eles[t][i]] \in {"live", "notified"}

\* Thread t has stopped the plugin of its i-th element ...
Stopped(t, i) ==
  \/ pc[t] = "done"
  \/ pc[t] \in {"clean", "pstop"} /\ i < cur[t]

\* ... and, before that, emptied the queues that the element feeds.
Emptied(t, i) == Stopped(t, i) \/ (pc[t] = "pstop" /\ i = cur[t])

\* The clean-up at the end of ThreadFunc leaves neither handles nor packets behind.
PluginsStopped ==
  \A t \in Thread : \A i \in 1..Len(Eles[t]) :
    Stopped(t, i) => plugin[Eles[t][i]] \notin {"live", "notified", "freed"}

QueuesEmptied ==
  \A t \in Thread : \A i \in 1..Len(Eles[t]) :
    Emptied(t, i) => \A q \in Range(output[Eles[t][i]]) : qlen[q] = 0

\* A queue is in no output list but its producer's, and has packets only when it
\* is; a thread pushes no further than the list it has read.
OutputsOfProducer ==
  /\ \A e \in Element : \A q \in Range(output[e]) : Producer[q] = e
  /\ \A q \in Queue : qlen[q] # 0 => q \in Range(output[Producer[q]])
  /\ \A t \in Thread : pc[t] \in {"process", "push"} => outNum[t] <= Len(output[CurEle(t)])

\* The stop that is under way, if any, has not got past the first element of thread t.
StopBefore(t) ==
  stop.by # "none" =>
    /\ stop.ti <= t /\ stop.at # "end"
    /\ stop.ti = t => stop.ei = 1 /\ stop.at # "join"

\* The null framework of a thread at its entry keeps the stop, and with it the erasure
\* of the task, from getting past that thread. An erased object's tasks are not stopped.
EntriesInObject ==
  /\ \A t \in Thread : pc[t] = "entry" =>
       /\ inQue /\ StopBefore(t)
       /\ \A i \in 1..Len(Eles[t]) : plugin[Eles[t][i]] = "null"
  /\ erased /\ inQue => stop.by = "none"

\* Thread t has been counted by thread_sync ...
Arrived(t) ==
  \/ pc[t] \in {"spin", "loop"} \cup Serving
  \/ Single(t) /\ pc[t] = "pstart"

\* ... and the barrier has let it through.
Passed(t) ==
  \/ pc[t] \in {"loop"} \cup Serving
  \/ Single(t) /\ pc[t] = "pstart"

\* Before the first restart thread_sync is 0 until the threads are started, which
\* happens once, and then counts no thread twice: one that passes the barrier leaves
\* none behind it.
FirstStart ==
  /\ beat = "zero" => stop.by # "mgr"
  /\ restarts = 0 =>
       /\ (stop.by = "mgr" \/ beat = "zero") => ~assigned
       /\ ~assigned => threadSync = 0
       /\ running => threadSync <= Cardinality({t \in Thread : Arrived(t)})
       /\ running /\ (\E t \in Thread : Passed(t)) => \A u \in Thread : Arrived(u)

\* The inductive invariant behind the other invariants of a task.
TaskInvariant ==
  /\ StopInvariant
  /\ PluginsStarted /\ PluginsStopped
  /\ QueuesEmptied /\ OutputsOfProducer
  /\ EntriesInObject /\ ExpiredOnlyPassedOver
  /\ FirstStart
==============================================================================
