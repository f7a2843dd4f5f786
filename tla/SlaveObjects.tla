---------------------------- MODULE SlaveObjects ----------------------------
(***************************************************************************)
(* The objects of a slave and their tasks (obj.cpp), between the REST      *)
(* thread (rest_slave.cpp), ObjManager, which starts and restarts tasks,   *)
(* and StartHttpfileTask.                                                  *)
(*                                                                         *)
(* obj_mtx is held by ObjManager for a whole pass and task_mtx for an      *)
(* object of it; everybody else holds them within one step.  A task is     *)
(* known by a number; how it starts and ends inside is TaskRuntime.        *)
(***************************************************************************)
EXTENDS Integers, Sequences, FiniteSets, SequencesExt

CONSTANTS
  SoId,         \* ids of objects that requests name
  SoName,       \* names of tasks
  SoHttp,       \* the tasks of the configured http files, in order
  SoRequests,   \* bound: requests
  SoDeaths      \* bound: tasks that stop serving

\* The ids of users are not those of the http files (SoHttpId).
ASSUME SoAssumption ==
  /\ SoId \subseteq Nat /\ SoHttp \in Seq(STRING) /\ SoName \subseteq STRING
  /\ SoRequests \in Nat /\ SoDeaths \in Nat

VARIABLES so, soRest, soMgr, soHttp

soVars == <<so, soRest, soMgr, soHttp>>

SoIdle == [at |-> "idle", kind |-> "", id |-> 0, name |-> "", obj |-> 0]

\* The id of the i-th http file object, computed from the address of the host:
\* it is not one of those given by the users.
SoHttpId(i) == -i

SoInitial(on) ==
  /\ so = [on |-> on, objs |-> <<>>, ids |-> <<>>, tasks |-> <<>>, names |-> <<>>,
           state |-> <<>>, dropped |-> {}, output |-> FALSE, alg |-> FALSE, asked |-> 0, died |-> 0]
  /\ soRest = SoIdle
  /\ soMgr = [at |-> "sleep", i |-> 0, j |-> 0]
  /\ soHttp = [at |-> "output", i |-> 1, obj |-> 0]

SoObjFree == soMgr.at = "sleep"                       \* obj_mtx
SoTaskFree(o) == ~(soMgr.at = "task" /\ so.objs[soMgr.i] = o)   \* task_mtx of o

\* GetObj and GetTask: the first with the id or the name, 0 when there is none.
SoObj(id) == SelectInSeq(so.objs, LAMBDA o : so.ids[o] = id)
SoTaskAt(o, name) == SelectInSeq(so.tasks[o], LAMBDA k : so.names[k] = name)

\* make_shared of an object, and Put2ObjQue.
SoNewObj(id) ==
  [so EXCEPT !.objs = Append(@, Len(so.ids) + 1), !.ids = Append(@, id), !.tasks = Append(@, <<>>)]

\* make_shared of a TaskParams, and Put2TaskQue.
SoNewTask(o, name) ==
  [so EXCEPT !.tasks[o] = Append(@, Len(so.names) + 1), !.names = Append(@, name),
             !.state = Append(@, "new")]

-----------------------------------------------------------------------------
(* The REST thread *)

\* A request arrives; set/output and del need no object.
SoRequest(kind, id, name) ==
  /\ so.on /\ soRest.at = "idle" /\ so.asked < SoRequests
  /\ so' = [so EXCEPT !.asked = @ + 1, !.output = @ \/ kind = "output"]
  /\ soRest' = IF kind = "output" THEN SoIdle
               ELSE [at |-> "get", kind |-> kind, id |-> id, name |-> name, obj |-> 0]
  /\ UNCHANGED <<soMgr, soHttp>>

\* GetObj, and the early returns behind it.
SoGetObj ==
  /\ soRest.at = "get" /\ soRest.kind # "del" /\ SoObjFree
  /\ LET at == SoObj(soRest.id)
     IN  soRest' = CASE soRest.kind = "add" /\ at = 0 -> [soRest EXCEPT !.at = "put"]
                     [] soRest.kind \in {"start", "stop"} /\ at # 0 ->
                          [soRest EXCEPT !.at = soRest.kind, !.obj = so.objs[at]]
                     [] OTHER -> SoIdle
  /\ UNCHANGED <<so, soMgr, soHttp>>

SoPutObj ==
  /\ soRest.at = "put" /\ SoObjFree
  /\ so' = SoNewObj(soRest.id)
  /\ soRest' = SoIdle
  /\ UNCHANGED <<soMgr, soHttp>>

\* Mutant: request_start_task does not ask for a task of that name.
SoGetTaskBlind ==
  /\ soRest.at = "start" /\ SoTaskFree(soRest.obj)
  /\ soRest' = [soRest EXCEPT !.at = "putTask"]
  /\ UNCHANGED <<so, soMgr, soHttp>>

SoGetTask ==
  /\ soRest.at = "start" /\ SoTaskFree(soRest.obj)
  /\ soRest' = IF SoTaskAt(soRest.obj, soRest.name) # 0 THEN SoIdle
               ELSE [soRest EXCEPT !.at = "putTask"]
  /\ UNCHANGED <<so, soMgr, soHttp>>

SoPutTask ==
  /\ soRest.at = "putTask" /\ SoTaskFree(soRest.obj)
  /\ so' = SoNewTask(soRest.obj, soRest.name)
  /\ soRest' = SoIdle
  /\ UNCHANGED <<soMgr, soHttp>>

\* The loop body of DelFromTaskQue: Stop() and erase of one task.
SoTaskStopped(s, o, at) ==
  [s EXCEPT !.state[s.tasks[o][at]] = "stopped", !.tasks[o] = RemoveAt(@, at)]

\* DelFromTaskQue(name)
SoDelTask ==
  /\ soRest.at = "stop" /\ SoTaskFree(soRest.obj)
  /\ LET at == SoTaskAt(soRest.obj, soRest.name)
     IN  so' = IF at = 0 THEN so ELSE SoTaskStopped(so, soRest.obj, at)
  /\ soRest' = SoIdle
  /\ UNCHANGED <<soMgr, soHttp>>

\* DelFromTaskQue("all") leaves its loop behind the first task.
SoDelAll(s, o) == IF s.tasks[o] = <<>> THEN s ELSE SoTaskStopped(s, o, 1)

\* DelFromObjQue.  The tasks that are left are in no list any more.
SoDelObj ==
  /\ soRest.at = "get" /\ soRest.kind = "del" /\ SoObjFree
  /\ LET at == SoObj(soRest.id)
         o == so.objs[at]
     IN  so' = IF at = 0 THEN so
               ELSE [SoDelAll(so, o) EXCEPT !.objs = RemoveAt(@, at),
                                            !.dropped = @ \cup {so.tasks[o][m] : m \in 2..Len(so.tasks[o])}]
  /\ soRest' = SoIdle
  /\ UNCHANGED <<soMgr, soHttp>>

-----------------------------------------------------------------------------
(* ObjManager *)

SoPass ==
  /\ so.on /\ soMgr.at = "sleep"
  /\ soMgr' = [at |-> "obj", i |-> 1, j |-> 1]
  /\ UNCHANGED <<so, soRest, soHttp>>

SoTraverse ==
  /\ soMgr.at = "obj"
  /\ soMgr' = IF soMgr.i > Len(so.objs) THEN [at |-> "sleep", i |-> 0, j |-> 0]
              ELSE [soMgr EXCEPT !.at = "task", !.j = 1]
  /\ UNCHANGED <<so, soRest, soHttp>>

\* Mutant: a task is started once and never again.
SoDeadNew(k) == so.state[k] = "new"

\* KeepAlive() returns false.
SoDead(k) == so.state[k] # "running"

\* Stop(true) and Start() of a task that is not alive.  Start fails as long
\* as the pipeline does not support the task.
SoKeepAlive ==
  /\ soMgr.at = "task"
  /\ LET list == so.tasks[so.objs[soMgr.i]]
     IN  IF soMgr.j > Len(list)
         THEN soMgr' = [soMgr EXCEPT !.at = "obj", !.i = @ + 1] /\ so' = so
         ELSE /\ soMgr' = [soMgr EXCEPT !.j = @ + 1]
              /\ so' = IF SoDead(list[soMgr.j]) /\ so.alg
                       THEN [so EXCEPT !.state[list[soMgr.j]] = "running"] ELSE so
  /\ UNCHANGED <<soRest, soHttp>>

-----------------------------------------------------------------------------
(* StartHttpfileTask *)

\* while (config->GetOutput() == nullptr) sleep(1)
SoOutputSet ==
  /\ so.on /\ soHttp.at = "output" /\ so.output
  /\ soHttp' = [soHttp EXCEPT !.at = "alg"]
  /\ UNCHANGED <<so, soRest, soMgr>>

\* The task is supported, or eleven seconds have passed; at the end of the
\* list the thread ends.
SoHttpWaits ==
  /\ soHttp.at = "alg"
  /\ soHttp' = [soHttp EXCEPT !.at = IF soHttp.i > Len(SoHttp) THEN "ended" ELSE "put"]
  /\ UNCHANGED <<so, soRest, soMgr>>

SoHttpPuts ==
  /\ soHttp.at = "put" /\ SoObjFree
  /\ so' = SoNewObj(SoHttpId(soHttp.i))
  /\ soHttp' = [soHttp EXCEPT !.at = "putTask", !.obj = Len(so'.ids)]
  /\ UNCHANGED <<soRest, soMgr>>

SoHttpStarts ==
  /\ soHttp.at = "putTask" /\ SoTaskFree(soHttp.obj)
  /\ so' = SoNewTask(soHttp.obj, SoHttp[soHttp.i])
  /\ soHttp' = [at |-> "alg", i |-> soHttp.i + 1, obj |-> 0]
  /\ UNCHANGED <<soRest, soMgr>>

-----------------------------------------------------------------------------
\* A task stops serving by itself: its heartbeat ceases.
SoDies(k) ==
  /\ so.on /\ so.died < SoDeaths /\ so.state[k] = "running"
  /\ so' = [so EXCEPT !.state[k] = "silent", !.died = @ + 1]
  /\ UNCHANGED <<soRest, soMgr, soHttp>>

\* AlgThread has read the configuration of the tasks.
SoAlgLoaded ==
  /\ so.on /\ ~so.alg
  /\ so' = [so EXCEPT !.alg = TRUE]
  /\ UNCHANGED <<soRest, soMgr, soHttp>>

SoRestThread ==
  SoGetObj \/ SoPutObj \/ SoGetTask \/ SoPutTask \/ SoDelTask \/ SoDelObj

SoManager == SoPass \/ SoTraverse \/ SoKeepAlive
SoHttpThread == SoOutputSet \/ SoHttpWaits \/ SoHttpPuts \/ SoHttpStarts

SoNext ==
  \/ \E id \in SoId :
       \/ SoRequest("add", id, "") \/ SoRequest("del", id, "")
       \/ \E name \in SoName : SoRequest("start", id, name) \/ SoRequest("stop", id, name)
  \/ SoRequest("output", 0, "")
  \/ SoRestThread \/ SoManager \/ SoHttpThread
  \/ \E k \in DOMAIN so.state : SoDies(k)
  \/ SoAlgLoaded

SoSpec == (\E on \in BOOLEAN : SoInitial(on)) /\ [][SoNext]_soVars

\* The threads run, the lock is fair enough for a request to get it between
\* two passes, and the pipeline is read.
SoFairness ==
  /\ WF_soVars(SoManager) /\ SF_soVars(SoRestThread) /\ SF_soVars(SoHttpThread)
  /\ WF_soVars(SoAlgLoaded)

-----------------------------------------------------------------------------
(* Properties *)

SoListed == UNION {Range(so.tasks[o]) : o \in Range(so.objs)}

\* No object id and no task of an object is there twice, although the test and
\* the put of request_add_rtsp and request_start_task are in two critical
\* sections and another thread adds objects as well.
SoListsExact ==
  /\ \A i, j \in DOMAIN so.objs : so.ids[so.objs[i]] = so.ids[so.objs[j]] => i = j
  /\ \A o \in Range(so.objs) : \A i, j \in DOMAIN so.tasks[o] :
       so.names[so.tasks[o][i]] = so.names[so.tasks[o][j]] => i = j

\* A task that runs is in the list of an object that is listed, or was behind
\* the first task of an object that was deleted: nothing else is lost
\* (DelFromTaskQue, DelFromObjQue, Put2TaskQue).
SoOrphansAreDropped ==
  \A k \in DOMAIN so.state : so.state[k] = "running" => k \in SoListed \cup so.dropped

\* What was stopped stays stopped: ObjManager, which restarts whatever is not
\* alive, may be anywhere in its pass when the stop comes
\* (Object::TraverseTaskQue, Object::DelFromTaskQue).
SoStoppedStays ==
  [][\A k \in DOMAIN so.state : so.state[k] = "stopped" => so'.state[k] = "stopped"]_soVars

\* A task that is asked for runs in the end, and again when it died, unless it
\* is taken out (ObjManager; the http file tasks of StartHttpfileTask too).
SoTasksRun ==
  \A k \in 1..(SoRequests + Len(SoHttp)) :
    (k \in DOMAIN so.state /\ k \in SoListed)
      ~> (k \in DOMAIN so.state /\ (so.state[k] = "running" \/ k \notin SoListed))

\* The table of objects and the lists of tasks hold everything once, and whatever
\* runs is in them.
SoSafe == SoListsExact /\ SoOrphansAreDropped

\* ObjManager brings every listed task to run, and none back that was stopped.
SoTasksManaged == SoTasksRun /\ SoStoppedStays
=============================================================================
