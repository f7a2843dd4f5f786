-------------------------------- MODULE Cluster --------------------------------
(***************************************************************************)
(* The master (master.cpp) and its slaves (rest_slave.cpp). Three threads  *)
(* of the master share its tables: SlaveThread probes every slave, and     *)
(* holds m_slave_mtx while it does; ObjThread gives every object without a *)
(* slave to one, and holds m_obj_mtx while it does; the REST thread serves *)
(* the client's requests and keeps the database. A slave may crash and     *)
(* come back empty, and an HTTP call may lose its request or its answer.   *)
(*                                                                         *)
(* A slave:                                                                *)
(* up, sysInit  it runs; media->system_init                                *)
(* outp         it has been sent the output parameters                     *)
(* has, runs    its objects; the tasks <<o, k>> in their task_vec          *)
(* The master:                                                             *)
(* alive, offline, load   SlaveParam::alive, offline_cnt, total_load       *)
(* mobj, mtasks, slaveOf  m_obj_vec; an object's m_task_vec and slave      *)
(* slaveMtx, objMtx       the holders of the two mutexes                   *)
(* sth, oth, rth          where the three threads are                      *)
(* The database: dbObj, the names in the stored tasks of each, dbTasks.    *)
(* crashes, losses, requests   bounded by MaxCrash, MaxLoss, MaxRequest    *)
(***************************************************************************)
EXTENDS Integers, Sequences, FiniteSets

CONSTANTS
  SlaveVec,    \* m_slave_vec: the registered slaves, in order
  Obj, Task,   \* the object ids and the task names of the requests
  NoSlave,     \* obj->slave == nullptr
  InitTasks,   \* m_task_vec of each object at the start
  Assigned,    \* whether those objects already run on the first slave
  ObjMax,      \* objects a slave takes at a load of 100
  LoadMax,     \* SLAVE_LOAD_MAX
  OfflineMax, OfflineMod,   \* after so many failures, probe only now and then
  MaxCrash, MaxLoss, MaxRequest

Slave == {SlaveVec[i] : i \in 1..Len(SlaveVec)}

ASSUME SlaveAssumption ==
  SlaveVec \in Seq(Slave) /\ Len(SlaveVec) >= 1 /\ NoSlave \notin Slave
ASSUME ObjAssumption == InitTasks \in [Obj -> Seq(Task)] /\ Assigned \in BOOLEAN
ASSUME LoadAssumption == ObjMax \in Nat \ {0} /\ LoadMax \in Nat
ASSUME OfflineAssumption == OfflineMax \in Nat /\ OfflineMod \in Nat \ {0}
ASSUME BoundAssumption == MaxCrash \in Nat /\ MaxLoss \in Nat /\ MaxRequest \in Nat

VARIABLES up, sysInit, outp, has, runs,
          alive, offline, load, mobj, mtasks, slaveOf,
          dbObj, dbTasks, slaveMtx, objMtx, sth, oth, rth,
          crashes, losses, requests

nodeVars == <<up, sysInit, outp, has, runs>>
slaveTab == <<alive, offline, load>>
objTab == <<mobj, mtasks, slaveOf>>
db == <<dbObj, dbTasks>>
bounds == <<crashes, losses, requests>>
vars == <<up, sysInit, outp, has, runs, alive, offline, load, mobj, mtasks, slaveOf,
          dbObj, dbTasks, slaveMtx, objMtx, sth, oth, rth, crashes, losses, requests>>

Set(s) == {s[i] : i \in 1..Len(s)}
Load(n) == (n * 100) \div ObjMax
InitObj == {o \in Obj : InitTasks[o] # <<>>}

SIdle == [at |-> "idle", i |-> 1, then |-> "none"]
OIdle == [at |-> "idle", todo |-> {}, o |-> NoSlave, s |-> NoSlave, i |-> 1]
RIdle == [at |-> "idle", op |-> "none", o |-> NoSlave, k |-> NoSlave, s |-> NoSlave]

\* The master has loaded its tables (MasterParams::Start): objects with tasks
\* that either run on the first slave or have not been given to any yet.
Init ==
  LET first == SlaveVec[1]
      held(s) == IF Assigned /\ s = first THEN InitObj ELSE {}
  IN
  /\ up = [s \in Slave |-> TRUE] /\ sysInit = [s \in Slave |-> TRUE]
  /\ outp = [s \in Slave |-> TRUE]
  /\ has = [s \in Slave |-> held(s)]
  /\ runs = [s \in Slave |-> {r \in held(s) \X Task : r[2] \in Set(InitTasks[r[1]])}]
  /\ alive = [s \in Slave |-> TRUE] /\ offline = [s \in Slave |-> 0]
  /\ load = [s \in Slave |-> Load(Cardinality(held(s)))]
  /\ mobj = InitObj
  /\ mtasks = InitTasks
  /\ slaveOf = [o \in Obj |-> IF Assigned /\ o \in InitObj THEN first ELSE NoSlave]
  /\ dbObj = InitObj /\ dbTasks = [o \in Obj |-> Set(InitTasks[o])]
  /\ slaveMtx = "free" /\ objMtx = "free"
  /\ sth = SIdle /\ oth = OIdle /\ rth = RIdle
  /\ crashes = 0 /\ losses = 0 /\ requests = 0

-----------------------------------------------------------------------------
(* HTTP and the slaves.                                                    *)

\* HttpClient: the call is answered; or it is carried out and the answer does not
\* arrive in time; or the slave never gets it. ack.buf is null but for the first.
Fates == {"acked", "done", "lost"}
Http(s, fate) ==
  /\ fate = "lost" \/ up[s]
  /\ IF up[s] /\ fate # "acked"
       THEN losses < MaxLoss /\ losses' = losses + 1
       ELSE UNCHANGED losses
Executed(fate) == fate # "lost"

\* A slave process dies and loses everything; its supervisor starts a new one.
SlaveCrash(s) ==
  /\ up[s] /\ crashes < MaxCrash
  /\ crashes' = crashes + 1
  /\ up' = [up EXCEPT ![s] = FALSE]
  /\ sysInit' = [sysInit EXCEPT ![s] = FALSE]
  /\ outp' = [outp EXCEPT ![s] = FALSE]
  /\ has' = [has EXCEPT ![s] = {}]
  /\ runs' = [runs EXCEPT ![s] = {}]
  /\ UNCHANGED <<slaveTab, objTab, db, slaveMtx, objMtx, sth, oth, rth, losses, requests>>

SlaveRestart(s) ==
  /\ ~up[s]
  /\ up' = [up EXCEPT ![s] = TRUE]
  /\ UNCHANGED <<sysInit, outp, has, runs, slaveTab, objTab, db, slaveMtx, objMtx,
                 sth, oth, rth, bounds>>

\* The slave's request_add_rtsp answers with its load only when the object is new.
AddReply(s, o) ==
  load' = [load EXCEPT ![s] = IF o \in has[s] THEN @ ELSE Load(Cardinality(has[s]) + 1)]

\* The slave's request_start_task needs the object and ignores a task it has.
TaskStarted(s, o, k) == IF o \in has[s] THEN runs[s] \cup {<<o, k>>} ELSE runs[s]

\* The slave's request_del_obj and request_stop_task.
ObjDeleted(s, o) ==
  /\ has' = [has EXCEPT ![s] = @ \ {o}]
  /\ runs' = [runs EXCEPT ![s] = {r \in @ : r[1] # o}]
TaskStopped(s, o, k) == runs' = [runs EXCEPT ![s] = @ \ {<<o, k>>}] /\ UNCHANGED has

\* The slave's request_system_init and request_set_output.
Initialised(s) == [sysInit EXCEPT ![s] = TRUE]
OutputSet(s) == [outp EXCEPT ![s] = TRUE]

-----------------------------------------------------------------------------
(* SlaveThread.                                                            *)

SlaveThreadLocks ==
  /\ sth.at = "idle" /\ slaveMtx = "free"
  /\ slaveMtx' = "slaveThread"
  /\ sth' = [SIdle EXCEPT !.at = "probe"]
  /\ UNCHANGED <<nodeVars, slaveTab, objTab, db, objMtx, oth, rth, bounds>>

\* The next slave, or the end of the pass.
SlaveThreadNext ==
  IF sth.i < Len(SlaveVec)
    THEN sth' = [SIdle EXCEPT !.at = "probe", !.i = sth.i + 1] /\ UNCHANGED slaveMtx
    ELSE sth' = SIdle /\ slaveMtx' = "free"

Skipped(s) == offline[s] > OfflineMax /\ offline[s] % OfflineMod # 0

SkipProbe ==
  /\ sth.at = "probe" /\ Skipped(SlaveVec[sth.i])
  /\ SlaveThreadNext
  /\ UNCHANGED <<nodeVars, slaveTab, objTab, db, objMtx, oth, rth, bounds>>

\* No answer: the third in a row makes the slave offline, and takes its objects
\* away from it first.
ProbeFails ==
  /\ sth.at = "probe"
  /\ LET s == SlaveVec[sth.i] IN
       /\ ~Skipped(s)
       /\ \E fate \in {"done", "lost"} : Http(s, fate)
       /\ offline' = [offline EXCEPT ![s] = @ + 1]
       /\ IF offline[s] + 1 >= 3 /\ alive[s]
            THEN sth' = [sth EXCEPT !.at = "reset", !.then = "offline"] /\ UNCHANGED slaveMtx
            ELSE SlaveThreadNext
  /\ UNCHANGED <<nodeVars, alive, load, objTab, db, objMtx, oth, rth, crashes, requests>>

\* An answer of a slave that was offline, or of one that has been restarted, calls
\* for SlaveSystemInit.
ProbeAnswers ==
  /\ sth.at = "probe"
  /\ LET s == SlaveVec[sth.i] IN
       /\ ~Skipped(s)
       /\ Http(s, "acked")
       /\ IF ~alive[s] \/ ~sysInit[s]
            THEN /\ sth' = [sth EXCEPT !.at = "init",
                                       !.then = IF alive[s] THEN "restarted" ELSE "online"]
                 /\ UNCHANGED <<offline, slaveMtx>>
            ELSE /\ offline' = [offline EXCEPT ![s] = 0]
                 /\ SlaveThreadNext
  /\ UNCHANGED <<nodeVars, alive, load, objTab, db, objMtx, oth, rth, crashes, requests>>

\* After SlaveSystemInit: ResetSlaveObj only for a slave that was not offline.
AfterInit == IF sth.then = "restarted" THEN "reset" ELSE "alive"

\* Mutant of SystemInit: SlaveSystemInit returns after its first call.
SystemInitOnly ==
  /\ sth.at = "init"
  /\ LET s == SlaveVec[sth.i] IN
       \E fate \in Fates :
         /\ Http(s, fate)
         /\ sysInit' = IF Executed(fate) THEN Initialised(s) ELSE sysInit
         /\ alive' = [alive EXCEPT ![s] = (fate = "acked")]
  /\ sth' = [sth EXCEPT !.at = AfterInit]
  /\ UNCHANGED <<up, outp, has, runs, offline, load, objTab, db, slaveMtx, objMtx, oth, rth,
                 crashes, requests>>

\* SlaveSystemInit, its first call: without an answer alive is cleared, and the
\* output parameters are not sent.
SystemInit ==
  /\ sth.at = "init"
  /\ LET s == SlaveVec[sth.i] IN
       \E fate \in Fates :
         /\ Http(s, fate)
         /\ sysInit' = IF Executed(fate) THEN Initialised(s) ELSE sysInit
         /\ alive' = [alive EXCEPT ![s] = (fate = "acked")]
         /\ sth' = [sth EXCEPT !.at = IF fate = "acked" THEN "output" ELSE AfterInit]
  /\ UNCHANGED <<up, outp, has, runs, offline, load, objTab, db, slaveMtx, objMtx, oth, rth,
                 crashes, requests>>

\* Its second call, whose answer is not looked at.
SetOutput ==
  /\ sth.at = "output"
  /\ LET s == SlaveVec[sth.i] IN
       \E fate \in Fates :
         /\ Http(s, fate)
         /\ outp' = IF Executed(fate) THEN OutputSet(s) ELSE outp
  /\ sth' = [sth EXCEPT !.at = AfterInit]
  /\ UNCHANGED <<up, sysInit, has, runs, slaveTab, objTab, db, slaveMtx, objMtx, oth, rth,
                 crashes, requests>>

\* Mutants of ResetSlaveObj: the objects stay with the slave; m_obj_mtx is not
\* taken.
ResetSlaveObjNone ==
  /\ sth.at = "reset" /\ objMtx = "free"
  /\ sth' = [sth EXCEPT !.at = IF sth.then = "offline" THEN "dead" ELSE "alive"]
  /\ UNCHANGED <<nodeVars, slaveTab, objTab, db, slaveMtx, objMtx, oth, rth, bounds>>

ResetSlaveObjUnlocked ==
  /\ sth.at = "reset"
  /\ slaveOf' = [o \in Obj |->
                   IF o \in mobj /\ slaveOf[o] = SlaveVec[sth.i] THEN NoSlave ELSE slaveOf[o]]
  /\ sth' = [sth EXCEPT !.at = IF sth.then = "offline" THEN "dead" ELSE "alive"]
  /\ UNCHANGED <<nodeVars, slaveTab, mobj, mtasks, db, slaveMtx, objMtx, oth, rth, bounds>>

\* ResetSlaveObj takes m_obj_mtx.
ResetSlaveObj ==
  /\ sth.at = "reset" /\ objMtx = "free"
  /\ slaveOf' = [o \in Obj |->
                   IF o \in mobj /\ slaveOf[o] = SlaveVec[sth.i] THEN NoSlave ELSE slaveOf[o]]
  /\ sth' = [sth EXCEPT !.at = IF sth.then = "offline" THEN "dead" ELSE "alive"]
  /\ UNCHANGED <<nodeVars, slaveTab, mobj, mtasks, db, slaveMtx, objMtx, oth, rth, bounds>>

\* The end of UpdateSlaveStatus.
MarkOffline ==
  /\ sth.at = "dead"
  /\ alive' = [alive EXCEPT ![SlaveVec[sth.i]] = FALSE]
  /\ SlaveThreadNext
  /\ UNCHANGED <<nodeVars, offline, load, objTab, db, objMtx, oth, rth, bounds>>

MarkAlive ==
  /\ sth.at = "alive"
  /\ alive' = [alive EXCEPT ![SlaveVec[sth.i]] = TRUE]
  /\ offline' = [offline EXCEPT ![SlaveVec[sth.i]] = 0]
  /\ SlaveThreadNext
  /\ UNCHANGED <<nodeVars, load, objTab, db, objMtx, oth, rth, bounds>>

SlaveThread ==
  \/ SlaveThreadLocks \/ SkipProbe \/ ProbeFails \/ ProbeAnswers \/ SystemInit \/ SetOutput
  \/ ResetSlaveObj \/ MarkOffline \/ MarkAlive

-----------------------------------------------------------------------------
(* AssignObjToSlave, called by ObjThread and by the REST thread.           *)

Eligible == {i \in 1..Len(SlaveVec) : alive[SlaveVec[i]] /\ load[SlaveVec[i]] < LoadMax}

\* GetLowestSlave: the first of the slaves with the least load.
Lowest(i) ==
  /\ i \in Eligible
  /\ \A j \in Eligible : \/ load[SlaveVec[i]] < load[SlaveVec[j]]
                         \/ load[SlaveVec[i]] = load[SlaveVec[j]] /\ i <= j

\* POST /api/obj/add to slave s: an answer makes s the object's slave, no answer
\* makes s offline.
AssignObj(s, o, fate) ==
  /\ Http(s, fate)
  /\ has' = [has EXCEPT ![s] = IF Executed(fate) THEN @ \cup {o} ELSE @]
  /\ IF fate = "acked"
       THEN /\ AddReply(s, o)
            /\ slaveOf' = [slaveOf EXCEPT ![o] = s]
            /\ UNCHANGED alive
       ELSE /\ alive' = [alive EXCEPT ![s] = FALSE]
            /\ UNCHANGED <<load, slaveOf>>

\* POST /api/task/start, whose answer is not looked at.
PostStart(s, o, k) ==
  \E fate \in Fates :
    /\ Http(s, fate)
    /\ runs' = [runs EXCEPT ![s] = IF Executed(fate) THEN TaskStarted(s, o, k) ELSE @]

-----------------------------------------------------------------------------
(* ObjThread.                                                              *)

ObjThreadLocks ==
  /\ oth.at = "idle" /\ objMtx = "free"
  /\ objMtx' = "objThread"
  /\ oth' = [OIdle EXCEPT !.at = "next", !.todo = mobj]
  /\ UNCHANGED <<nodeVars, slaveTab, objTab, db, slaveMtx, sth, rth, bounds>>

\* UpdateObjTask returns at once for an object without tasks and for one whose
\* slave is alive.
NeedsSlave(o) == mtasks[o] # <<>> /\ (slaveOf[o] = NoSlave \/ ~alive[slaveOf[o]])

UpdateObjTask ==
  /\ oth.at = "next"
  /\ \E o \in oth.todo :
       oth' = IF NeedsSlave(o)
                THEN [oth EXCEPT !.at = "lowest", !.o = o, !.todo = @ \ {o}]
                ELSE [oth EXCEPT !.todo = @ \ {o}]
  /\ UNCHANGED <<nodeVars, slaveTab, objTab, db, slaveMtx, objMtx, sth, rth, bounds>>

\* GetLowestSlave takes m_slave_mtx.
ObjThreadChooses ==
  /\ oth.at = "lowest" /\ slaveMtx = "free"
  /\ \/ \E i \in 1..Len(SlaveVec) :
          /\ Lowest(i)
          /\ oth' = [oth EXCEPT !.at = "assign", !.s = SlaveVec[i]]
     \/ /\ Eligible = {}
        /\ oth' = [OIdle EXCEPT !.at = "next", !.todo = oth.todo]
  /\ UNCHANGED <<nodeVars, slaveTab, objTab, db, slaveMtx, objMtx, sth, rth, bounds>>

ObjThreadAssigns ==
  /\ oth.at = "assign"
  /\ \E fate \in Fates :
       /\ AssignObj(oth.s, oth.o, fate)
       /\ oth' = IF fate = "acked"
                   THEN [oth EXCEPT !.at = "start", !.i = 1]
                   ELSE [OIdle EXCEPT !.at = "next", !.todo = oth.todo]
  /\ UNCHANGED <<up, sysInit, outp, runs, offline, mobj, mtasks, db, slaveMtx, objMtx,
                 sth, rth, crashes, requests>>

\* HttpStart for every task, under the object's m_task_mtx; nothing is sent to a
\* slave that has been found dead meanwhile.
ObjThreadStarts ==
  /\ oth.at = "start" /\ oth.i <= Len(mtasks[oth.o])
  /\ IF alive[slaveOf[oth.o]]
       THEN PostStart(slaveOf[oth.o], oth.o, mtasks[oth.o][oth.i])
       ELSE UNCHANGED <<runs, losses>>
  /\ oth' = [oth EXCEPT !.i = @ + 1]
  /\ UNCHANGED <<up, sysInit, outp, has, slaveTab, objTab, db, slaveMtx, objMtx, sth, rth,
                 crashes, requests>>

ObjThreadStarted ==
  /\ oth.at = "start" /\ oth.i > Len(mtasks[oth.o])
  /\ oth' = [OIdle EXCEPT !.at = "next", !.todo = oth.todo]
  /\ UNCHANGED <<nodeVars, slaveTab, objTab, db, slaveMtx, objMtx, sth, rth, bounds>>

ObjThreadUnlocks ==
  /\ oth.at = "next" /\ oth.todo = {}
  /\ objMtx' = "free"
  /\ oth' = OIdle
  /\ UNCHANGED <<nodeVars, slaveTab, objTab, db, slaveMtx, sth, rth, bounds>>

ObjThread ==
  \/ ObjThreadLocks \/ UpdateObjTask \/ ObjThreadChooses \/ ObjThreadAssigns
  \/ ObjThreadStarts \/ ObjThreadStarted \/ ObjThreadUnlocks

-----------------------------------------------------------------------------
(* The REST thread of the master: one request at a time.                   *)

\* request_add_rtsp and request_add_rtmp: an id that exists is refused.
RequestAddObj ==
  /\ rth.at = "idle" /\ requests < MaxRequest /\ objMtx = "free"
  /\ \E o \in Obj \ mobj :
       /\ mobj' = mobj \cup {o}
       /\ mtasks' = [mtasks EXCEPT ![o] = <<>>]
       /\ slaveOf' = [slaveOf EXCEPT ![o] = NoSlave]
       /\ rth' = [RIdle EXCEPT !.at = "db", !.op = "add", !.o = o]
  /\ requests' = requests + 1
  /\ UNCHANGED <<nodeVars, slaveTab, db, slaveMtx, objMtx, sth, oth, crashes, losses>>

\* The other requests look the object up under m_obj_mtx and go on without it.
RequestOnObj ==
  /\ rth.at = "idle" /\ requests < MaxRequest /\ objMtx = "free"
  /\ \E o \in mobj, k \in Task :
       \/ rth' = [RIdle EXCEPT !.at = "stop", !.op = "del", !.o = o]
       \/ rth' = [RIdle EXCEPT !.at = "tasks", !.op = "start", !.o = o, !.k = k]
       \/ rth' = [RIdle EXCEPT !.at = "tasks", !.op = "stop", !.o = o, !.k = k]
  /\ requests' = requests + 1
  /\ UNCHANGED <<nodeVars, slaveTab, objTab, db, slaveMtx, objMtx, sth, oth, crashes, losses>>

Without(s, n) == SubSeq(s, 1, n - 1) \o SubSeq(s, n + 1, Len(s))

\* AddTask, or DelTask of the first task of that name, under m_task_mtx, which
\* ObjThread holds while it starts the object's tasks. AddTask does not look for
\* a task of that name; stopping one that is not there is an error.
EditTasks ==
  /\ rth.at = "tasks"
  /\ ~(oth.at = "start" /\ oth.o = rth.o)
  /\ LET ts == mtasks[rth.o] IN
       \/ /\ rth.op = "start"
          /\ mtasks' = [mtasks EXCEPT ![rth.o] = Append(@, rth.k)]
          /\ rth' = [rth EXCEPT !.at = "check"]
       \/ /\ rth.op = "stop"
          /\ \E n \in 1..Len(ts) :
               /\ ts[n] = rth.k /\ \A m \in 1..n-1 : ts[m] # rth.k
               /\ mtasks' = [mtasks EXCEPT ![rth.o] = Without(@, n)]
          /\ rth' = [rth EXCEPT !.at = "stop"]
       \/ /\ rth.op = "stop" /\ rth.k \notin Set(ts)
          /\ rth' = RIdle
          /\ UNCHANGED mtasks
  /\ UNCHANGED <<nodeVars, slaveTab, mobj, slaveOf, db, slaveMtx, objMtx, sth, oth, bounds>>

\* HttpStart: AssignObjToSlave for an object without a slave.
RestStartChecks ==
  /\ rth.at = "check"
  /\ rth' = [rth EXCEPT !.at = IF slaveOf[rth.o] = NoSlave THEN "lowest" ELSE "start"]
  /\ UNCHANGED <<nodeVars, slaveTab, objTab, db, slaveMtx, objMtx, sth, oth, bounds>>

\* GetLowestSlave takes m_slave_mtx. Its failure leaves the task for ObjThread.
RestChooses ==
  /\ rth.at = "lowest" /\ slaveMtx = "free"
  /\ \/ \E i \in 1..Len(SlaveVec) :
          /\ Lowest(i)
          /\ rth' = [rth EXCEPT !.at = "assign", !.s = SlaveVec[i]]
     \/ /\ Eligible = {}
        /\ rth' = [rth EXCEPT !.at = "db"]
  /\ UNCHANGED <<nodeVars, slaveTab, objTab, db, slaveMtx, objMtx, sth, oth, bounds>>

\* Mutant of RestAssigns: the task is not started on the new slave.
RestAssignsOnly ==
  /\ rth.at = "assign"
  /\ \E fate \in Fates : AssignObj(rth.s, rth.o, fate)
  /\ rth' = [rth EXCEPT !.at = "db"]
  /\ UNCHANGED <<up, sysInit, outp, runs, offline, mobj, mtasks, db, slaveMtx, objMtx,
                 sth, oth, crashes, requests>>

RestAssigns ==
  /\ rth.at = "assign"
  /\ \E fate \in Fates :
       /\ AssignObj(rth.s, rth.o, fate)
       /\ rth' = [rth EXCEPT !.at = IF fate = "acked" THEN "start" ELSE "db"]
  /\ UNCHANGED <<up, sysInit, outp, runs, offline, mobj, mtasks, db, slaveMtx, objMtx,
                 sth, oth, crashes, requests>>

\* The task goes to the object's slave, if that is alive.
RestStarts ==
  /\ rth.at = "start" /\ slaveOf[rth.o] # NoSlave
  /\ IF alive[slaveOf[rth.o]]
       THEN PostStart(slaveOf[rth.o], rth.o, rth.k)
       ELSE UNCHANGED <<runs, losses>>
  /\ rth' = [rth EXCEPT !.at = "db"]
  /\ UNCHANGED <<up, sysInit, outp, has, slaveTab, objTab, db, slaveMtx, objMtx, sth, oth,
                 crashes, requests>>

\* HttpStop: nothing without a slave.
AfterStop == IF rth.op = "del" THEN "erase" ELSE "db"
RestStopChecks ==
  /\ rth.at = "stop"
  /\ rth' = [rth EXCEPT !.at = IF slaveOf[rth.o] = NoSlave THEN AfterStop ELSE "post"]
  /\ UNCHANGED <<nodeVars, slaveTab, objTab, db, slaveMtx, objMtx, sth, oth, bounds>>

\* Only to a slave that is alive; the answer does not matter, the slave's
\* /api/obj/del sends no load.
RestStopPosts ==
  /\ rth.at = "post" /\ slaveOf[rth.o] # NoSlave
  /\ LET s == slaveOf[rth.o] IN
       IF alive[s]
         THEN \E fate \in Fates :
                /\ Http(s, fate)
                /\ IF ~Executed(fate) THEN UNCHANGED <<has, runs>>
                   ELSE IF rth.op = "del" THEN ObjDeleted(s, rth.o)
                   ELSE TaskStopped(s, rth.o, rth.k)
         ELSE UNCHANGED <<has, runs, losses>>
  /\ rth' = [rth EXCEPT !.at = AfterStop]
  /\ UNCHANGED <<up, sysInit, outp, slaveTab, objTab, db, slaveMtx, objMtx, sth, oth,
                 crashes, requests>>

\* ResetSlaveObj may have taken the slave from the object since HttpStart found or
\* made one, or HttpStop found one: obj->slave->alive is then read through a null
\* pointer.
RestNullSlave ==
  /\ rth.at \in {"start", "post"} /\ slaveOf[rth.o] = NoSlave
  /\ rth' = [rth EXCEPT !.at = "segv"]
  /\ UNCHANGED <<nodeVars, slaveTab, objTab, db, slaveMtx, objMtx, sth, oth, bounds>>

\* Mutant of RestErases: the object stays in m_obj_vec.
RestErasesNothing ==
  /\ rth.at = "erase" /\ objMtx = "free"
  /\ rth' = [rth EXCEPT !.at = "db"]
  /\ UNCHANGED <<nodeVars, slaveTab, objTab, db, slaveMtx, objMtx, sth, oth, bounds>>

\* MDelObj takes m_obj_mtx.
RestErases ==
  /\ rth.at = "erase" /\ objMtx = "free"
  /\ mobj' = mobj \ {rth.o}
  /\ rth' = [rth EXCEPT !.at = "db"]
  /\ UNCHANGED <<nodeVars, slaveTab, mtasks, slaveOf, db, slaveMtx, objMtx, sth, oth, bounds>>

\* The database: DBUpdate stores an object, $push appends a task, $pull removes
\* every task that equals the one of the request, so that it does not matter how
\* often one is stored, DBDel removes the object.
DBUpdate(o) == dbObj' = dbObj \cup {o} /\ dbTasks' = [dbTasks EXCEPT ![o] = {}]
DBPush(o, k) == dbTasks' = [dbTasks EXCEPT ![o] = @ \cup {k}] /\ UNCHANGED dbObj
DBPull(o, k) == dbTasks' = [dbTasks EXCEPT ![o] = @ \ {k}] /\ UNCHANGED dbObj
DBDel(o) == dbObj' = dbObj \ {o} /\ dbTasks' = [dbTasks EXCEPT ![o] = {}]

\* The database comes last.
RestSaves ==
  /\ rth.at = "db"
  /\ \/ rth.op = "add" /\ DBUpdate(rth.o)
     \/ rth.op = "start" /\ DBPush(rth.o, rth.k)
     \/ rth.op = "stop" /\ DBPull(rth.o, rth.k)
     \/ rth.op = "del" /\ DBDel(rth.o)
  /\ rth' = RIdle
  /\ UNCHANGED <<nodeVars, slaveTab, objTab, slaveMtx, objMtx, sth, oth, bounds>>

RestThread ==
  \/ EditTasks \/ RestStartChecks \/ RestChooses \/ RestAssigns \/ RestStarts
  \/ RestStopChecks \/ RestStopPosts \/ RestNullSlave \/ RestErases \/ RestSaves

-----------------------------------------------------------------------------

\* A segmentation fault ends all three threads.
MasterUp == rth.at # "segv"

Next ==
  \/ /\ MasterUp
     /\ SlaveThread \/ ObjThread \/ RestThread \/ RequestAddObj \/ RequestOnObj
  \/ \E s \in Slave : SlaveCrash(s) \/ SlaveRestart(s)

Spec == Init /\ [][Next]_vars

\* The scheduler runs the three threads. A thread that wants a mutex gets it in
\* the end, because the one that holds it sleeps for seconds between two passes;
\* a supervisor starts a dead slave again.
Fairness ==
  /\ SF_vars(MasterUp /\ SlaveThread)
  /\ SF_vars(MasterUp /\ ObjThread)
  /\ SF_vars(MasterUp /\ RestThread)
  /\ \A s \in Slave : WF_vars(SlaveRestart(s))

FairSpec == Spec /\ Fairness

-----------------------------------------------------------------------------
(* Properties.                                                             *)

TypeOK ==
  /\ up \in [Slave -> BOOLEAN] /\ sysInit \in [Slave -> BOOLEAN]
  /\ outp \in [Slave -> BOOLEAN]
  /\ has \in [Slave -> SUBSET Obj] /\ runs \in [Slave -> SUBSET (Obj \X Task)]
  /\ alive \in [Slave -> BOOLEAN] /\ offline \in [Slave -> Nat]
  /\ load \in [Slave -> Nat]
  /\ mobj \subseteq Obj /\ mtasks \in [Obj -> Seq(Task)]
  /\ slaveOf \in [Obj -> Slave \cup {NoSlave}]
  /\ dbObj \subseteq Obj /\ dbTasks \in [Obj -> SUBSET Task]
  /\ slaveMtx \in {"free", "slaveThread"} /\ objMtx \in {"free", "objThread"}
  /\ sth.at \in {"idle", "probe", "init", "output", "reset", "dead", "alive"}
  /\ oth.at \in {"idle", "next", "lowest", "assign", "start"}
  /\ rth.at \in {"idle", "tasks", "check", "lowest", "assign", "start", "stop", "post", "erase", "db", "segv"}

Serves(s, o) == up[s] /\ o \in has[s] /\ \A k \in Set(mtasks[o]) : <<o, k>> \in runs[s]

\* Whatever crashes and restarts, an object with tasks comes to run them, and
\* keeps coming back to run them, on a slave ("configured once, tasks run again
\* by themselves after a restart", README.md:37).
TasksServed ==
  \A o \in Obj : []<>(\/ o \notin mobj \/ mtasks[o] = <<>>
                      \/ \E s \in Slave : Serves(s, o))

\* Without crashes the same holds of an object that requests add, delete and change, as
\* long as no task is started that it already has: of two equal entries of m_task_vec
\* one may be stopped, and the other stays, as a task that no slave runs.
RequestedServed ==
  \A o \in Obj :
    [](\A m, n \in 1..Len(mtasks[o]) : mtasks[o][m] = mtasks[o][n] => m = n) =>
      []<>(\/ o \notin mobj \/ mtasks[o] = <<>>
           \/ \E s \in Slave : Serves(s, o))

\* ObjThread starts the tasks of an object that still has a slave, which it reads
\* through obj->slave without a check: ResetSlaveObj is kept out by m_obj_mtx.
ObjThreadHasSlave == oth.at = "start" => slaveOf[oth.o] # NoSlave

\* A slave that the master gives objects to gets the output parameters, without
\* which its results go nowhere.
SlaveGetsOutput == \A s \in Slave : []<>(~up[s] \/ ~alive[s] \/ outp[s])

\* A task that was stopped does not come back with the database: between two
\* requests every stored task and object is one the master has.
StoredIsConfigured ==
  rth.at = "idle" =>
    /\ dbObj = mobj
    /\ \A o \in dbObj : dbTasks[o] \subseteq Set(mtasks[o])
==============================================================================
