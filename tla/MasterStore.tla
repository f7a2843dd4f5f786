------------------------------ MODULE MasterStore ------------------------------
(***************************************************************************)
(* What the master keeps in its database (db.cpp), and what becomes of it  *)
(* when the master dies and loads it again (MasterParams::Start). Requests *)
(* are taken in the steps between which the master may die; Cluster has    *)
(* the finer steps of the three threads.                                   *)
(*                                                                         *)
(* node[s]   a slave: up, sysInit (media->system_init), outp (its output   *)
(*           parameters), has and runs as in Cluster                       *)
(* mem       MasterParams: phase is where Start is; output, slaves         *)
(*           (m_slave_vec), alive, off (offline_cnt), ids (obj_id_vec),    *)
(*           objs, tasks, home (obj->slave)                                *)
(* store     the collections system, slave and obj                         *)
(* req, objTh  the request that is being served; where ObjThread is        *)
(* asked     the configurations that the client may take for stored: one,  *)
(*           and with it those of requests that were never answered        *)
(* used      the steps so far that are bounded                             *)
(***************************************************************************)
EXTENDS Integers, FiniteSets, SequencesExt

CONSTANTS
  StSlave, StObj, StTask, StOutput,
  StNone,       \* no output parameters, no slave
  StGone,       \* the home of an object whose slave was deleted
  StOffline,    \* the failed probes (3) after which a slave is not alive
  StBound       \* the bounds: request, crash, death, loss, fail

ASSUME StAssumption ==
  /\ StTask # {} /\ StNone \notin StSlave \cup StOutput /\ StGone \notin StSlave \cup {StNone}
  /\ StOffline \in Nat
  /\ StBound \in [{"request", "crash", "death", "loss", "fail"} -> Nat]

VARIABLES node, mem, store, req, objTh, asked, used
stVars == <<node, mem, store, req, objTh, asked, used>>

StUp(what) == used[what] < StBound[what] /\ used' = [used EXCEPT ![what] = @ + 1]

StEmpty == [output |-> StNone, slaves |-> {}, objs |-> {}, tasks |-> [o \in StObj |-> {}]]
StMemory == [phase |-> "down", output |-> StNone, slaves |-> <<>>, alive |-> {},
             off |-> [s \in StSlave |-> 0], ids |-> [s \in StSlave |-> {}],
             objs |-> {}, tasks |-> [o \in StObj |-> <<>>], home |-> [o \in StObj |-> StNone]]
StNode == [up |-> TRUE, sysInit |-> FALSE, outp |-> StNone, has |-> {}, runs |-> {}]
StIdle == [at |-> "idle", op |-> "none", s |-> StNone, o |-> StNone, k |-> StNone]
StRange(q) == {q[i] : i \in 1..Len(q)}

\* The first x of q is erased.
StWithout(q, x) ==
  RemoveAt(q, CHOOSE i \in 1..Len(q) : q[i] = x /\ \A j \in 1..(i - 1) : q[j] # x)

\* An installation with its slaves, and objects that have been given one task.
StInitial ==
  /\ node = [s \in StSlave |-> StNode]
  /\ store = [StEmpty EXCEPT !.slaves = StSlave, !.objs = StObj,
                             !.tasks = [o \in StObj |-> {CHOOSE k \in StTask : TRUE}]]
  /\ mem = StMemory /\ req = StIdle /\ objTh = StIdle
  /\ asked = {store} /\ used = [b \in DOMAIN StBound |-> 0]

-----------------------------------------------------------------------------
(* The slaves, and calls to them.                                          *)

StSlaveDies(s) ==
  /\ node[s].up /\ StUp("crash")
  /\ node' = [node EXCEPT ![s] = [StNode EXCEPT !.up = FALSE]]
  /\ UNCHANGED <<mem, store, req, objTh, asked>>

StSlaveBack(s) ==
  /\ ~node[s].up
  /\ node' = [node EXCEPT ![s].up = TRUE]
  /\ UNCHANGED <<mem, store, req, objTh, asked, used>>

\* A call is answered by a slave that is up, unless it is lost on the way.
StAnswered(s, ok) ==
  \/ ok /\ node[s].up /\ UNCHANGED used
  \/ ~ok /\ ~node[s].up /\ UNCHANGED used
  \/ ~ok /\ node[s].up /\ StUp("loss")

\* SlaveSystemInit: /api/system/init, and the output parameters if there are any.
StInited(n, s, out) ==
  [n EXCEPT ![s].sysInit = TRUE, ![s].outp = IF out = StNone THEN @ ELSE out]

-----------------------------------------------------------------------------
(* MasterParams::Start, after which the threads and the REST server run.   *)

StMasterDies ==
  /\ mem.phase # "down" /\ StUp("death")
  /\ mem' = StMemory /\ req' = StIdle /\ objTh' = StIdle
  /\ UNCHANGED <<node, store, asked>>

\* SystemInitCB.
StLoadSystem ==
  /\ mem.phase = "down"
  /\ mem' = [mem EXCEPT !.phase = "slaves", !.output = store.output]
  /\ UNCHANGED <<node, store, req, objTh, asked, used>>

\* SlaveCB and GetSlaveObj: a slave that answers is alive, is initialised if it
\* has been restarted, and tells which objects it has.
StLoadSlave(s, ok) ==
  /\ mem.phase = "slaves" /\ s \in store.slaves \ StRange(mem.slaves)
  /\ StAnswered(s, ok)
  /\ mem' = [mem EXCEPT !.slaves = Append(@, s),
                        !.alive = IF ok THEN @ \cup {s} ELSE @,
                        !.ids[s] = IF ok THEN node[s].has ELSE {}]
  /\ node' = IF ok /\ ~node[s].sysInit THEN StInited(node, s, mem.output) ELSE node
  /\ UNCHANGED <<store, req, objTh, asked>>

\* GetSlaveById: the first slave that has the object.
StGetSlaveById(o) ==
  LET having == {i \in 1..Len(mem.slaves) : o \in mem.ids[mem.slaves[i]]} IN
    IF having = {} THEN StNone
    ELSE mem.slaves[CHOOSE i \in having : \A j \in having : i <= j]

\* ObjCB: "avoid adding obj to slave repeatly".
StLoadObjs ==
  /\ mem.phase = "slaves" /\ store.slaves = StRange(mem.slaves)
  /\ mem' = [mem EXCEPT
       !.phase = "up", !.objs = store.objs,
       !.tasks = [o \in StObj |-> IF store.tasks[o] = {} THEN <<>>
                                  ELSE CHOOSE q \in [1..Cardinality(store.tasks[o]) -> store.tasks[o]] :
                                         StRange(q) = store.tasks[o]],
       !.home = [o \in StObj |-> IF o \in store.objs THEN StGetSlaveById(o) ELSE StNone]]
  /\ UNCHANGED <<node, store, req, objTh, asked, used>>

StMaster == StLoadSystem \/ StLoadObjs \/ \E s \in StSlave, ok \in BOOLEAN : StLoadSlave(s, ok)

-----------------------------------------------------------------------------
(* SlaveThread and ObjThread.                                              *)

StReset(s) == [o \in StObj |-> IF mem.home[o] = s THEN StNone ELSE mem.home[o]]

\* UpdateSlaveStatus.
StProbeFails(s) ==
  /\ mem.phase = "up" /\ s \in StRange(mem.slaves) /\ StAnswered(s, FALSE)
  /\ mem' = IF mem.off[s] + 1 < StOffline THEN [mem EXCEPT !.off[s] = @ + 1]
            ELSE [mem EXCEPT !.alive = @ \ {s}, !.off[s] = StOffline,
                             !.home = IF s \in mem.alive THEN StReset(s) ELSE @]
  /\ UNCHANGED <<node, store, req, objTh, asked>>

StProbeAnswered(s) ==
  /\ mem.phase = "up" /\ s \in StRange(mem.slaves) /\ node[s].up
  /\ node' = IF s \notin mem.alive \/ ~node[s].sysInit
               THEN StInited(node, s, mem.output) ELSE node
  /\ mem' = [mem EXCEPT !.alive = @ \cup {s}, !.off[s] = 0,
               !.home = IF s \in mem.alive /\ ~node[s].sysInit THEN StReset(s) ELSE @]
  /\ UNCHANGED <<store, req, objTh, asked, used>>

StNeedsSlave(o) == mem.tasks[o] # <<>> /\ mem.home[o] \notin mem.alive

\* AssignObjToSlave by a thread t: any slave that is alive may have the lowest load.
StAssigns(o, s, ok) ==
  /\ s \in mem.alive /\ StAnswered(s, ok)
  /\ mem' = IF ok THEN [mem EXCEPT !.home[o] = s] ELSE [mem EXCEPT !.alive = @ \ {s}]
  /\ node' = IF ok THEN [node EXCEPT ![s].has = @ \cup {o}] ELSE node

\* /api/task/start at the object's slave.
StStarts(o, ks) ==
  LET s == mem.home[o] IN
    node' = IF s \in mem.alive /\ node[s].up /\ o \in node[s].has
              THEN [node EXCEPT ![s].runs = @ \cup {<<o, k>> : k \in ks}] ELSE node

StObjThreadAssigns(o, s, ok) ==
  /\ mem.phase = "up" /\ objTh.at = "idle" /\ o \in mem.objs /\ StNeedsSlave(o)
  /\ StAssigns(o, s, ok)
  /\ objTh' = IF ok THEN [StIdle EXCEPT !.at = "start", !.o = o] ELSE objTh
  /\ UNCHANGED <<store, req, asked>>

StObjThreadStarts ==
  /\ objTh.at = "start"
  /\ StStarts(objTh.o, StRange(mem.tasks[objTh.o]))
  /\ objTh' = StIdle
  /\ UNCHANGED <<mem, store, req, asked, used>>

StThreads ==
  \/ \E s \in StSlave : StProbeFails(s) \/ StProbeAnswered(s)
  \/ \E o \in StObj, s \in StSlave, ok \in BOOLEAN : StObjThreadAssigns(o, s, ok)
  \/ StObjThreadStarts

-----------------------------------------------------------------------------
(* The requests. What the client asks for, and the steps of the handlers.  *)

StApply(c, r) ==
  CASE r.op = "output" -> [c EXCEPT !.output = r.k]
    [] r.op = "addSlave" -> [c EXCEPT !.slaves = @ \cup {r.s}]
    [] r.op = "delSlave" -> [c EXCEPT !.slaves = @ \ {r.s}]
    [] r.op = "add" -> [c EXCEPT !.objs = @ \cup {r.o}, !.tasks[r.o] = {}]
    [] r.op = "del" -> [c EXCEPT !.objs = @ \ {r.o}, !.tasks[r.o] = {}]
    [] r.op = "start" -> [c EXCEPT !.tasks[r.o] = @ \cup {r.k}]
    [] r.op = "stop" -> [c EXCEPT !.tasks[r.o] = @ \ {r.k}]

\* A request may be cut off from now on.
StRequest(r) ==
  /\ mem.phase = "up" /\ req.at = "idle" /\ StUp("request")
  /\ req' = r
  /\ asked' = asked \cup {StApply(c, r) : c \in asked}
  /\ UNCHANGED <<store, objTh>>

\* request_set_output.
StSetOutput(v) ==
  /\ StRequest([StIdle EXCEPT !.at = "tell", !.op = "output", !.k = v])
  /\ mem' = [mem EXCEPT !.output = v]
  /\ UNCHANGED node

\* HttpToSlave, under m_slave_mtx: every slave that is alive is told, and a call
\* that is lost is not noticed.
StHttpToSlave ==
  /\ req.at = "tell"
  /\ \E lost \in SUBSET mem.alive :
       /\ Cardinality(lost) <= 1
       /\ IF lost = {} THEN UNCHANGED used ELSE StUp("loss")
       /\ node' = [s \in StSlave |->
                     IF s \in mem.alive \ lost /\ node[s].up
                       THEN [node[s] EXCEPT !.outp = mem.output] ELSE node[s]]
  /\ req' = [req EXCEPT !.at = "db"]
  /\ UNCHANGED <<mem, store, objTh, asked>>

\* request_add_slave: MAddSlave refuses one that it has.
StAddSlave(s) ==
  /\ s \notin StRange(mem.slaves)
  /\ StRequest([StIdle EXCEPT !.at = "init", !.op = "addSlave", !.s = s])
  /\ mem' = [mem EXCEPT !.slaves = Append(@, s), !.off[s] = 0, !.ids[s] = {}]
  /\ UNCHANGED node

StSystemInit(ok) ==
  /\ req.at = "init" /\ StAnswered(req.s, ok)
  /\ mem' = [mem EXCEPT !.alive = IF ok THEN @ \cup {req.s} ELSE @ \ {req.s}]
  /\ node' = IF ok THEN StInited(node, req.s, mem.output) ELSE node
  /\ req' = [req EXCEPT !.at = "db"]
  /\ UNCHANGED <<store, objTh, asked>>

\* request_del_slave: the slave itself is not told and keeps its objects, and in the
\* memory its objects keep the slave that is deleted.
StDelSlave(s) ==
  /\ s \in StRange(mem.slaves)
  /\ StRequest([StIdle EXCEPT !.at = "db", !.op = "delSlave", !.s = s])
  /\ mem' = [mem EXCEPT !.slaves = StWithout(@, s), !.alive = @ \ {s},
                        !.home = [o \in StObj |-> IF @[o] = s THEN StGone ELSE @[o]]]
  /\ UNCHANGED node

\* request_add_rtsp and request_add_rtmp; MAddObj waits for ObjThread's m_obj_mtx.
StAddObj(o) ==
  /\ o \notin mem.objs /\ objTh.at = "idle"
  /\ StRequest([StIdle EXCEPT !.at = "db", !.op = "add", !.o = o])
  /\ mem' = [mem EXCEPT !.objs = @ \cup {o}, !.tasks[o] = <<>>, !.home[o] = StNone]
  /\ UNCHANGED node

StStartTask(o, k) ==
  /\ o \in mem.objs /\ objTh.at = "idle"
  /\ StRequest([StIdle EXCEPT !.at = "assign", !.op = "start", !.o = o, !.k = k])
  /\ mem' = [mem EXCEPT !.tasks[o] = Append(@, k)]
  /\ UNCHANGED node

\* HttpStart.
StHttpStart ==
  /\ req.at \in {"assign", "start"}
  /\ UNCHANGED <<store, objTh, asked>>
  /\ \/ /\ req.at = "assign" /\ mem.home[req.o] = StNone
        /\ \E s \in StSlave, ok \in BOOLEAN :
             StAssigns(req.o, s, ok) /\ req' = [req EXCEPT !.at = IF ok THEN "start" ELSE "db"]
     \/ /\ req.at = "assign" /\ mem.home[req.o] = StNone /\ mem.alive = {}
        /\ req' = [req EXCEPT !.at = "db"] /\ UNCHANGED <<mem, node, used>>
     \/ /\ req.at = "start" \/ mem.home[req.o] # StNone
        /\ StStarts(req.o, {req.k})
        /\ req' = [req EXCEPT !.at = "db"] /\ UNCHANGED <<mem, used>>

\* request_stop_task: DelTask takes the first of that name, and a task that is not
\* there is an error.
StStopTask(o, k) ==
  /\ o \in mem.objs /\ k \in StRange(mem.tasks[o]) /\ objTh.at = "idle"
  /\ StRequest([StIdle EXCEPT !.at = "stop", !.op = "stop", !.o = o, !.k = k])
  /\ mem' = [mem EXCEPT !.tasks[o] = StWithout(@, k)]
  /\ UNCHANGED node

StDelObj(o) ==
  /\ o \in mem.objs /\ objTh.at = "idle"
  /\ StRequest([StIdle EXCEPT !.at = "stop", !.op = "del", !.o = o])
  /\ UNCHANGED <<mem, node>>

\* HttpStop, to a slave that is alive; its answer does not matter.
StHttpStop(ok) ==
  /\ req.at = "stop"
  /\ LET s == mem.home[req.o] IN
       IF s \notin mem.alive THEN ok /\ UNCHANGED <<node, used>>
       ELSE /\ StAnswered(s, ok)
            /\ node' = IF ~ok THEN node
                       ELSE IF req.op = "del"
                         THEN [node EXCEPT ![s].has = @ \ {req.o},
                                           ![s].runs = {r \in @ : r[1] # req.o}]
                         ELSE [node EXCEPT ![s].runs = @ \ {<<req.o, req.k>>}]
  /\ req' = [req EXCEPT !.at = IF req.op = "del" THEN "erase" ELSE "db"]
  /\ UNCHANGED <<mem, store, objTh, asked>>

\* MDelObj.
StErase ==
  /\ req.at = "erase" /\ objTh.at = "idle"
  /\ mem' = [mem EXCEPT !.objs = @ \ {req.o}]
  /\ req' = [req EXCEPT !.at = "db"]
  /\ UNCHANGED <<node, store, objTh, asked, used>>

\* Mutant of StWritten: a deleted slave stays stored.
StWrittenNoDel == IF req.op = "delSlave" THEN store ELSE StApply(store, req)

\* Each write is an upsert or a deletion of one document: $set replaces the
\* output, the slave or the object's data, $push appends to its tasks (and makes
\* a document if there is none), $pull removes every task of that name.
StWritten ==
  LET o == req.o IN
  CASE req.op = "output" -> [store EXCEPT !.output = req.k]
    [] req.op = "addSlave" -> [store EXCEPT !.slaves = @ \cup {req.s}]
    [] req.op = "delSlave" -> [store EXCEPT !.slaves = @ \ {req.s}]
    [] req.op = "add" -> [store EXCEPT !.objs = @ \cup {o}, !.tasks[o] = {}]
    [] req.op = "start" -> [store EXCEPT !.objs = @ \cup {o}, !.tasks[o] = @ \cup {req.k}]
    [] req.op = "stop" -> [store EXCEPT !.objs = @ \cup {o}, !.tasks[o] = @ \ {req.k}]
    [] req.op = "del" -> [store EXCEPT !.objs = @ \ {o}, !.tasks[o] = {}]

\* The database comes last, and the request is answered with success even when
\* its write fails, which is only logged.
StSave ==
  /\ req.at = "db" /\ req' = StIdle
  /\ \/ store' = StWritten /\ UNCHANGED used
     \/ StUp("fail") /\ UNCHANGED store
  /\ asked' = {StApply(c, req) : c \in asked}
  /\ UNCHANGED <<node, mem, objTh>>

StRest ==
  \/ StHttpToSlave \/ StHttpStart \/ StErase \/ StSave
  \/ \E ok \in BOOLEAN : StSystemInit(ok) \/ StHttpStop(ok)

StClient ==
  \/ \E v \in StOutput : StSetOutput(v)
  \/ \E s \in StSlave : StAddSlave(s) \/ StDelSlave(s)
  \/ \E o \in StObj : StAddObj(o) \/ StDelObj(o)
                      \/ \E k \in StTask : StStartTask(o, k) \/ StStopTask(o, k)

StNext ==
  \/ StMaster \/ StMasterDies \/ StThreads \/ StRest \/ StClient
  \/ \E s \in StSlave : StSlaveDies(s) \/ StSlaveBack(s)

StSpec == StInitial /\ [][StNext]_stVars

\* Supervisors start a process that died again; the threads of the master run.
StFairness ==
  /\ WF_stVars(StMaster) /\ WF_stVars(StRest) /\ WF_stVars(StObjThreadStarts)
  /\ \A s \in StSlave :
       /\ WF_stVars(StSlaveBack(s))
       /\ WF_stVars(StProbeAnswered(s)) /\ WF_stVars(StProbeFails(s))
       /\ \A o \in StObj : SF_stVars(StObjThreadAssigns(o, s, TRUE))
       /\ WF_stVars(\E o \in StObj : StObjThreadAssigns(o, s, FALSE))
StFairSpec == StSpec /\ StFairness

-----------------------------------------------------------------------------
(* Properties.                                                             *)

\* "Parameters are kept in the database, the user configures once": at whatever
\* point the master dies, the store holds what the client was last told, give or
\* take requests that were never answered; unless a write has failed.
StoreIsAsked == req.at = "idle" /\ used.fail = 0 => store \in asked

\* A slave that the master uses and has initialised sends its results where the
\* client asked, even if the master died while it passed the address on, or the
\* slave was started again meanwhile; unless a call was lost or a write failed.
SlaveOutputAsked ==
  mem.phase = "up" /\ req.at = "idle" /\ used.loss = 0 /\ used.fail = 0 =>
    \A s \in mem.alive : node[s].sysInit =>
      node[s].outp \in {c.output : c \in asked} \cup (IF mem.output = StNone THEN {StNone} ELSE {})

\* The master never has a task or an object that is stored only elsewhere: what it
\* would find after a restart is what it has now, as a set of tasks.
StoredInMemory ==
  mem.phase = "up" /\ req.at = "idle" /\ used.fail = 0 =>
    /\ store.objs = mem.objs /\ store.slaves = StRange(mem.slaves)
    /\ \A o \in mem.objs : store.tasks[o] \subseteq StRange(mem.tasks[o])

\* "Tasks run again by themselves after a restart" (README.md:37): a stored task
\* comes to run on a slave, whenever the master or a slave may have died.
StoredTasksRun ==
  \A o \in StObj, k \in StTask :
    []<>(\/ k \notin store.tasks[o] \/ store.slaves = {}
         \/ \E s \in StSlave : <<o, k>> \in node[s].runs)

\* Database, memory and slaves agree on what the client asked for, whoever dies
\* at whatever point.
StoreConsistent == StoreIsAsked /\ SlaveOutputAsked /\ StoredInMemory
==============================================================================
