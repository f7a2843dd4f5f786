---------------------------- MODULE Master_proofs -----------------------------
(***************************************************************************)
(* The master: its threads and tables (Cluster), and its memory beside the *)
(* database and the slaves (MasterStore), for any slaves, objects, tasks   *)
(* and output parameters, any number of requests, crashes and lost calls,  *)
(* whoever dies at whatever point.                                         *)
(***************************************************************************)
EXTENDS Cluster, MasterStore,
        SequenceTheorems, WellFoundedInduction, FiniteSetTheorems, TLAPS

-----------------------------------------------------------------------------
(* What the master's tables and the database are to each other, and that   *)
(* the mutexes do what the threads rely on (Cluster).                      *)
(*                                                                         *)
(* Two things are not visible in what the runs check.  Between requests    *)
(* the database agrees with the tables because at every step of a request  *)
(* they differ by exactly what its last step, the one on the database,     *)
(* makes good (Pending, StoredSoFar).  And a thread may read obj->slave    *)
(* because nobody takes a slave from an object but under m_obj_mtx.        *)

ObjThreadPlace == {"idle", "next", "lowest", "assign", "start"}
RestPlace ==
  {"idle", "tasks", "check", "lowest", "assign", "start", "stop", "post", "erase", "db", "segv"}
RestOp == {"none", "add", "del", "start", "stop"}

\* The tables of the master, and of the database.
TablesOK ==
  /\ mobj \subseteq Obj /\ dbObj \subseteq Obj
  /\ mtasks \in [Obj -> Seq(Task)] /\ dbTasks \in [Obj -> SUBSET Task]
  /\ slaveOf \in [Obj -> Slave \cup {NoSlave}]

ObjRecord == [at : ObjThreadPlace, todo : SUBSET Obj, o : Obj \cup {NoSlave},
              s : Slave \cup {NoSlave}, i : Nat]

\* ObjThread holds m_obj_mtx for its whole pass, and an object that it gives to a
\* slave has that slave until it has started the tasks.
ObjThreadOK ==
  /\ oth \in ObjRecord
  /\ oth.at = "idle" => objMtx = "free"
  /\ oth.at # "idle" => objMtx = "objThread"
  /\ oth.at \in {"lowest", "assign", "start"} => oth.o \in Obj
  /\ oth.at = "assign" => oth.s \in Slave
  /\ oth.at = "start" => slaveOf[oth.o] \in Slave

RestRecord == [at : RestPlace, op : RestOp, o : Obj \cup {NoSlave}, k : Task \cup {NoSlave},
               s : Slave \cup {NoSlave}]

\* The steps of each request.
RestPlaces(op) ==
  CASE op = "none" -> {"idle"}
    [] op = "add" -> {"db"}
    [] op = "del" -> {"stop", "post", "erase", "db", "segv"}
    [] op = "start" -> {"tasks", "check", "lowest", "assign", "start", "db", "segv"}
    [] op = "stop" -> {"tasks", "stop", "post", "db", "segv"}

RestOK ==
  /\ rth \in RestRecord
  /\ rth.at \in RestPlaces(rth.op)
  /\ rth.at # "idle" => rth.o \in Obj
  /\ rth.op \in {"start", "stop"} => rth.k \in Task
  /\ rth.at = "assign" => rth.s \in Slave

\* What the request has changed in the tables and not in the database yet.
Pending(o) == IF rth.op = "stop" /\ rth.at # "tasks" /\ o = rth.o THEN {rth.k} ELSE {}

StoredSoFar ==
  /\ rth.op = "add" => mobj = dbObj \cup {rth.o}
  /\ rth.op = "del" /\ rth.at = "db" => mobj = dbObj \ {rth.o}
  /\ rth.op # "add" /\ ~(rth.op = "del" /\ rth.at = "db") => mobj = dbObj
  /\ rth.op = "start" /\ rth.at # "tasks" => rth.k \in Set(mtasks[rth.o])
  /\ \A o \in dbObj : dbTasks[o] \ Pending(o) \subseteq Set(mtasks[o])

ClusterInvariant == TablesOK /\ ObjThreadOK /\ RestOK /\ StoredSoFar

-----------------------------------------------------------------------------
(* Lists of tasks *)

\* A task is appended.
LEMMA SetAppend ==
  ASSUME NEW ts \in Seq(Task), NEW k \in Task
  PROVE  Append(ts, k) \in Seq(Task) /\ Set(Append(ts, k)) = Set(ts) \cup {k}
  <1>1. Append(ts, k) \in Seq(Task) /\ Len(ts) \in Nat
    OBVIOUS
  <1>2. ASSUME NEW i \in 1..Len(ts) PROVE i \in 1..Len(Append(ts, k)) /\ Append(ts, k)[i] = ts[i]
    BY <1>1
  <1>3. Len(ts) + 1 \in 1..Len(Append(ts, k)) /\ Append(ts, k)[Len(ts) + 1] = k
    BY <1>1
  <1>4. ASSUME NEW i \in 1..Len(Append(ts, k)) PROVE i \in 1..Len(ts) \/ i = Len(ts) + 1
    BY <1>1
  <1>5. Set(ts) \cup {k} \subseteq Set(Append(ts, k))
    BY <1>2, <1>3 DEF Set
  <1>6. Set(Append(ts, k)) \subseteq Set(ts) \cup {k}
    BY <1>2, <1>3, <1>4 DEF Set
  <1> QED
    BY <1>1, <1>5, <1>6

\* DelTask takes one task out; the others stay.
LEMMA SetWithout ==
  ASSUME NEW ts \in Seq(Task), NEW n \in 1..Len(ts)
  PROVE  Without(ts, n) \in Seq(Task) /\ Set(ts) \ {ts[n]} \subseteq Set(Without(ts, n))
  <1> DEFINE a == SubSeq(ts, 1, n - 1)
             b == SubSeq(ts, n + 1, Len(ts))
  <1>1. Len(ts) \in Nat /\ n \in Nat /\ n >= 1 /\ n <= Len(ts)
    OBVIOUS
  <1>2. a \in Seq(Task) /\ Len(a) = n - 1 /\ \A i \in 1..n-1 : a[i] = ts[i]
    BY <1>1
  <1>3. b \in Seq(Task) /\ Len(b) = Len(ts) - n /\ \A i \in 1..Len(ts)-n : b[i] = ts[i + n]
    BY <1>1
  <1> HIDE DEF a, b
  <1>4. /\ a \o b \in Seq(Task) /\ Len(a \o b) = Len(ts) - 1
        /\ \A i \in 1..Len(ts)-1 : (a \o b)[i] = IF i <= n - 1 THEN a[i] ELSE b[i - (n - 1)]
    <2>1. /\ a \o b \in Seq(Task) /\ Len(a \o b) = Len(a) + Len(b)
          /\ \A i \in 1..Len(a)+Len(b) :
               (a \o b)[i] = IF i <= Len(a) THEN a[i] ELSE b[i - Len(a)]
      BY <1>2, <1>3, ConcatProperties, Zenon
    <2>2. Len(a) + Len(b) = Len(ts) - 1
      BY <1>1, <1>2, <1>3
    <2> QED
      BY <1>2, <2>1, <2>2
  <1>5. Without(ts, n) = a \o b
    BY DEF Without, a, b
  <1>6. ASSUME NEW i \in 1..Len(ts), i # n PROVE ts[i] \in Set(a \o b)
    <2>1. CASE i < n
      <3>1. i \in 1..Len(ts)-1 /\ i \in 1..n-1 /\ i <= n - 1
        BY <1>1, <2>1
      <3>2. (a \o b)[i] = ts[i]
        BY <1>2, <1>4, <3>1
      <3> QED
        BY <1>4, <3>1, <3>2 DEF Set
    <2>2. CASE i > n
      <3>1. /\ i - 1 \in 1..Len(ts)-1 /\ ~(i - 1 <= n - 1)
            /\ i - n \in 1..Len(ts)-n /\ (i - 1) - (n - 1) = i - n /\ (i - n) + n = i
        BY <1>1, <2>2
      <3>2. (a \o b)[i - 1] = b[i - n]
        BY <1>4, <3>1
      <3>3. (a \o b)[i - 1] = ts[i]
        BY <1>3, <3>1, <3>2
      <3> QED
        BY <1>4, <3>1, <3>3 DEF Set
    <2> QED
      BY <1>1, <1>6, <2>1, <2>2
  <1>7. Set(ts) \ {ts[n]} \subseteq Set(a \o b)
    BY <1>6 DEF Set
  <1> QED
    BY <1>4, <1>5, <1>7

-----------------------------------------------------------------------------
(* Threads *)

\* What SlaveThread and the slaves leave alone.  They take slaves from objects
\* only while nobody holds m_obj_mtx.
LEMMA SlaveSteps ==
  ASSUME ClusterInvariant, SlaveThread \/ \E s \in Slave : SlaveCrash(s) \/ SlaveRestart(s)
  PROVE  /\ UNCHANGED <<mobj, mtasks, db, objMtx, oth, rth>>
         /\ slaveOf' \in [Obj -> Slave \cup {NoSlave}]
         /\ slaveOf' = slaveOf \/ objMtx = "free"
  <1>1. slaveOf \in [Obj -> Slave \cup {NoSlave}]
    BY DEF ClusterInvariant, TablesOK
  <1>2. CASE ResetSlaveObj
    <2>1. ASSUME NEW o \in Obj
          PROVE  (IF o \in mobj /\ slaveOf[o] = SlaveVec[sth.i] THEN NoSlave ELSE slaveOf[o])
                   \in Slave \cup {NoSlave}
      BY <1>1
    <2> QED
      BY <1>2, <2>1 DEF ResetSlaveObj, db
  <1>3. CASE SlaveThreadLocks \/ SkipProbe \/ ProbeFails \/ ProbeAnswers
    BY <1>1, <1>3 DEF SlaveThreadLocks, SkipProbe, ProbeFails, ProbeAnswers, objTab, db
  <1>4. CASE SystemInit \/ SetOutput \/ MarkOffline \/ MarkAlive
    BY <1>1, <1>4 DEF SystemInit, SetOutput, MarkOffline, MarkAlive, objTab, db
  <1>5. CASE \E s \in Slave : SlaveCrash(s) \/ SlaveRestart(s)
    BY <1>1, <1>5 DEF SlaveCrash, SlaveRestart, objTab, db
  <1> QED
    BY <1>2, <1>3, <1>4, <1>5 DEF SlaveThread

\* AssignObjToSlave gives an object a slave, or leaves it as it is.
LEMMA AssignGives ==
  ASSUME ClusterInvariant, NEW s \in Slave, NEW o \in Obj, NEW fate, AssignObj(s, o, fate)
  PROVE  /\ slaveOf' \in [Obj -> Slave \cup {NoSlave}]
         /\ fate = "acked" => slaveOf'[o] = s
         /\ \A q \in Obj : slaveOf[q] \in Slave => slaveOf'[q] \in Slave
  <1>1. slaveOf \in [Obj -> Slave \cup {NoSlave}]
    BY DEF ClusterInvariant, TablesOK
  <1>2. CASE fate = "acked"
    <2>1. slaveOf' = [slaveOf EXCEPT ![o] = s]
      BY <1>2 DEF AssignObj
    <2> QED
      BY <1>1, <2>1
  <1>3. CASE fate # "acked"
    <2>1. slaveOf' = slaveOf
      BY <1>3 DEF AssignObj
    <2> QED
      BY <1>1, <1>3, <2>1
  <1> QED
    BY <1>2, <1>3

\* What ObjThread leaves alone, and where it gets to.
LEMMA ObjThreadSteps ==
  ASSUME ClusterInvariant, ObjThread
  PROVE  /\ UNCHANGED <<mobj, mtasks, db, rth>>
         /\ slaveOf' \in [Obj -> Slave \cup {NoSlave}]
         /\ ObjThreadOK'
  <1> USE SlaveAssumption
  <1>1. /\ oth \in ObjRecord /\ mobj \subseteq Obj
        /\ slaveOf \in [Obj -> Slave \cup {NoSlave}]
        /\ oth.at = "idle" => objMtx = "free"
        /\ oth.at # "idle" => objMtx = "objThread"
        /\ oth.at \in {"lowest", "assign", "start"} => oth.o \in Obj
        /\ oth.at = "assign" => oth.s \in Slave
        /\ oth.at = "start" => slaveOf[oth.o] \in Slave
    BY DEF ClusterInvariant, TablesOK, ObjThreadOK
  <1>2. CASE ObjThreadLocks
    <2>1. oth' = [OIdle EXCEPT !.at = "next", !.todo = mobj] /\ objMtx' = "objThread"
          /\ UNCHANGED <<mobj, mtasks, db, rth, slaveOf>>
      BY <1>2 DEF ObjThreadLocks, objTab
    <2>2. oth' \in ObjRecord /\ oth'.at = "next"
      BY <1>1, <2>1 DEF OIdle, ObjRecord, ObjThreadPlace
    <2> QED
      BY <1>1, <2>1, <2>2 DEF ObjThreadOK
  <1>3. CASE UpdateObjTask
    <2>1. PICK o \in oth.todo :
            oth' = IF NeedsSlave(o)
                     THEN [oth EXCEPT !.at = "lowest", !.o = o, !.todo = @ \ {o}]
                     ELSE [oth EXCEPT !.todo = @ \ {o}]
      BY <1>3 DEF UpdateObjTask
    <2>2. oth.at = "next" /\ UNCHANGED <<mobj, mtasks, db, rth, slaveOf, objMtx>>
      BY <1>3 DEF UpdateObjTask, objTab
    <2>3. o \in Obj
      BY <1>1 DEF ObjRecord
    <2>4. oth' \in ObjRecord /\ (oth'.at = "next" \/ (oth'.at = "lowest" /\ oth'.o \in Obj))
      BY <1>1, <2>1, <2>2, <2>3 DEF ObjRecord, ObjThreadPlace
    <2> QED
      BY <1>1, <2>2, <2>4 DEF ObjThreadOK
  <1>4. CASE ObjThreadChooses
    <2>1. oth.at = "lowest" /\ UNCHANGED <<mobj, mtasks, db, rth, slaveOf, objMtx>>
      BY <1>4 DEF ObjThreadChooses, objTab
    <2>2. CASE oth' = [OIdle EXCEPT !.at = "next", !.todo = oth.todo]
      <3>1. oth' \in ObjRecord /\ oth'.at = "next"
        BY <1>1, <2>2 DEF OIdle, ObjRecord, ObjThreadPlace
      <3> QED
        BY <1>1, <2>1, <3>1 DEF ObjThreadOK
    <2>3. ASSUME NEW i \in 1..Len(SlaveVec), oth' = [oth EXCEPT !.at = "assign", !.s = SlaveVec[i]]
          PROVE  ObjThreadOK'
      <3>1. SlaveVec[i] \in Slave
        BY DEF Slave
      <3>2. oth' \in ObjRecord /\ oth'.at = "assign" /\ oth'.o = oth.o /\ oth'.s \in Slave
        BY <1>1, <2>3, <3>1 DEF ObjRecord, ObjThreadPlace
      <3> QED
        BY <1>1, <2>1, <3>2 DEF ObjThreadOK
    <2> QED
      BY <1>1, <1>4, <2>1, <2>2, <2>3 DEF ObjThreadChooses
  <1>5. CASE ObjThreadAssigns
    <2>1. PICK fate \in Fates :
            /\ AssignObj(oth.s, oth.o, fate)
            /\ oth' = IF fate = "acked" THEN [oth EXCEPT !.at = "start", !.i = 1]
                      ELSE [OIdle EXCEPT !.at = "next", !.todo = oth.todo]
      BY <1>5 DEF ObjThreadAssigns
    <2>2. oth.at = "assign" /\ UNCHANGED <<mobj, mtasks, db, rth, objMtx>>
      BY <1>5 DEF ObjThreadAssigns
    <2>3. oth.o \in Obj /\ oth.s \in Slave
      BY <1>1, <2>2
    <2>4. slaveOf' \in [Obj -> Slave \cup {NoSlave}] /\ (fate = "acked" => slaveOf'[oth.o] \in Slave)
      BY <2>1, <2>3, AssignGives
    <2>5. CASE fate = "acked"
      <3>1. oth' \in ObjRecord /\ oth'.at = "start" /\ oth'.o = oth.o
        BY <1>1, <2>1, <2>5 DEF ObjRecord, ObjThreadPlace
      <3> QED
        BY <1>1, <2>2, <2>3, <2>4, <2>5, <3>1 DEF ObjThreadOK
    <2>6. CASE fate # "acked"
      <3>1. oth' \in ObjRecord /\ oth'.at = "next"
        BY <1>1, <2>1, <2>6 DEF OIdle, ObjRecord, ObjThreadPlace
      <3> QED
        BY <1>1, <2>2, <2>4, <3>1 DEF ObjThreadOK
    <2> QED
      BY <2>5, <2>6
  <1>6. CASE ObjThreadStarts
    <2>1. oth.at = "start" /\ oth' = [oth EXCEPT !.i = @ + 1]
          /\ UNCHANGED <<mobj, mtasks, db, rth, slaveOf, objMtx>>
      BY <1>6 DEF ObjThreadStarts, slaveTab, objTab
    <2>2. oth' \in ObjRecord /\ oth'.at = "start" /\ oth'.o = oth.o
      BY <1>1, <2>1 DEF ObjRecord
    <2> QED
      BY <1>1, <2>1, <2>2 DEF ObjThreadOK
  <1>7. CASE ObjThreadStarted
    <2>1. oth.at = "start" /\ oth' = [OIdle EXCEPT !.at = "next", !.todo = oth.todo]
          /\ UNCHANGED <<mobj, mtasks, db, rth, slaveOf, objMtx>>
      BY <1>7 DEF ObjThreadStarted, objTab
    <2>2. oth' \in ObjRecord /\ oth'.at = "next"
      BY <1>1, <2>1 DEF OIdle, ObjRecord, ObjThreadPlace
    <2> QED
      BY <1>1, <2>1, <2>2 DEF ObjThreadOK
  <1>8. CASE ObjThreadUnlocks
    <2>1. oth' = OIdle /\ objMtx' = "free" /\ UNCHANGED <<mobj, mtasks, db, rth, slaveOf>>
      BY <1>8 DEF ObjThreadUnlocks, objTab
    <2>2. oth' \in ObjRecord /\ oth'.at = "idle"
      BY <2>1 DEF OIdle, ObjRecord, ObjThreadPlace
    <2> QED
      BY <1>1, <2>1, <2>2 DEF ObjThreadOK
  <1> QED
    BY <1>2, <1>3, <1>4, <1>5, <1>6, <1>7, <1>8 DEF ObjThread

-----------------------------------------------------------------------------
(* Requests *)

\* A request goes from one step to another.
LEMMA RestGoes ==
  ASSUME rth \in RestRecord, NEW to \in RestPlace, rth' = [rth EXCEPT !.at = to]
  PROVE  /\ rth' \in RestRecord /\ rth'.at = to /\ rth'.op = rth.op /\ rth'.o = rth.o
         /\ rth'.k = rth.k /\ rth'.s = rth.s
  BY DEF RestRecord

\* When nothing but the place of the request changes, and that by no step of
\* EditTasks or of RestErases, the request has as much left to store as before.
LEMMA StoredStays ==
  ASSUME ClusterInvariant, UNCHANGED <<mobj, mtasks, db>>,
         rth'.op = rth.op, rth'.o = rth.o, rth'.k = rth.k,
         rth.at # "tasks", rth'.at # "tasks",
         rth.op = "del" => rth.at # "db" /\ rth'.at # "db"
  PROVE  StoredSoFar'
  BY DEF ClusterInvariant, StoredSoFar, Pending, db

\* What the steps of a request leave alone.
LEMMA RestQuiet ==
  ASSUME ClusterInvariant, RestThread \/ RequestAddObj \/ RequestOnObj
  PROVE  /\ UNCHANGED <<oth, objMtx>>
         /\ slaveOf' \in [Obj -> Slave \cup {NoSlave}]
         /\ objMtx = "free" \/ \A o \in Obj : slaveOf[o] \in Slave => slaveOf'[o] \in Slave
  <1> USE SlaveAssumption
  <1>1. slaveOf \in [Obj -> Slave \cup {NoSlave}]
    BY DEF ClusterInvariant, TablesOK
  <1>2. CASE RequestAddObj
    BY <1>1, <1>2 DEF RequestAddObj
  <1>3. CASE RestAssigns
    <2>1. PICK fate \in Fates : AssignObj(rth.s, rth.o, fate)
      BY <1>3 DEF RestAssigns
    <2>2. rth.s \in Slave /\ rth.o \in Obj
      BY <1>3 DEF RestAssigns, ClusterInvariant, RestOK
    <2>3. UNCHANGED <<oth, objMtx>>
      BY <1>3 DEF RestAssigns
    <2> QED
      BY <2>1, <2>2, <2>3, AssignGives
  <1>4. CASE RequestOnObj \/ EditTasks \/ RestStartChecks \/ RestChooses \/ RestStarts
    BY <1>1, <1>4 DEF RequestOnObj, EditTasks, RestStartChecks, RestChooses, RestStarts, objTab,
                     slaveTab
  <1>5. CASE RestStopChecks \/ RestStopPosts \/ RestNullSlave \/ RestErases \/ RestSaves
    BY <1>1, <1>5 DEF RestStopChecks, RestStopPosts, RestNullSlave, RestErases, RestSaves, objTab
  <1> QED
    BY <1>2, <1>3, <1>4, <1>5 DEF RestThread

\* A request begins.
LEMMA RequestSteps ==
  ASSUME ClusterInvariant, RequestAddObj \/ RequestOnObj
  PROVE  TablesOK' /\ RestOK' /\ StoredSoFar'
  <1>1. /\ mobj \subseteq Obj /\ dbObj \subseteq Obj /\ mtasks \in [Obj -> Seq(Task)]
        /\ dbTasks \in [Obj -> SUBSET Task]
        /\ slaveOf' \in [Obj -> Slave \cup {NoSlave}]
    BY RestQuiet DEF ClusterInvariant, TablesOK
  <1>2. /\ rth.at = "idle" /\ rth \in RestRecord /\ rth.op = "none"
    BY DEF RequestAddObj, RequestOnObj, ClusterInvariant, RestOK, RestPlaces, RestRecord, RestOp
  <1>3. mobj = dbObj /\ \A o \in dbObj : dbTasks[o] \subseteq Set(mtasks[o])
    BY <1>2 DEF ClusterInvariant, StoredSoFar, Pending
  <1>4. CASE RequestAddObj
    <2>1. PICK o \in Obj \ mobj :
            /\ mobj' = mobj \cup {o} /\ mtasks' = [mtasks EXCEPT ![o] = <<>>]
            /\ rth' = [RIdle EXCEPT !.at = "db", !.op = "add", !.o = o]
      BY <1>4 DEF RequestAddObj
    <2>2. UNCHANGED <<dbObj, dbTasks>>
      BY <1>4 DEF RequestAddObj, db
    <2>3. rth' \in RestRecord /\ rth'.at = "db" /\ rth'.op = "add" /\ rth'.o = o
      BY <2>1 DEF RIdle, RestRecord, RestPlace, RestOp
    <2>4. mtasks' \in [Obj -> Seq(Task)] /\ \A q \in dbObj : mtasks'[q] = mtasks[q]
      <3>1. <<>> \in Seq(Task)
        OBVIOUS
      <3> QED
        BY <1>1, <1>3, <2>1, <3>1
    <2>5. TablesOK'
      BY <1>1, <2>1, <2>2, <2>4 DEF TablesOK
    <2>6. RestOK'
      BY <2>1, <2>3 DEF RestOK, RestPlaces
    <2>7. StoredSoFar'
      BY <1>3, <2>1, <2>2, <2>3, <2>4 DEF StoredSoFar, Pending
    <2> QED
      BY <2>5, <2>6, <2>7
  <1>5. CASE RequestOnObj
    <2>1. PICK o \in mobj, k \in Task :
            \/ rth' = [RIdle EXCEPT !.at = "stop", !.op = "del", !.o = o]
            \/ rth' = [RIdle EXCEPT !.at = "tasks", !.op = "start", !.o = o, !.k = k]
            \/ rth' = [RIdle EXCEPT !.at = "tasks", !.op = "stop", !.o = o, !.k = k]
      BY <1>5 DEF RequestOnObj
    <2>2. UNCHANGED <<mobj, mtasks, dbObj, dbTasks>>
      BY <1>5 DEF RequestOnObj, objTab, db
    <2>3. /\ rth' \in RestRecord /\ rth'.o \in Obj
          /\ \/ rth'.at = "stop" /\ rth'.op = "del"
             \/ rth'.at = "tasks" /\ rth'.op \in {"start", "stop"} /\ rth'.k \in Task
      <3>1. o \in Obj
        BY <1>1
      <3> QED
        BY <2>1, <3>1 DEF RIdle, RestRecord, RestPlace, RestOp
    <2>4. TablesOK'
      BY <1>1, <2>2 DEF TablesOK
    <2>5. RestOK'
      BY <2>3 DEF RestOK, RestPlaces
    <2>6. StoredSoFar'
      BY <1>3, <2>2, <2>3 DEF StoredSoFar, Pending
    <2> QED
      BY <2>4, <2>5, <2>6
  <1> QED
    BY <1>4, <1>5

\* The request goes on and leaves the tables and the database as they are.
LEMMA RestQuietSteps ==
  ASSUME ClusterInvariant,
         \/ RestStartChecks \/ RestChooses \/ RestAssigns \/ RestStarts
         \/ RestStopChecks \/ RestStopPosts \/ RestNullSlave
  PROVE  RestOK' /\ StoredSoFar' /\ UNCHANGED <<mobj, mtasks, db>>
  <1> USE SlaveAssumption
  <1>1. /\ rth \in RestRecord /\ rth.at \in RestPlaces(rth.op)
        /\ rth.at # "idle" => rth.o \in Obj
        /\ rth.op \in {"start", "stop"} => rth.k \in Task
        /\ rth.at = "assign" => rth.s \in Slave
        /\ rth.op \in RestOp
    BY DEF ClusterInvariant, RestOK, RestRecord
  <1>2. CASE RestStartChecks \/ RestStarts \/ RestAssigns
    <2>1. rth.at \in {"check", "start", "assign"} /\ UNCHANGED <<mobj, mtasks, db>>
      BY <1>2 DEF RestStartChecks, RestStarts, RestAssigns, objTab
    <2>2. rth.op = "start"
      BY <1>1, <2>1 DEF RestPlaces, RestOp
    <2>3. PICK to \in {"lowest", "start", "db"} : rth' = [rth EXCEPT !.at = to]
      BY <1>2 DEF RestStartChecks, RestStarts, RestAssigns
    <2>4. /\ rth' \in RestRecord /\ rth'.at = to /\ rth'.op = rth.op /\ rth'.o = rth.o
          /\ rth'.k = rth.k
      BY <1>1, <2>3, RestGoes DEF RestPlace
    <2>5. RestOK'
      BY <1>1, <2>1, <2>2, <2>4 DEF RestOK, RestPlaces
    <2>6. StoredSoFar'
      BY <2>1, <2>2, <2>4, StoredStays
    <2> QED
      BY <2>1, <2>5, <2>6
  <1>3. CASE RestChooses
    <2>1. rth.at = "lowest" /\ UNCHANGED <<mobj, mtasks, db>>
      BY <1>3 DEF RestChooses, objTab
    <2>2. rth.op = "start"
      BY <1>1, <2>1 DEF RestPlaces, RestOp
    <2>3. \/ rth' = [rth EXCEPT !.at = "db"]
          \/ \E s \in Slave : rth' = [rth EXCEPT !.at = "assign", !.s = s]
      BY <1>3 DEF RestChooses, Slave
    <2>4. /\ rth' \in RestRecord /\ rth'.op = rth.op /\ rth'.o = rth.o /\ rth'.k = rth.k
          /\ rth'.at = "db" \/ (rth'.at = "assign" /\ rth'.s \in Slave)
      BY <1>1, <2>3 DEF RestRecord, RestPlace
    <2>5. RestOK'
      BY <1>1, <2>1, <2>2, <2>4 DEF RestOK, RestPlaces
    <2>6. StoredSoFar'
      BY <2>1, <2>2, <2>4, StoredStays
    <2> QED
      BY <2>1, <2>5, <2>6
  <1>4. CASE RestStopChecks \/ RestStopPosts
    <2>1. rth.at \in {"stop", "post"} /\ UNCHANGED <<mobj, mtasks, db>>
      BY <1>4 DEF RestStopChecks, RestStopPosts, objTab
    <2>2. rth.op \in {"stop", "del"}
      BY <1>1, <2>1 DEF RestPlaces, RestOp
    <2>3. PICK to \in {AfterStop, "post"} : rth' = [rth EXCEPT !.at = to]
      BY <1>4 DEF RestStopChecks, RestStopPosts
    <2>4. to \in {"post", "erase", "db"} /\ (rth.op = "del" => to # "db")
          /\ (rth.op = "stop" => to # "erase")
      BY <2>2, <2>3 DEF AfterStop
    <2>5. /\ rth' \in RestRecord /\ rth'.at = to /\ rth'.op = rth.op /\ rth'.o = rth.o
          /\ rth'.k = rth.k
      BY <1>1, <2>3, <2>4, RestGoes DEF RestPlace
    <2>6. RestOK'
      BY <1>1, <2>1, <2>2, <2>4, <2>5 DEF RestOK, RestPlaces
    <2>7. StoredSoFar'
      BY <2>1, <2>2, <2>4, <2>5, StoredStays
    <2> QED
      BY <2>1, <2>6, <2>7
  <1>5. CASE RestNullSlave
    <2>1. /\ rth.at \in {"start", "post"} /\ UNCHANGED <<mobj, mtasks, db>>
          /\ rth' = [rth EXCEPT !.at = "segv"]
      BY <1>5 DEF RestNullSlave, objTab
    <2>2. rth.op \in {"start", "stop", "del"}
      BY <1>1, <2>1 DEF RestPlaces, RestOp
    <2>3. /\ rth' \in RestRecord /\ rth'.at = "segv" /\ rth'.op = rth.op /\ rth'.o = rth.o
          /\ rth'.k = rth.k
      BY <1>1, <2>1, RestGoes DEF RestPlace
    <2>4. RestOK'
      BY <1>1, <2>1, <2>2, <2>3 DEF RestOK, RestPlaces
    <2>5. StoredSoFar'
      BY <2>1, <2>2, <2>3, StoredStays
    <2> QED
      BY <2>1, <2>4, <2>5
  <1> QED
    BY <1>2, <1>3, <1>4, <1>5

\* A task goes into the list of its object, or out of it, and is stored later.
LEMMA EditSteps ==
  ASSUME ClusterInvariant, EditTasks
  PROVE  TablesOK' /\ RestOK' /\ StoredSoFar'
  <1>1. /\ mobj \subseteq Obj /\ dbObj \subseteq Obj /\ mtasks \in [Obj -> Seq(Task)]
        /\ dbTasks \in [Obj -> SUBSET Task]
        /\ slaveOf \in [Obj -> Slave \cup {NoSlave}]
    BY DEF ClusterInvariant, TablesOK
  <1>2. /\ rth.at = "tasks" /\ UNCHANGED <<mobj, dbObj, dbTasks, slaveOf>>
        /\ rth \in RestRecord /\ rth.o \in Obj /\ rth.op \in {"start", "stop"} /\ rth.k \in Task
    BY DEF EditTasks, db, ClusterInvariant, RestOK, RestPlaces, RestRecord, RestOp
  <1>3. mobj = dbObj /\ \A o \in dbObj : dbTasks[o] \subseteq Set(mtasks[o])
    BY <1>2 DEF ClusterInvariant, StoredSoFar, Pending
  <1>4. CASE rth.op = "start" /\ mtasks' = [mtasks EXCEPT ![rth.o] = Append(@, rth.k)]
             /\ rth' = [rth EXCEPT !.at = "check"]
    <2>1. /\ rth' \in RestRecord /\ rth'.at = "check" /\ rth'.op = "start" /\ rth'.o = rth.o
          /\ rth'.k = rth.k
      BY <1>2, <1>4, RestGoes DEF RestPlace
    <2>2. /\ Append(mtasks[rth.o], rth.k) \in Seq(Task)
          /\ Set(Append(mtasks[rth.o], rth.k)) = Set(mtasks[rth.o]) \cup {rth.k}
      BY <1>1, <1>2, SetAppend
    <2>3. /\ mtasks' \in [Obj -> Seq(Task)]
          /\ mtasks'[rth.o] = Append(mtasks[rth.o], rth.k)
          /\ \A o \in Obj : o # rth.o => mtasks'[o] = mtasks[o]
      BY <1>1, <1>2, <1>4, <2>2
    <2>4. ASSUME NEW o \in Obj PROVE Set(mtasks[o]) \subseteq Set(mtasks'[o])
      BY <2>2, <2>3
    <2>5. TablesOK'
      BY <1>1, <1>2, <2>3 DEF TablesOK
    <2>6. RestOK'
      BY <1>2, <2>1 DEF RestOK, RestPlaces
    <2>7. \A o \in dbObj : dbTasks[o] \subseteq Set(mtasks'[o])
      BY <1>1, <1>3, <2>4
    <2>8. rth.k \in Set(mtasks'[rth.o])
      BY <2>2, <2>3
    <2>9. StoredSoFar'
      BY <1>2, <1>3, <2>1, <2>7, <2>8 DEF StoredSoFar, Pending
    <2> QED
      BY <2>5, <2>6, <2>9
  <1>5. ASSUME NEW n \in 1..Len(mtasks[rth.o]), rth.op = "stop", mtasks[rth.o][n] = rth.k,
               mtasks' = [mtasks EXCEPT ![rth.o] = Without(@, n)],
               rth' = [rth EXCEPT !.at = "stop"]
        PROVE  TablesOK' /\ RestOK' /\ StoredSoFar'
    <2>1. /\ rth' \in RestRecord /\ rth'.at = "stop" /\ rth'.op = "stop" /\ rth'.o = rth.o
          /\ rth'.k = rth.k
      BY <1>2, <1>5, RestGoes DEF RestPlace
    <2>2. /\ Without(mtasks[rth.o], n) \in Seq(Task)
          /\ Set(mtasks[rth.o]) \ {rth.k} \subseteq Set(Without(mtasks[rth.o], n))
      BY <1>1, <1>2, <1>5, SetWithout
    <2>3. /\ mtasks' \in [Obj -> Seq(Task)]
          /\ mtasks'[rth.o] = Without(mtasks[rth.o], n)
          /\ \A o \in Obj : o # rth.o => mtasks'[o] = mtasks[o]
      BY <1>1, <1>2, <1>5, <2>2
    <2>4. TablesOK'
      BY <1>1, <1>2, <2>3 DEF TablesOK
    <2>5. RestOK'
      BY <1>2, <2>1 DEF RestOK, RestPlaces
    <2>6. ASSUME NEW o \in dbObj
          PROVE  dbTasks[o] \ (IF o = rth.o THEN {rth.k} ELSE {}) \subseteq Set(mtasks'[o])
      BY <1>1, <1>3, <2>2, <2>3
    <2>7. StoredSoFar'
      BY <1>2, <1>3, <2>1, <2>6 DEF StoredSoFar, Pending
    <2> QED
      BY <2>4, <2>5, <2>7
  <1>6. CASE rth' = RIdle /\ UNCHANGED mtasks
    <2>1. rth' \in RestRecord /\ rth'.at = "idle" /\ rth'.op = "none"
      BY <1>6 DEF RIdle, RestRecord, RestPlace, RestOp
    <2>2. TablesOK'
      BY <1>1, <1>2, <1>6 DEF TablesOK
    <2>3. RestOK'
      BY <2>1 DEF RestOK, RestPlaces
    <2>4. StoredSoFar'
      BY <1>2, <1>3, <1>6, <2>1 DEF StoredSoFar, Pending
    <2> QED
      BY <2>2, <2>3, <2>4
  <1> QED
    BY <1>4, <1>5, <1>6 DEF EditTasks

\* A deleted object leaves m_obj_vec.
LEMMA EraseSteps ==
  ASSUME ClusterInvariant, RestErases
  PROVE  TablesOK' /\ RestOK' /\ StoredSoFar'
  <1>1. /\ rth.at = "erase" /\ rth.op = "del" /\ rth.o \in Obj /\ rth \in RestRecord
        /\ mobj' = mobj \ {rth.o} /\ rth' = [rth EXCEPT !.at = "db"]
        /\ UNCHANGED <<mtasks, slaveOf, dbObj, dbTasks>>
    BY DEF RestErases, db, ClusterInvariant, RestOK, RestPlaces, RestRecord, RestOp
  <1>2. /\ rth' \in RestRecord /\ rth'.at = "db" /\ rth'.op = "del" /\ rth'.o = rth.o
    BY <1>1, RestGoes DEF RestPlace
  <1>3. mobj = dbObj /\ \A o \in dbObj : dbTasks[o] \subseteq Set(mtasks[o])
    BY <1>1 DEF ClusterInvariant, StoredSoFar, Pending
  <1>4. TablesOK'
    BY <1>1 DEF ClusterInvariant, TablesOK
  <1>5. RestOK'
    BY <1>1, <1>2 DEF RestOK, RestPlaces
  <1>6. StoredSoFar'
    BY <1>1, <1>2, <1>3 DEF StoredSoFar, Pending
  <1> QED
    BY <1>4, <1>5, <1>6

\* The database catches up with the tables.
LEMMA SaveSteps ==
  ASSUME ClusterInvariant, RestSaves
  PROVE  TablesOK' /\ RestOK' /\ StoredSoFar'
  <1>1. /\ rth.at = "db" /\ rth' = RIdle /\ UNCHANGED <<mobj, mtasks, slaveOf>>
        /\ rth.o \in Obj /\ rth.op \in {"add", "start", "stop", "del"}
        /\ rth.op \in {"start", "stop"} => rth.k \in Task
    BY DEF RestSaves, objTab, ClusterInvariant, RestOK
  <1>2. rth' \in RestRecord /\ rth'.at = "idle" /\ rth'.op = "none"
    BY <1>1 DEF RIdle, RestRecord, RestPlace, RestOp
  <1>3. /\ mobj \subseteq Obj /\ dbObj \subseteq Obj /\ mtasks \in [Obj -> Seq(Task)]
        /\ dbTasks \in [Obj -> SUBSET Task]
        /\ slaveOf \in [Obj -> Slave \cup {NoSlave}]
    BY DEF ClusterInvariant, TablesOK
  <1>4. StoredSoFar
    BY DEF ClusterInvariant
  <1>5. /\ dbObj' \subseteq Obj /\ dbTasks' \in [Obj -> SUBSET Task] /\ mobj = dbObj'
        /\ \A o \in dbObj' : dbTasks'[o] \subseteq Set(mtasks[o])
    <2>1. CASE rth.op = "add" /\ DBUpdate(rth.o)
      BY <1>1, <1>3, <1>4, <2>1 DEF DBUpdate, StoredSoFar, Pending
    <2>2. CASE rth.op = "start" /\ DBPush(rth.o, rth.k)
      BY <1>1, <1>3, <1>4, <2>2 DEF DBPush, StoredSoFar, Pending
    <2>3. CASE rth.op = "stop" /\ DBPull(rth.o, rth.k)
      BY <1>1, <1>3, <1>4, <2>3 DEF DBPull, StoredSoFar, Pending
    <2>4. CASE rth.op = "del" /\ DBDel(rth.o)
      BY <1>1, <1>3, <1>4, <2>4 DEF DBDel, StoredSoFar, Pending
    <2> QED
      BY <2>1, <2>2, <2>3, <2>4 DEF RestSaves
  <1>6. TablesOK'
    BY <1>1, <1>3, <1>5 DEF TablesOK
  <1>7. RestOK'
    BY <1>2 DEF RestOK, RestPlaces
  <1>8. StoredSoFar'
    BY <1>1, <1>2, <1>5 DEF StoredSoFar, Pending
  <1> QED
    BY <1>6, <1>7, <1>8

-----------------------------------------------------------------------------
(* The invariant *)

\* The tables are loaded from the database.
LEMMA ClusterInit == Init => ClusterInvariant
  <1> SUFFICES ASSUME Init PROVE ClusterInvariant
    OBVIOUS
  <1>1. SlaveVec[1] \in Slave
    BY SlaveAssumption DEF Slave
  <1>2. TablesOK
    <2>1. InitTasks \in [Obj -> Seq(Task)] /\ InitObj \subseteq Obj
      BY ObjAssumption DEF InitObj
    <2>2. ASSUME NEW o \in Obj PROVE Set(InitTasks[o]) \in SUBSET Task
      BY <2>1 DEF Set
    <2> QED
      BY <1>1, <2>1, <2>2 DEF Init, TablesOK
  <1>3. ObjThreadOK
    BY DEF Init, ObjThreadOK, OIdle, ObjRecord, ObjThreadPlace
  <1>4. rth \in RestRecord /\ rth.at = "idle" /\ rth.op = "none"
    BY DEF Init, RIdle, RestRecord, RestPlace, RestOp
  <1>5. RestOK
    BY <1>4 DEF RestOK, RestPlaces
  <1>6. StoredSoFar
    <2>1. mobj = dbObj /\ dbObj \subseteq Obj /\ \A o \in Obj : dbTasks[o] \subseteq Set(mtasks[o])
      BY DEF Init, InitObj
    <2> QED
      BY <1>4, <2>1 DEF StoredSoFar, Pending
  <1> QED
    BY <1>2, <1>3, <1>5, <1>6 DEF ClusterInvariant

\* ObjThread's own state stays right when others take a step: they take slaves
\* from objects only while it holds no mutex, and is idle.
LEMMA ObjThreadKept ==
  ASSUME ClusterInvariant, UNCHANGED <<oth, objMtx>>,
         objMtx = "free" \/ \A o \in Obj : slaveOf[o] \in Slave => slaveOf'[o] \in Slave
  PROVE  ObjThreadOK'
  <1>1. ObjThreadOK
    BY DEF ClusterInvariant
  <1>2. oth.at \in ObjThreadPlace
    BY <1>1 DEF ObjThreadOK, ObjRecord
  <1>3. CASE objMtx = "free"
    <2>1. oth.at = "idle"
      BY <1>1, <1>3 DEF ObjThreadOK
    <2> QED
      BY <1>1, <2>1 DEF ObjThreadOK
  <1>4. CASE \A o \in Obj : slaveOf[o] \in Slave => slaveOf'[o] \in Slave
    BY <1>1, <1>4 DEF ObjThreadOK
  <1> QED
    BY <1>3, <1>4

\* The invariant is kept by every step.
LEMMA ClusterStep == ClusterInvariant /\ [Next]_vars => ClusterInvariant'
  <1> SUFFICES ASSUME ClusterInvariant, [Next]_vars PROVE ClusterInvariant'
    OBVIOUS
  <1>1. CASE SlaveThread \/ \E s \in Slave : SlaveCrash(s) \/ SlaveRestart(s)
    <2>1. /\ UNCHANGED <<mobj, mtasks, db, objMtx, oth, rth>>
          /\ slaveOf' \in [Obj -> Slave \cup {NoSlave}]
          /\ slaveOf' = slaveOf \/ objMtx = "free"
      BY <1>1, SlaveSteps
    <2>2. ObjThreadOK'
      BY <2>1, ObjThreadKept
    <2>3. TablesOK' /\ RestOK' /\ StoredSoFar'
      BY <2>1 DEF ClusterInvariant, TablesOK, RestOK, StoredSoFar, Pending, db
    <2> QED
      BY <2>2, <2>3 DEF ClusterInvariant
  <1>2. CASE ObjThread
    <2>1. /\ UNCHANGED <<mobj, mtasks, db, rth>>
          /\ slaveOf' \in [Obj -> Slave \cup {NoSlave}] /\ ObjThreadOK'
      BY <1>2, ObjThreadSteps
    <2>2. TablesOK' /\ RestOK' /\ StoredSoFar'
      BY <2>1 DEF ClusterInvariant, TablesOK, RestOK, StoredSoFar, Pending, db
    <2> QED
      BY <2>1, <2>2 DEF ClusterInvariant
  <1>3. CASE RestThread \/ RequestAddObj \/ RequestOnObj
    <2>1. /\ UNCHANGED <<oth, objMtx>> /\ slaveOf' \in [Obj -> Slave \cup {NoSlave}]
          /\ objMtx = "free" \/ \A o \in Obj : slaveOf[o] \in Slave => slaveOf'[o] \in Slave
      BY <1>3, RestQuiet
    <2>2. ObjThreadOK'
      BY <2>1, ObjThreadKept
    <2>3. CASE \/ RestStartChecks \/ RestChooses \/ RestAssigns \/ RestStarts
               \/ RestStopChecks \/ RestStopPosts \/ RestNullSlave
      <3>1. RestOK' /\ StoredSoFar' /\ UNCHANGED <<mobj, mtasks, db>>
        BY <2>3, RestQuietSteps
      <3>2. TablesOK'
        BY <2>1, <3>1 DEF ClusterInvariant, TablesOK, db
      <3> QED
        BY <2>2, <3>1, <3>2 DEF ClusterInvariant
    <2>4. CASE RequestAddObj \/ RequestOnObj
      BY <2>2, <2>4, RequestSteps DEF ClusterInvariant
    <2>5. CASE EditTasks
      BY <2>2, <2>5, EditSteps DEF ClusterInvariant
    <2>6. CASE RestErases
      BY <2>2, <2>6, EraseSteps DEF ClusterInvariant
    <2>7. CASE RestSaves
      BY <2>2, <2>7, SaveSteps DEF ClusterInvariant
    <2> QED
      BY <1>3, <2>3, <2>4, <2>5, <2>6, <2>7 DEF RestThread
  <1>4. CASE UNCHANGED vars
    BY <1>4 DEF vars, ClusterInvariant, TablesOK, ObjThreadOK, RestOK, StoredSoFar, Pending
  <1> QED
    BY <1>1, <1>2, <1>3, <1>4 DEF Next

\* Between two requests the database holds the objects of the master and no task
\* that the master does not have: nothing that was stopped or deleted comes back
\* with it, however the other threads and the slaves interfere (RestThread).
THEOREM StoredIsConfiguredHolds == Spec => []StoredIsConfigured
  <1>1. ClusterInvariant => StoredIsConfigured
    <2> SUFFICES ASSUME ClusterInvariant, rth.at = "idle"
                 PROVE  dbObj = mobj /\ \A o \in dbObj : dbTasks[o] \subseteq Set(mtasks[o])
      BY DEF StoredIsConfigured
    <2>1. rth.op = "none"
      BY DEF ClusterInvariant, RestOK, RestRecord, RestOp, RestPlaces
    <2> QED
      BY <2>1 DEF ClusterInvariant, StoredSoFar, Pending
  <1> QED
    BY <1>1, ClusterInit, ClusterStep, PTL DEF Spec

\* ObjThread never reads obj->slave of an object that has none: what it was given
\* stays until its tasks are started, because ResetSlaveObj and the requests that
\* take a slave away wait for m_obj_mtx.
THEOREM ObjThreadHasSlaveHolds == Spec => []ObjThreadHasSlave
  <1>1. ClusterInvariant => ObjThreadHasSlave
    BY SlaveAssumption DEF ClusterInvariant, ObjThreadOK, ObjThreadHasSlave
  <1> QED
    BY <1>1, ClusterInit, ClusterStep, PTL DEF Spec

-----------------------------------------------------------------------------
(* Database, memory and slaves (MasterStore).                              *)
(*                                                                         *)
(* At every step of a request the memory is what the database will be once *)
(* the request has written (StPending, StMemoryAgrees), and what the       *)
(* database is and will be are both among the configurations that the      *)
(* client may take for stored (StAskedFor).  The slaves follow: one that   *)
(* the master does not take for alive is not initialised (StFresh), so     *)
(* that it gets the output parameters before it is used, and one that is   *)
(* initialised has parameters that were asked for (StTold).                *)

StOut == StOutput \cup {StNone}
StSteps == {"request", "crash", "death", "loss", "fail"}

\* A configuration, and the fields of the memory and of the slaves that the
\* invariant is about.
StConfigOK(c) ==
  /\ DOMAIN c = {"output", "slaves", "objs", "tasks"}
  /\ c.output \in StOut /\ c.slaves \subseteq StSlave /\ c.objs \subseteq StObj
  /\ c.tasks \in [StObj -> SUBSET StTask]

StMemOK(m) ==
  /\ DOMAIN m = {"phase", "output", "slaves", "alive", "off", "ids", "objs", "tasks", "home"}
  /\ m.phase \in {"down", "slaves", "up"} /\ m.output \in StOut
  /\ m.slaves \in Seq(StSlave) /\ m.alive \subseteq StSlave
  /\ m.objs \subseteq StObj /\ m.tasks \in [StObj -> Seq(StTask)]

StNodesOK(n) ==
  /\ DOMAIN n = StSlave
  /\ \A s \in StSlave :
       /\ DOMAIN n[s] = {"up", "sysInit", "outp", "has", "runs"}
       /\ n[s].up \in BOOLEAN /\ n[s].sysInit \in BOOLEAN /\ n[s].outp \in StOut

\* A request, with its parameters and the steps it has.
StReqOK(r) ==
  /\ DOMAIN r = {"at", "op", "s", "o", "k"}
  /\ \/ r.op = "none" /\ r.at = "idle"
     \/ r.op = "output" /\ r.at \in {"tell", "db"} /\ r.k \in StOutput
     \/ r.op = "addSlave" /\ r.at \in {"init", "db"} /\ r.s \in StSlave
     \/ r.op = "delSlave" /\ r.at = "db" /\ r.s \in StSlave
     \/ r.op = "add" /\ r.at = "db" /\ r.o \in StObj
     \/ r.op = "del" /\ r.at \in {"stop", "erase", "db"} /\ r.o \in StObj
     \/ r.op = "start" /\ r.at \in {"assign", "start", "db"} /\ r.o \in StObj /\ r.k \in StTask
     \/ r.op = "stop" /\ r.at \in {"stop", "db"} /\ r.o \in StObj /\ r.k \in StTask

StTypeOK ==
  /\ StNodesOK(node) /\ StMemOK(mem) /\ StConfigOK(store)
  /\ \A c \in asked : StConfigOK(c)
  /\ StReqOK(req)
  /\ used \in [StSteps -> Nat]
  /\ \A o \in StObj : IsFiniteSet(store.tasks[o])

\* What the database will be when the request has written.
StPending ==
  IF req.op = "none" \/ (req.op = "del" /\ req.at # "db") THEN store ELSE StApply(store, req)

\* The memory is what the database will be.
StAgrees(c) ==
  /\ mem.output = c.output /\ StRange(mem.slaves) = c.slaves /\ mem.objs = c.objs
  /\ \A o \in mem.objs : c.tasks[o] \subseteq StRange(mem.tasks[o])

StMemoryAgrees ==
  used.fail = 0 =>
    /\ mem.phase = "up" => StAgrees(StPending)
    /\ mem.phase = "slaves" => mem.output = store.output /\ StRange(mem.slaves) \subseteq store.slaves
    /\ \A o \in StObj : o \notin store.objs => store.tasks[o] = {}

StOnce(q) == \A i, j \in 1..Len(q) : q[i] = q[j] => i = j

\* Only a master that is up serves a request, and knows each of its slaves once.
StServes ==
  /\ mem.phase # "up" => req.op = "none"
  /\ req.op \in {"start", "stop"} => req.o \in mem.objs
  /\ StOnce(mem.slaves)
  /\ mem.phase = "down" => mem.slaves = <<>> /\ mem.alive = {}

\* The database now, and once the request has written, is as the client asked.
StAskedFor ==
  used.fail = 0 =>
    store \in asked /\ (req.op # "none" => StApply(store, req) \in asked)

\* A slave that is down has lost what it was told, and one that is not alive to the
\* master is not initialised, unless it is just being added.
StFresh ==
  /\ \A s \in StSlave : node[s].up \/ ~node[s].sysInit
  /\ used.loss = 0 =>
       \A s \in StRange(mem.slaves) \ mem.alive :
         node[s].sysInit => req.at = "init" /\ req.s = s

StAskedOutputs == {c.output : c \in asked}

\* What a slave was told was asked for: any slave before there are parameters in the
\* database, one that is stored or alive after.
StTold ==
  used.fail = 0 =>
    /\ store.output = StNone => \A s \in StSlave : node[s].outp \in StAskedOutputs \cup {StNone}
    /\ used.loss = 0 /\ store.output # StNone =>
         \A s \in store.slaves \cup mem.alive : node[s].sysInit => node[s].outp \in StAskedOutputs
    /\ used.loss = 0 /\ req.op = "output" /\ req.at = "db" =>
         \A s \in store.slaves \cup mem.alive : node[s].sysInit => node[s].outp = req.k

StInvariant ==
  StTypeOK /\ StMemoryAgrees /\ StServes /\ StAskedFor /\ StFresh /\ StTold

-----------------------------------------------------------------------------
\* Two sequences joined are a sequence as long as both.
LEMMA JoinShape ==
  ASSUME NEW S, NEW a \in Seq(S), NEW b \in Seq(S)
  PROVE  a \o b \in Seq(S) /\ Len(a \o b) = Len(a) + Len(b)
OBVIOUS

\* A set of numbers has a least one.
LEMMA LeastNumber ==
  ASSUME NEW T \in SUBSET Nat, NEW n \in T
  PROVE  \E m \in T : \A j \in T : m <= j
<1> DEFINE R == OpToRel(<, Nat)
<1>1. IsWellFoundedOn(R, Nat)
  BY NatLessThanWellFounded
<1>2. \A x, y \in Nat : x < y => <<x, y>> \in R
  BY DEF OpToRel
<1> HIDE DEF R
<1>3. PICK m \in T : \A j \in T : <<j, m>> \notin R
  BY <1>1, WFMin
<1>4. ASSUME NEW j \in T PROVE m <= j
  <2>1. m \in Nat /\ j \in Nat
    OBVIOUS
  <2>2. ~(j < m)
    BY <2>1, <1>2, <1>3
  <2> QED
    BY <2>1, <2>2
<1> QED
  BY <1>4

\* StWithout leaves the other elements of a sequence, each as often as it was.
LEMMA WithoutKeeps ==
  ASSUME NEW S, NEW q \in Seq(S), NEW x \in StRange(q)
  PROVE  /\ StWithout(q, x) \in Seq(S)
         /\ StRange(StWithout(q, x)) \subseteq StRange(q)
         /\ StRange(q) \ {x} \subseteq StRange(StWithout(q, x))
         /\ StOnce(q) => x \notin StRange(StWithout(q, x)) /\ StOnce(StWithout(q, x))
<1> DEFINE First(i) == q[i] = x /\ \A j \in 1..(i - 1) : q[j] # x
           n == CHOOSE i \in 1..Len(q) : First(i)
           w == StWithout(q, x)
<1>1. PICK i \in 1..Len(q) : q[i] = x
  BY DEF StRange
<1>2. \E m \in 1..Len(q) : First(m)
  <2> DEFINE T == {m \in 1..Len(q) : q[m] = x}
  <2>1. T \in SUBSET Nat /\ i \in T
    BY <1>1
  <2>2. PICK m \in T : \A j \in T : m <= j
    BY <2>1, LeastNumber
  <2> QED
    BY <2>1, <2>2
<1>3. n \in 1..Len(q) /\ q[n] = x
  <2> HIDE DEF First
  <2>1. n \in 1..Len(q) /\ First(n)
    BY <1>2
  <2> QED
    BY <2>1 DEF First
<1>4. w = SubSeq(q, 1, n - 1) \o SubSeq(q, n + 1, Len(q))
  BY DEF StWithout, RemoveAt
<1> HIDE DEF n, w
<1>5. /\ Len(q) \in Nat /\ n \in Nat
      /\ \A j \in 1..Len(q) : q[j] \in S
  BY <1>3
<1>6. /\ SubSeq(q, 1, n - 1) \in Seq(S) /\ Len(SubSeq(q, 1, n - 1)) = n - 1
      /\ \A j \in 1..(n - 1) : SubSeq(q, 1, n - 1)[j] = q[j]
  BY <1>3, <1>5
<1>7. /\ SubSeq(q, n + 1, Len(q)) \in Seq(S) /\ Len(SubSeq(q, n + 1, Len(q))) = Len(q) - n
      /\ \A j \in 1..(Len(q) - n) : SubSeq(q, n + 1, Len(q))[j] = q[n + j]
  BY <1>3, <1>5
<1> DEFINE a == SubSeq(q, 1, n - 1)
           b == SubSeq(q, n + 1, Len(q))
<1>8. /\ w \in Seq(S) /\ Len(w) = Len(q) - 1
      /\ \A j \in 1..(Len(q) - 1) : w[j] = IF j < n THEN q[j] ELSE q[j + 1]
  <2> HIDE DEF a, b
  <2>1. w = a \o b /\ a \in Seq(S) /\ b \in Seq(S) /\ Len(a) = n - 1 /\ Len(b) = Len(q) - n
    BY <1>4, <1>6, <1>7 DEF a, b
  <2>2. w \in Seq(S) /\ Len(w) = Len(q) - 1
    <3>1. a \o b \in Seq(S) /\ Len(a \o b) = Len(a) + Len(b)
      BY <2>1, JoinShape
    <3>2. w \in Seq(S) /\ Len(w) = Len(a) + Len(b)
      BY <3>1, <2>1, Zenon
    <3>3. (n - 1) + (Len(q) - n) = Len(q) - 1
      BY <1>5
    <3> QED
      BY <3>2, <3>3, <2>1, Zenon
  <2>3. ASSUME NEW j \in 1..(Len(q) - 1) PROVE w[j] = IF j < n THEN q[j] ELSE q[j + 1]
    <3>1. CASE j < n
      <4>1. w[j] = a[j]
        BY <3>1, <2>1, <1>3, <1>5
      <4> QED
        BY <4>1, <3>1, <1>3, <1>5, <1>6 DEF a
    <3>2. CASE j >= n
      <4>1. w[j] = b[j - n + 1]
        BY <3>2, <2>1, <1>3, <1>5, SMTT(30)
      <4>2. j - n + 1 \in 1..(Len(q) - n) /\ n + (j - n + 1) = j + 1
        BY <3>2, <1>3, <1>5
      <4>3. b[j - n + 1] = q[n + (j - n + 1)]
        BY <4>2, <1>7 DEF b
      <4> QED
        BY <4>1, <4>2, <4>3, <3>2, <1>5
    <3> QED
      BY <3>1, <3>2, <1>5
  <2> QED
    BY <2>2, <2>3
<1> HIDE DEF a, b
<1>9. \A j \in 1..Len(w) : \E l \in 1..Len(q) : l # n /\ w[j] = q[l]
  BY <1>3, <1>5, <1>8
<1>10. \A l \in 1..Len(q) : l # n => \E j \in 1..Len(w) : w[j] = q[l]
  <2> TAKE l \in 1..Len(q)
  <2>1. CASE l < n
    BY <2>1, <1>3, <1>5, <1>8
  <2>2. CASE l > n
    <3>1. l - 1 \in 1..Len(w) /\ w[l - 1] = q[l]
      BY <2>2, <1>3, <1>5, <1>8
    <3> QED
      BY <3>1
  <2> QED
    BY <2>1, <2>2, <1>5
<1>11. StRange(w) \subseteq StRange(q) /\ StRange(q) \ {x} \subseteq StRange(w)
  <2>1. StRange(w) \subseteq StRange(q)
    BY <1>9 DEF StRange
  <2>2. ASSUME NEW y \in StRange(q), y # x PROVE y \in StRange(w)
    <3>1. PICK l \in 1..Len(q) : q[l] = y
      BY DEF StRange
    <3>2. l # n
      BY <3>1, <2>2, <1>3
    <3> QED
      BY <3>1, <3>2, <1>10 DEF StRange
  <2> QED
    BY <2>1, <2>2
<1>12. ASSUME StOnce(q) PROVE x \notin StRange(w) /\ StOnce(w)
  <2>1. x \notin StRange(w)
    BY <1>3, <1>9, <1>12 DEF StRange, StOnce
  <2>2. ASSUME NEW c \in 1..Len(w), NEW d \in 1..Len(w), w[c] = w[d] PROVE c = d
    <3> DEFINE Up(j) == IF j < n THEN j ELSE j + 1
    <3>1. Up(c) \in 1..Len(q) /\ Up(d) \in 1..Len(q) /\ q[Up(c)] = q[Up(d)]
      BY <2>2, <1>3, <1>5, <1>8
    <3>2. Up(c) = Up(d)
      BY <3>1, <1>12 DEF StOnce
    <3> QED
      BY <3>2, <1>3, <1>5, <1>8
  <2> QED
    BY <2>1, <2>2 DEF StOnce
<1> QED
  BY <1>8, <1>11, <1>12 DEF w

\* The counters only grow, and count what has failed or was lost.
StUsedGrows ==
  /\ used' \in [StSteps -> Nat]
  /\ used'.fail = 0 => used.fail = 0
  /\ used'.loss = 0 => used.loss = 0

\* StUp adds to one counter.
LEMMA UpGrows ==
  ASSUME used \in [StSteps -> Nat], NEW what \in StSteps, StUp(what)
  PROVE  StUsedGrows /\ used'[what] # 0
<1>1. used' = [used EXCEPT ![what] = used[what] + 1]
  BY DEF StUp
<1>2. used' \in [StSteps -> Nat]
  BY <1>1
<1>3. \A b \in StSteps : used'[b] = IF b = what THEN used[b] + 1 ELSE used[b]
  BY <1>1
<1>4. \A b \in StSteps : used[b] \in Nat
  OBVIOUS
<1>5. \A b \in StSteps : used'[b] = 0 => used[b] = 0
  BY <1>3, <1>4
<1>6. used'[what] # 0
  BY <1>3, <1>4
<1> QED
  BY <1>2, <1>5, <1>6 DEF StUsedGrows, StSteps

\* An answer comes from a slave that is up, and only the answer of one that is down
\* fails to come unless it is lost.
LEMMA AnswerGrows ==
  ASSUME used \in [StSteps -> Nat], NEW s, NEW ok \in BOOLEAN, StAnswered(s, ok)
  PROVE  /\ StUsedGrows
         /\ ok => node[s].up
         /\ ~ok /\ used'.loss = 0 => ~node[s].up
<1>1. CASE UNCHANGED used
  <2>1. StUsedGrows
    BY <1>1 DEF StUsedGrows
  <2>2. ~StUp("loss")
    BY <1>1 DEF StUp, StSteps
  <2> QED
    BY <2>1, <2>2 DEF StAnswered
<1>2. CASE ~ok /\ StUp("loss")
  <2>1. StUsedGrows /\ used'["loss"] # 0
    BY <1>2, UpGrows DEF StSteps
  <2> QED
    BY <2>1, <1>2
<1> QED
  BY <1>1, <1>2 DEF StAnswered

\* A request changes one field of a configuration, or the tasks of one object too.
StApplied(c, r, d) ==
  /\ d.output = IF r.op = "output" THEN r.k ELSE c.output
  /\ d.slaves = IF r.op = "addSlave" THEN c.slaves \cup {r.s}
                ELSE IF r.op = "delSlave" THEN c.slaves \ {r.s} ELSE c.slaves
  /\ d.objs = IF r.op = "add" THEN c.objs \cup {r.o}
              ELSE IF r.op = "del" THEN c.objs \ {r.o} ELSE c.objs
  /\ \A o \in StObj : d.tasks[o] =
       IF r.op \notin {"add", "del", "start", "stop"} \/ o # r.o THEN c.tasks[o]
       ELSE IF r.op = "start" THEN c.tasks[o] \cup {r.k}
       ELSE IF r.op = "stop" THEN c.tasks[o] \ {r.k} ELSE {}

\* StApply does that, and its result is a configuration.
LEMMA ApplyShape ==
  ASSUME NEW c, NEW r, StConfigOK(c), StReqOK(r), r.op # "none"
  PROVE  StConfigOK(StApply(c, r)) /\ StApplied(c, r, StApply(c, r))
<1>1. CASE r.op = "output"
  <2>1. StApply(c, r) = [c EXCEPT !.output = r.k] /\ r.k \in StOut
    BY <1>1 DEF StApply, StReqOK, StOut
  <2> QED
    BY <2>1, <1>1 DEF StConfigOK, StApplied
<1>2. CASE r.op = "addSlave"
  <2>1. StApply(c, r) = [c EXCEPT !.slaves = c.slaves \cup {r.s}] /\ r.s \in StSlave
    BY <1>2 DEF StApply, StReqOK
  <2> QED
    BY <2>1, <1>2 DEF StConfigOK, StApplied
<1>3. CASE r.op = "delSlave"
  <2>1. StApply(c, r) = [c EXCEPT !.slaves = c.slaves \ {r.s}]
    BY <1>3 DEF StApply, StReqOK
  <2> QED
    BY <2>1, <1>3 DEF StConfigOK, StApplied
<1>4. CASE r.op = "add"
  <2>1. StApply(c, r) = [c EXCEPT !.objs = c.objs \cup {r.o}, !.tasks[r.o] = {}] /\ r.o \in StObj
    BY <1>4 DEF StApply, StReqOK
  <2> QED
    BY <2>1, <1>4 DEF StConfigOK, StApplied
<1>5. CASE r.op = "del"
  <2>1. StApply(c, r) = [c EXCEPT !.objs = c.objs \ {r.o}, !.tasks[r.o] = {}] /\ r.o \in StObj
    BY <1>5 DEF StApply, StReqOK
  <2> QED
    BY <2>1, <1>5 DEF StConfigOK, StApplied
<1>6. CASE r.op = "start"
  <2>1. /\ StApply(c, r) = [c EXCEPT !.tasks[r.o] = c.tasks[r.o] \cup {r.k}]
        /\ r.o \in StObj /\ r.k \in StTask
    BY <1>6 DEF StApply, StReqOK
  <2> DEFINE t == [c.tasks EXCEPT ![r.o] = c.tasks[r.o] \cup {r.k}]
  <2>2. t \in [StObj -> SUBSET StTask] /\ c.tasks \in [StObj -> SUBSET StTask]
    BY <2>1 DEF StConfigOK
  <2>3. \A o \in StObj : t[o] = IF o = r.o THEN c.tasks[o] \cup {r.k} ELSE c.tasks[o]
    BY <2>1, <2>2
  <2>4. StApply(c, r) = [c EXCEPT !.tasks = t]
    BY <2>1, <2>2 DEF StConfigOK
  <2> HIDE DEF t
  <2> QED
    BY <2>2, <2>3, <2>4, <1>6 DEF StConfigOK, StApplied
<1>7. CASE r.op = "stop"
  <2>1. /\ StApply(c, r) = [c EXCEPT !.tasks[r.o] = c.tasks[r.o] \ {r.k}]
        /\ r.o \in StObj /\ r.k \in StTask
    BY <1>7 DEF StApply, StReqOK
  <2> DEFINE t == [c.tasks EXCEPT ![r.o] = c.tasks[r.o] \ {r.k}]
  <2>2. t \in [StObj -> SUBSET StTask] /\ c.tasks \in [StObj -> SUBSET StTask]
    BY <2>1 DEF StConfigOK
  <2>3. \A o \in StObj : t[o] = IF o = r.o THEN c.tasks[o] \ {r.k} ELSE c.tasks[o]
    BY <2>1, <2>2
  <2>4. StApply(c, r) = [c EXCEPT !.tasks = t]
    BY <2>1, <2>2 DEF StConfigOK
  <2> HIDE DEF t
  <2> QED
    BY <2>2, <2>3, <2>4, <1>7 DEF StConfigOK, StApplied
<1> QED
  BY <1>1, <1>2, <1>3, <1>4, <1>5, <1>6, <1>7 DEF StReqOK

\* What is written is what was asked for, when the object of a task is stored.
LEMMA WrittenShape ==
  ASSUME StConfigOK(store), StReqOK(req), req.op # "none",
         req.op \in {"start", "stop"} => req.o \in store.objs
  PROVE  StWritten = StApply(store, req)
<1>1. CASE req.op \in {"start", "stop"}
  <2>1. /\ store.objs \cup {req.o} = store.objs /\ req.o \in StObj
        /\ store.tasks \in [StObj -> SUBSET StTask]
        /\ DOMAIN store = {"output", "slaves", "objs", "tasks"}
    BY <1>1 DEF StConfigOK, StReqOK
  <2>2. CASE req.op = "start"
    <3>1. /\ StWritten = [store EXCEPT !.objs = store.objs \cup {req.o},
                                       !.tasks[req.o] = store.tasks[req.o] \cup {req.k}]
          /\ StApply(store, req) = [store EXCEPT !.tasks[req.o] = store.tasks[req.o] \cup {req.k}]
      BY <2>2 DEF StWritten, StApply
    <3> QED
      BY <3>1, <2>1
  <2>3. CASE req.op = "stop"
    <3>1. /\ StWritten = [store EXCEPT !.objs = store.objs \cup {req.o},
                                       !.tasks[req.o] = store.tasks[req.o] \ {req.k}]
          /\ StApply(store, req) = [store EXCEPT !.tasks[req.o] = store.tasks[req.o] \ {req.k}]
      BY <2>3 DEF StWritten, StApply
    <3> QED
      BY <3>1, <2>1
  <2> QED
    BY <1>1, <2>2, <2>3
<1>2. CASE req.op \in {"output", "addSlave", "delSlave", "add", "del"}
  BY <1>2 DEF StWritten, StApply
<1> QED
  BY <1>1, <1>2 DEF StReqOK

-----------------------------------------------------------------------------
(* What the steps of the slaves, the threads and the handlers change.      *)

\* A slave is as it was, but for its objects and tasks.
StSame(s) ==
  node'[s].up = node[s].up /\ node'[s].sysInit = node[s].sysInit /\ node'[s].outp = node[s].outp

StInits(s) ==
  /\ node'[s].up = node[s].up /\ node'[s].sysInit
  /\ node'[s].outp = IF mem.output = StNone THEN node[s].outp ELSE mem.output

\* The memory is as it was, but for where the objects are and which slaves are alive.
StMemKept ==
  /\ mem'.phase = mem.phase /\ mem'.output = mem.output /\ mem'.slaves = mem.slaves
  /\ mem'.objs = mem.objs /\ mem'.tasks = mem.tasks

\* A slave is not alive any more only when it did not answer.
StLeaves ==
  /\ mem'.alive \subseteq mem.alive
  /\ used'.loss = 0 => \A s \in mem.alive \ mem'.alive : ~node[s].up

StAllSame == StNodesOK(node)' /\ \A s \in StSlave : StSame(s)

\* SlaveSystemInit changes one slave.
LEMMA InitedShape ==
  ASSUME StNodesOK(node), StMemOK(mem), NEW s \in StSlave, node' = StInited(node, s, mem.output)
  PROVE  StNodesOK(node)' /\ StInits(s) /\ \A t \in StSlave \ {s} : StSame(t)
<1>1. CASE mem.output = StNone
  <2>1. node' = [node EXCEPT ![s].sysInit = TRUE, ![s].outp = node[s].outp]
    BY <1>1 DEF StInited
  <2>2. DOMAIN node' = StSlave /\ \A t \in StSlave \ {s} : node'[t] = node[t]
    BY <2>1 DEF StNodesOK
  <2>3. node'[s] = [node[s] EXCEPT !.sysInit = TRUE, !.outp = node[s].outp]
    BY <2>1 DEF StNodesOK
  <2>4. /\ DOMAIN node'[s] = {"up", "sysInit", "outp", "has", "runs"}
        /\ node'[s].up = node[s].up /\ node'[s].sysInit = TRUE /\ node'[s].outp = node[s].outp
    BY <2>3 DEF StNodesOK
  <2>5. \A t \in StSlave \ {s} : StSame(t)
    BY <2>2 DEF StSame
  <2>6. StInits(s)
    BY <2>4, <1>1 DEF StInits
  <2>7. StNodesOK(node)'
    <3>1. ASSUME NEW t \in StSlave
          PROVE  /\ DOMAIN node'[t] = {"up", "sysInit", "outp", "has", "runs"}
                 /\ node'[t].up \in BOOLEAN /\ node'[t].sysInit \in BOOLEAN /\ node'[t].outp \in StOut
      <4>1. /\ DOMAIN node[t] = {"up", "sysInit", "outp", "has", "runs"}
            /\ node[t].up \in BOOLEAN /\ node[t].sysInit \in BOOLEAN /\ node[t].outp \in StOut
        BY DEF StNodesOK
      <4>2. mem.output \in StOut
        BY DEF StMemOK
      <4>3. CASE t = s
        BY <4>1, <4>2, <4>3, <2>4
      <4>4. CASE t # s
        BY <4>1, <4>4, <2>2
      <4> QED
        BY <4>3, <4>4
    <3> QED
      BY <3>1, <2>2 DEF StNodesOK
  <2> QED
    BY <2>5, <2>6, <2>7
<1>2. CASE mem.output # StNone
  <2>1. node' = [node EXCEPT ![s].sysInit = TRUE, ![s].outp = mem.output] /\ mem.output \in StOut
    BY <1>2 DEF StInited, StMemOK
  <2>2. DOMAIN node' = StSlave /\ \A t \in StSlave \ {s} : node'[t] = node[t]
    BY <2>1 DEF StNodesOK
  <2>3. node'[s] = [node[s] EXCEPT !.sysInit = TRUE, !.outp = mem.output]
    BY <2>1 DEF StNodesOK
  <2>4. /\ DOMAIN node'[s] = {"up", "sysInit", "outp", "has", "runs"}
        /\ node'[s].up = node[s].up /\ node'[s].sysInit = TRUE /\ node'[s].outp = mem.output
    BY <2>3 DEF StNodesOK
  <2>5. \A t \in StSlave \ {s} : StSame(t)
    BY <2>2 DEF StSame
  <2>6. StInits(s)
    BY <2>4, <1>2 DEF StInits
  <2>7. StNodesOK(node)'
    <3>1. ASSUME NEW t \in StSlave
          PROVE  /\ DOMAIN node'[t] = {"up", "sysInit", "outp", "has", "runs"}
                 /\ node'[t].up \in BOOLEAN /\ node'[t].sysInit \in BOOLEAN /\ node'[t].outp \in StOut
      <4>1. /\ DOMAIN node[t] = {"up", "sysInit", "outp", "has", "runs"}
            /\ node[t].up \in BOOLEAN /\ node[t].sysInit \in BOOLEAN /\ node[t].outp \in StOut
        BY DEF StNodesOK
      <4>2. mem.output \in StOut
        BY DEF StMemOK
      <4>3. CASE t = s
        BY <4>1, <4>2, <4>3, <2>4
      <4>4. CASE t # s
        BY <4>1, <4>4, <2>2
      <4> QED
        BY <4>3, <4>4
    <3> QED
      BY <3>1, <2>2 DEF StNodesOK
  <2> QED
    BY <2>5, <2>6, <2>7
<1> QED
  BY <1>1, <1>2

\* No slave changes with node unchanged.
LEMMA UnchangedSame ==
  ASSUME StNodesOK(node), UNCHANGED node
  PROVE  StAllSame
BY DEF StAllSame, StSame, StNodesOK

\* Tasks that are started are all that changes on a slave.
LEMMA StartsShape ==
  ASSUME StNodesOK(node), NEW o, NEW ks, StStarts(o, ks)
  PROVE  StAllSame
<1>1. CASE node' = node
  BY <1>1, UnchangedSame
<1>2. CASE node' # node
  <2>1. PICK s : s = mem.home[o]
    OBVIOUS
  <2>2. node' = [node EXCEPT ![s].runs = node[s].runs \cup {<<o, k>> : k \in ks}]
    BY <1>2, <2>1 DEF StStarts
  <2> QED
    BY <2>2 DEF StNodesOK, StAllSame, StSame
<1> QED
  BY <1>1, <1>2

\* AssignObjToSlave leaves the configuration alone, and only a slave that did not answer
\* is not alive any more.
LEMMA AssignsShape ==
  ASSUME StTypeOK, NEW o, NEW s \in StSlave, NEW ok \in BOOLEAN, StAssigns(o, s, ok)
  PROVE  StMemOK(mem)' /\ StMemKept /\ StLeaves /\ StAllSame /\ StUsedGrows
<1>1. StMemOK(mem) /\ StNodesOK(node) /\ used \in [StSteps -> Nat] /\ StAnswered(s, ok)
  BY DEF StTypeOK, StAssigns
<1>2. StUsedGrows /\ (~ok /\ used'.loss = 0 => ~node[s].up)
  BY <1>1, AnswerGrows
<1>3. CASE ok
  <2>1. mem' = [mem EXCEPT !.home[o] = s] /\ node' = [node EXCEPT ![s].has = node[s].has \cup {o}]
    BY <1>3 DEF StAssigns
  <2>2. StMemOK(mem)' /\ StMemKept /\ mem'.alive = mem.alive
    BY <2>1, <1>1 DEF StMemOK, StMemKept
  <2>3. StAllSame
    BY <2>1, <1>1 DEF StNodesOK, StAllSame, StSame
  <2> QED
    BY <2>2, <2>3, <1>2 DEF StLeaves
<1>4. CASE ~ok
  <2>1. mem' = [mem EXCEPT !.alive = mem.alive \ {s}] /\ node' = node
    BY <1>4 DEF StAssigns
  <2>2. StMemOK(mem)' /\ StMemKept /\ mem'.alive = mem.alive \ {s}
    BY <2>1, <1>1 DEF StMemOK, StMemKept
  <2>3. StAllSame
    BY <2>1, <1>1, UnchangedSame
  <2> QED
    BY <2>2, <2>3, <1>2, <1>4 DEF StLeaves
<1> QED
  BY <1>3, <1>4

\* So does UpdateSlaveStatus when a probe has failed.
LEMMA ProbeFailsShape ==
  ASSUME StTypeOK, NEW s \in StSlave, StProbeFails(s)
  PROVE  StMemOK(mem)' /\ StMemKept /\ StLeaves /\ StAllSame /\ StUsedGrows
<1>1. StMemOK(mem) /\ StNodesOK(node) /\ used \in [StSteps -> Nat] /\ StAnswered(s, FALSE)
  BY DEF StTypeOK, StProbeFails
<1>2. StUsedGrows /\ (used'.loss = 0 => ~node[s].up)
  BY <1>1, AnswerGrows
<1>3. StMemOK(mem)' /\ StMemKept
  BY <1>1 DEF StProbeFails, StMemOK, StMemKept
<1>4. mem'.alive = mem.alive \/ mem'.alive = mem.alive \ {s}
  BY <1>1 DEF StProbeFails, StMemOK
<1>5. StAllSame
  BY <1>1, UnchangedSame DEF StProbeFails
<1> QED
  BY <1>2, <1>3, <1>4, <1>5 DEF StLeaves

\* A slave that answers is alive, and is initialised if it was not.
LEMMA ProbeAnsweredShape ==
  ASSUME StTypeOK, NEW s \in StSlave, StProbeAnswered(s)
  PROVE  /\ StMemOK(mem)' /\ StMemKept /\ mem'.alive = mem.alive \cup {s}
         /\ StNodesOK(node)' /\ \A t \in StSlave \ {s} : StSame(t)
         /\ IF s \notin mem.alive \/ ~node[s].sysInit THEN StInits(s) ELSE StSame(s)
<1>1. StMemOK(mem) /\ StNodesOK(node)
  BY DEF StTypeOK
<1>2. StMemOK(mem)' /\ StMemKept /\ mem'.alive = mem.alive \cup {s}
  BY <1>1 DEF StProbeAnswered, StMemOK, StMemKept
<1>3. CASE s \notin mem.alive \/ ~node[s].sysInit
  <2>1. node' = StInited(node, s, mem.output)
    BY <1>3 DEF StProbeAnswered
  <2> QED
    BY <2>1, <1>1, <1>2, <1>3, InitedShape
<1>4. CASE ~(s \notin mem.alive \/ ~node[s].sysInit)
  <2>1. StAllSame
    BY <1>1, <1>4, UnchangedSame DEF StProbeAnswered
  <2> QED
    BY <2>1, <1>2, <1>4 DEF StAllSame
<1> QED
  BY <1>3, <1>4

\* The request comes to its next step, before it has written.
StReqMoves ==
  /\ StReqOK(req)' /\ req.op # "none"
  /\ req'.op = req.op /\ req'.s = req.s /\ req'.o = req.o /\ req'.k = req.k
  /\ req.op = "del" => req.at # "db" /\ req'.at # "db"

\* A step changes where the request is, and nothing else of it.
LEMMA StepShape ==
  ASSUME StReqOK(req), NEW x, req' = [req EXCEPT !.at = x]
  PROVE  /\ req'.at = x /\ req'.op = req.op /\ req'.s = req.s /\ req'.o = req.o /\ req'.k = req.k
         /\ DOMAIN req' = {"at", "op", "s", "o", "k"}
BY DEF StReqOK

\* HttpStart leaves the configuration alone.
LEMMA HttpStartShape ==
  ASSUME StTypeOK, StHttpStart
  PROVE  /\ StMemOK(mem)' /\ StMemKept /\ StLeaves /\ StAllSame /\ StUsedGrows
         /\ StReqMoves /\ req.op = "start" /\ req.at # "init"
<1>1. /\ StMemOK(mem) /\ StNodesOK(node) /\ used \in [StSteps -> Nat] /\ StReqOK(req)
      /\ req.op = "start" /\ req.at # "init" /\ req.o \in StObj /\ req.k \in StTask
  BY DEF StTypeOK, StHttpStart, StReqOK
<1>2. ASSUME NEW at \in {"start", "db"}, req' = [req EXCEPT !.at = at] PROVE StReqMoves
  BY <1>1, <1>2, StepShape DEF StReqMoves, StReqOK
<1>3. CASE \E s \in StSlave, ok \in BOOLEAN :
             StAssigns(req.o, s, ok) /\ req' = [req EXCEPT !.at = IF ok THEN "start" ELSE "db"]
  <2>1. PICK s \in StSlave, ok \in BOOLEAN :
          StAssigns(req.o, s, ok) /\ req' = [req EXCEPT !.at = IF ok THEN "start" ELSE "db"]
    BY <1>3
  <2>2. StReqMoves
    BY <2>1, <1>2
  <2> QED
    BY <2>1, <2>2, <1>1, AssignsShape
<1>4. CASE UNCHANGED <<mem, node, used>> /\ req' = [req EXCEPT !.at = "db"]
  <2>1. StAllSame /\ StReqMoves
    BY <1>4, <1>1, <1>2, UnchangedSame
  <2> QED
    BY <2>1, <1>1, <1>4 DEF StMemOK, StMemKept, StLeaves, StUsedGrows
<1>5. CASE /\ UNCHANGED <<mem, used>> /\ req' = [req EXCEPT !.at = "db"]
           /\ StStarts(req.o, {req.k})
  <2>1. StAllSame /\ StReqMoves
    BY <1>5, <1>1, <1>2, StartsShape
  <2> QED
    BY <2>1, <1>1, <1>5 DEF StMemOK, StMemKept, StLeaves, StUsedGrows
<1> QED
  BY <1>3, <1>4, <1>5 DEF StHttpStart

\* HttpStop leaves the memory alone.
LEMMA HttpStopShape ==
  ASSUME StTypeOK, NEW ok \in BOOLEAN, StHttpStop(ok)
  PROVE  /\ UNCHANGED mem /\ StAllSame /\ StUsedGrows
         /\ StReqMoves /\ req.op # "output" /\ req.at # "init"
<1>1. /\ StNodesOK(node) /\ used \in [StSteps -> Nat] /\ StReqOK(req)
      /\ req.op \in {"del", "stop"} /\ req.at = "stop"
  BY DEF StTypeOK, StHttpStop, StReqOK
<1>2. req' = [req EXCEPT !.at = IF req.op = "del" THEN "erase" ELSE "db"] /\ UNCHANGED mem
  BY DEF StHttpStop
<1>3. StReqMoves
  BY <1>1, <1>2, StepShape DEF StReqMoves, StReqOK
<1>4. PICK s : s = mem.home[req.o]
  OBVIOUS
<1>5. StUsedGrows
  <2>1. CASE UNCHANGED used
    BY <2>1, <1>1 DEF StUsedGrows
  <2>2. CASE StAnswered(s, ok)
    BY <2>2, <1>1, AnswerGrows
  <2> QED
    BY <2>1, <2>2, <1>4 DEF StHttpStop
<1>6. StAllSame
  <2>1. CASE node' = node
    BY <2>1, <1>1, UnchangedSame
  <2>2. CASE node' # node /\ req.op = "del"
    <3>1. node' = [node EXCEPT ![s].has = node[s].has \ {req.o},
                               ![s].runs = {r \in node[s].runs : r[1] # req.o}]
      BY <2>2, <1>4 DEF StHttpStop
    <3> QED
      BY <3>1, <1>1 DEF StNodesOK, StAllSame, StSame
  <2>3. CASE node' # node /\ req.op # "del"
    <3>1. node' = [node EXCEPT ![s].runs = node[s].runs \ {<<req.o, req.k>>}]
      BY <2>3, <1>4 DEF StHttpStop
    <3> QED
      BY <3>1, <1>1 DEF StNodesOK, StAllSame, StSame
  <2> QED
    BY <2>1, <2>2, <2>3
<1> QED
  BY <1>1, <1>2, <1>3, <1>5, <1>6

\* HttpToSlave gives the output parameters of the memory to every slave that is alive and
\* up, unless a call is lost.
LEMMA HttpToSlaveShape ==
  ASSUME StTypeOK, StHttpToSlave
  PROVE  /\ UNCHANGED mem /\ StNodesOK(node)' /\ StUsedGrows /\ StReqMoves
         /\ req.op = "output" /\ req.at = "tell"
         /\ \A s \in StSlave :
              /\ node'[s].up = node[s].up /\ node'[s].sysInit = node[s].sysInit
              /\ node'[s].outp \in {node[s].outp, mem.output}
              /\ used'.loss = 0 /\ s \in mem.alive /\ node[s].up => node'[s].outp = mem.output
<1>1. /\ StMemOK(mem) /\ StNodesOK(node) /\ used \in [StSteps -> Nat] /\ StReqOK(req)
      /\ req.op = "output" /\ req.at = "tell"
  BY DEF StTypeOK, StHttpToSlave, StReqOK
<1>2. req' = [req EXCEPT !.at = "db"] /\ UNCHANGED mem
  BY DEF StHttpToSlave
<1>3. StReqMoves
  BY <1>1, <1>2, StepShape DEF StReqMoves, StReqOK
<1>4. PICK lost \in SUBSET mem.alive :
        /\ IF lost = {} THEN UNCHANGED used ELSE StUp("loss")
        /\ node' = [s \in StSlave |->
                     IF s \in mem.alive \ lost /\ node[s].up
                       THEN [node[s] EXCEPT !.outp = mem.output] ELSE node[s]]
  BY DEF StHttpToSlave
<1>5. StUsedGrows /\ (used'.loss = 0 => lost = {})
  <2>1. CASE lost = {}
    BY <2>1, <1>1, <1>4 DEF StUsedGrows
  <2>2. CASE lost # {}
    <3>1. StUsedGrows /\ used'["loss"] # 0
      BY <2>2, <1>1, <1>4, UpGrows DEF StSteps
    <3> QED
      BY <3>1
  <2> QED
    BY <2>1, <2>2
<1>6. StNodesOK(node)'
  BY <1>1, <1>4 DEF StNodesOK, StMemOK
<1>7. ASSUME NEW s \in StSlave
      PROVE  /\ node'[s].up = node[s].up /\ node'[s].sysInit = node[s].sysInit
             /\ node'[s].outp \in {node[s].outp, mem.output}
             /\ used'.loss = 0 /\ s \in mem.alive /\ node[s].up => node'[s].outp = mem.output
  <2>1. CASE s \in mem.alive \ lost /\ node[s].up
    <3>1. node'[s] = [node[s] EXCEPT !.outp = mem.output]
      BY <2>1, <1>4
    <3> QED
      BY <3>1, <1>1 DEF StNodesOK
  <2>2. CASE ~(s \in mem.alive \ lost /\ node[s].up)
    <3>1. node'[s] = node[s]
      BY <2>2, <1>4
    <3> QED
      BY <3>1, <2>2, <1>5
  <2> QED
    BY <2>1, <2>2
<1> QED
  BY <1>1, <1>2, <1>3, <1>5, <1>6, <1>7

\* The slave that is added is initialised, or is not alive.
LEMMA SystemInitShape ==
  ASSUME StTypeOK, NEW ok \in BOOLEAN, StSystemInit(ok)
  PROVE  /\ StMemOK(mem)' /\ StMemKept /\ StNodesOK(node)' /\ StUsedGrows /\ StReqMoves
         /\ req.op = "addSlave" /\ req.at = "init" /\ req.s \in StSlave
         /\ \A t \in StSlave \ {req.s} : StSame(t)
         /\ ok => StInits(req.s) /\ node[req.s].up /\ mem'.alive = mem.alive \cup {req.s}
         /\ ~ok => /\ StSame(req.s) /\ mem'.alive = mem.alive \ {req.s}
                   /\ used'.loss = 0 => ~node[req.s].up
<1>1. /\ StMemOK(mem) /\ StNodesOK(node) /\ used \in [StSteps -> Nat] /\ StReqOK(req)
      /\ req.op = "addSlave" /\ req.at = "init" /\ req.s \in StSlave
  BY DEF StTypeOK, StSystemInit, StReqOK
<1>2. /\ req' = [req EXCEPT !.at = "db"] /\ StAnswered(req.s, ok)
      /\ mem' = [mem EXCEPT !.alive = IF ok THEN mem.alive \cup {req.s} ELSE mem.alive \ {req.s}]
      /\ node' = IF ok THEN StInited(node, req.s, mem.output) ELSE node
  BY DEF StSystemInit
<1>3. StReqMoves
  BY <1>1, <1>2, StepShape DEF StReqMoves, StReqOK
<1>4. /\ StUsedGrows /\ (ok => node[req.s].up)
      /\ ~ok /\ used'.loss = 0 => ~node[req.s].up
  BY <1>1, <1>2, AnswerGrows
<1>5. /\ StMemOK(mem)' /\ StMemKept
      /\ mem'.alive = IF ok THEN mem.alive \cup {req.s} ELSE mem.alive \ {req.s}
  BY <1>1, <1>2 DEF StMemOK, StMemKept
<1>6. CASE ok
  <2>1. StNodesOK(node)' /\ StInits(req.s) /\ \A t \in StSlave \ {req.s} : StSame(t)
    BY <1>6, <1>1, <1>2, InitedShape
  <2> QED
    BY <2>1, <1>1, <1>3, <1>4, <1>5, <1>6
<1>7. CASE ~ok
  <2>1. StAllSame
    BY <1>7, <1>1, <1>2, UnchangedSame
  <2> QED
    BY <2>1, <1>1, <1>3, <1>4, <1>5, <1>7 DEF StAllSame
<1> QED
  BY <1>6, <1>7

-----------------------------------------------------------------------------
(* What the steps of MasterParams::Start and the requests change.          *)

\* One more slave in the vector.
LEMMA AppendShape ==
  ASSUME NEW S, NEW q \in Seq(S), NEW x \in S
  PROVE  /\ Append(q, x) \in Seq(S) /\ StRange(Append(q, x)) = StRange(q) \cup {x}
         /\ StOnce(q) /\ x \notin StRange(q) => StOnce(Append(q, x))
<1>1. /\ Append(q, x) \in Seq(S) /\ Len(Append(q, x)) = Len(q) + 1 /\ Len(q) \in Nat
      /\ \A i \in 1..Len(q) : Append(q, x)[i] = q[i]
      /\ Append(q, x)[Len(q) + 1] = x
  OBVIOUS
<1>2. StRange(Append(q, x)) = StRange(q) \cup {x}
  BY <1>1 DEF StRange
<1>3. ASSUME StOnce(q), x \notin StRange(q) PROVE StOnce(Append(q, x))
  BY <1>1, <1>3 DEF StRange, StOnce
<1> QED
  BY <1>1, <1>2, <1>3

\* A finite set has an enumeration.
LEMMA Enumeration ==
  ASSUME NEW T, IsFiniteSet(T)
  PROVE  \E q \in [1..Cardinality(T) -> T] : StRange(q) = T /\ q \in Seq(T)
<1>1. Cardinality(T) \in Nat /\ ExistsBijection(1..Cardinality(T), T)
  BY FS_CardinalityType
<1>2. PICK q \in Bijection(1..Cardinality(T), T) : TRUE
  BY <1>1 DEF ExistsBijection
<1>3. q \in [1..Cardinality(T) -> T] /\ \A y \in T : \E i \in 1..Cardinality(T) : q[i] = y
  BY <1>2 DEF Bijection, Surjection, Injection
<1>4. q \in Seq(T) /\ Len(q) = Cardinality(T)
  BY <1>1, <1>3
<1>5. StRange(q) = T
  BY <1>3, <1>4 DEF StRange
<1> QED
  BY <1>3, <1>4, <1>5

\* The output parameters are loaded first.
LEMMA LoadSystemShape ==
  ASSUME StTypeOK, StLoadSystem
  PROVE  /\ StMemOK(mem)' /\ StAllSame /\ mem.phase = "down" /\ mem'.phase = "slaves"
         /\ mem'.output = store.output /\ mem'.slaves = mem.slaves /\ mem'.alive = mem.alive
<1>1. StMemOK(mem) /\ StNodesOK(node) /\ StConfigOK(store)
  BY DEF StTypeOK
<1>2. /\ mem' = [mem EXCEPT !.phase = "slaves", !.output = store.output]
      /\ mem.phase = "down" /\ UNCHANGED node
  BY DEF StLoadSystem
<1>3. StAllSame
  BY <1>1, <1>2, UnchangedSame
<1> QED
  BY <1>1, <1>2, <1>3 DEF StMemOK, StConfigOK

\* A slave that is loaded is alive if it answers, and then it is initialised.
LEMMA LoadSlaveShape ==
  ASSUME StTypeOK, NEW s \in StSlave, NEW ok \in BOOLEAN, StLoadSlave(s, ok)
  PROVE  /\ StMemOK(mem)' /\ StNodesOK(node)' /\ StUsedGrows
         /\ mem.phase = "slaves" /\ mem'.phase = "slaves" /\ mem'.output = mem.output
         /\ s \in store.slaves \ StRange(mem.slaves)
         /\ mem'.slaves = Append(mem.slaves, s)
         /\ mem'.alive = IF ok THEN mem.alive \cup {s} ELSE mem.alive
         /\ \A t \in StSlave \ {s} : StSame(t)
         /\ IF ok /\ ~node[s].sysInit THEN StInits(s) ELSE StSame(s)
         /\ ok => node[s].up
         /\ ~ok /\ used'.loss = 0 => ~node[s].up
<1>1. StMemOK(mem) /\ StNodesOK(node) /\ StConfigOK(store) /\ used \in [StSteps -> Nat]
  BY DEF StTypeOK
<1>2. /\ mem.phase = "slaves" /\ s \in store.slaves \ StRange(mem.slaves) /\ StAnswered(s, ok)
      /\ mem' = [mem EXCEPT !.slaves = Append(mem.slaves, s),
                            !.alive = IF ok THEN mem.alive \cup {s} ELSE mem.alive,
                            !.ids[s] = IF ok THEN node[s].has ELSE {}]
      /\ node' = IF ok /\ ~node[s].sysInit THEN StInited(node, s, mem.output) ELSE node
  BY DEF StLoadSlave
<1>3. StUsedGrows /\ (ok => node[s].up) /\ (~ok /\ used'.loss = 0 => ~node[s].up)
  BY <1>1, <1>2, AnswerGrows
<1>4. Append(mem.slaves, s) \in Seq(StSlave)
  BY <1>1, AppendShape DEF StMemOK
<1>5. /\ StMemOK(mem)' /\ mem'.phase = "slaves" /\ mem'.output = mem.output
      /\ mem'.slaves = Append(mem.slaves, s)
      /\ mem'.alive = IF ok THEN mem.alive \cup {s} ELSE mem.alive
  BY <1>1, <1>2, <1>4 DEF StMemOK
<1>6. CASE ok /\ ~node[s].sysInit
  <2>1. StNodesOK(node)' /\ StInits(s) /\ \A t \in StSlave \ {s} : StSame(t)
    BY <1>6, <1>1, <1>2, InitedShape
  <2> QED
    BY <2>1, <1>2, <1>3, <1>5, <1>6
<1>7. CASE ~(ok /\ ~node[s].sysInit)
  <2>1. StAllSame
    BY <1>7, <1>1, <1>2, UnchangedSame
  <2> QED
    BY <2>1, <1>2, <1>3, <1>5, <1>7 DEF StAllSame
<1> QED
  BY <1>6, <1>7

\* The objects and their tasks are loaded as they are stored.
LEMMA LoadObjsShape ==
  ASSUME StTypeOK, StLoadObjs
  PROVE  /\ StMemOK(mem)' /\ StAllSame /\ mem.phase = "slaves" /\ mem'.phase = "up"
         /\ store.slaves = StRange(mem.slaves)
         /\ mem'.output = mem.output /\ mem'.slaves = mem.slaves /\ mem'.alive = mem.alive
         /\ mem'.objs = store.objs /\ \A o \in StObj : StRange(mem'.tasks[o]) = store.tasks[o]
<1> DEFINE q(o) == IF store.tasks[o] = {} THEN <<>>
                   ELSE CHOOSE p \in [1..Cardinality(store.tasks[o]) -> store.tasks[o]] :
                          StRange(p) = store.tasks[o]
           h == [o \in StObj |-> IF o \in store.objs THEN StGetSlaveById(o) ELSE StNone]
           t == [o \in StObj |-> q(o)]
<1>1. /\ StMemOK(mem) /\ StNodesOK(node) /\ StConfigOK(store)
      /\ \A o \in StObj : IsFiniteSet(store.tasks[o])
  BY DEF StTypeOK
<1>2. /\ mem' = [mem EXCEPT !.phase = "up", !.objs = store.objs, !.tasks = t, !.home = h]
      /\ mem.phase = "slaves" /\ store.slaves = StRange(mem.slaves) /\ UNCHANGED node
  BY DEF StLoadObjs
<1>3. ASSUME NEW o \in StObj PROVE q(o) \in Seq(StTask) /\ StRange(q(o)) = store.tasks[o]
  <2>1. CASE store.tasks[o] = {}
    BY <2>1 DEF StRange
  <2>2. CASE store.tasks[o] # {}
    <3>1. IsFiniteSet(store.tasks[o]) /\ store.tasks[o] \in SUBSET StTask
      BY <1>1 DEF StConfigOK
    <3>2. \E p \in [1..Cardinality(store.tasks[o]) -> store.tasks[o]] : StRange(p) = store.tasks[o]
      BY <3>1, Enumeration
    <3>3. /\ q(o) \in [1..Cardinality(store.tasks[o]) -> store.tasks[o]]
          /\ StRange(q(o)) = store.tasks[o]
      BY <2>2, <3>2
    <3>4. Cardinality(store.tasks[o]) \in Nat
      BY <3>1, FS_CardinalityType
    <3> HIDE DEF q
    <3> QED
      BY <3>1, <3>3, <3>4
  <2> QED
    BY <2>1, <2>2
<1> HIDE DEF q
<1>4. t \in [StObj -> Seq(StTask)] /\ \A o \in StObj : StRange(t[o]) = store.tasks[o]
  BY <1>3
<1> HIDE DEF t, h
<1>5. StAllSame
  BY <1>1, <1>2, UnchangedSame
<1> QED
  BY <1>1, <1>2, <1>4, <1>5 DEF StMemOK, StConfigOK

\* With the master goes its memory and the request that it served.
LEMMA MasterDiesShape ==
  ASSUME StTypeOK, StMasterDies
  PROVE  /\ StMemOK(mem)' /\ StReqOK(req)' /\ StAllSame /\ StUsedGrows
         /\ mem'.phase = "down" /\ mem'.slaves = <<>> /\ mem'.alive = {} /\ mem'.objs = {}
         /\ req'.op = "none" /\ req'.at = "idle"
<1>1. StNodesOK(node) /\ used \in [StSteps -> Nat]
  BY DEF StTypeOK
<1>2. StUsedGrows
  BY <1>1, UpGrows DEF StMasterDies, StSteps
<1>3. StAllSame
  BY <1>1, UnchangedSame DEF StMasterDies
<1>4. mem' = StMemory /\ req' = StIdle
  BY DEF StMasterDies
<1>5. StReqOK(req)' /\ req'.op = "none" /\ req'.at = "idle"
  BY <1>4 DEF StIdle, StReqOK
<1>6. /\ StMemOK(mem)' /\ mem'.phase = "down" /\ mem'.slaves = <<>> /\ mem'.alive = {}
      /\ mem'.objs = {}
  <2>1. [o \in StObj |-> <<>>] \in [StObj -> Seq(StTask)]
    OBVIOUS
  <2> QED
    BY <2>1, <1>4 DEF StMemory, StMemOK, StOut
<1> QED
  BY <1>2, <1>3, <1>5, <1>6

-----------------------------------------------------------------------------
(* Every step keeps the invariant: the requests first.                     *)

\* A request keeps the invariant if the memory changes as the database will, and a
\* slave that is new to the memory is about to be initialised.
LEMMA RequestKeeps ==
  ASSUME StInvariant, NEW r, StReqOK(r), r.op # "none", StRequest(r),
         r.op = "output" => r.at = "tell",
         r.op \in {"start", "stop"} => r.o \in mem'.objs,
         UNCHANGED node, StMemOK(mem)', mem'.phase = mem.phase, StOnce(mem'.slaves),
         mem'.alive \subseteq mem.alive,
         \A s \in StRange(mem'.slaves) \ mem'.alive :
           s \in StRange(mem.slaves) \ mem.alive \/ (r.at = "init" /\ r.s = s),
         StAgrees(store) => StAgrees(StPending)'
  PROVE  StInvariant'
<1>1. /\ StTypeOK /\ StMemoryAgrees /\ StServes /\ StAskedFor /\ StFresh /\ StTold
      /\ StNodesOK(node) /\ StMemOK(mem) /\ StConfigOK(store) /\ used \in [StSteps -> Nat]
      /\ \A c \in asked : StConfigOK(c)
      /\ StReqOK(req) /\ \A o \in StObj : IsFiniteSet(store.tasks[o])
  BY DEF StInvariant, StTypeOK
<1>2. /\ mem.phase = "up" /\ req.at = "idle" /\ StUp("request") /\ req' = r
      /\ asked' = asked \cup {StApply(c, r) : c \in asked} /\ store' = store /\ node' = node
  BY DEF StRequest
<1>3. req.op = "none"
  BY <1>1, <1>2 DEF StReqOK
<1>4. StUsedGrows
  BY <1>1, <1>2, UpGrows DEF StSteps
<1>5. StTypeOK'
  <2>1. \A c \in asked' : StConfigOK(c)
    <3>1. \A c \in asked : StConfigOK(StApply(c, r))
      BY <1>1, ApplyShape
    <3> QED
      BY <3>1, <1>1, <1>2
  <2>2. StReqOK(req)' /\ StNodesOK(node)' /\ StConfigOK(store)'
    BY <1>1, <1>2
  <2> QED
    BY <2>1, <2>2, <1>1, <1>2, <1>4 DEF StTypeOK, StUsedGrows
<1>6. StMemoryAgrees'
  <2>1. StPending = store
    BY <1>3 DEF StPending
  <2> QED
    BY <2>1, <1>1, <1>2, <1>4 DEF StMemoryAgrees, StUsedGrows
<1>7. StServes'
  BY <1>2 DEF StServes
<1>8. StAskedFor'
  BY <1>1, <1>2, <1>4 DEF StAskedFor, StUsedGrows
<1>9. StFresh'
  BY <1>1, <1>2, <1>4 DEF StFresh, StUsedGrows
<1>10. StTold'
  <2>1. StAskedOutputs \subseteq StAskedOutputs'
    BY <1>2 DEF StAskedOutputs
  <2>2. ~(req'.op = "output" /\ req'.at = "db")
    BY <1>2
  <2> QED
    BY <2>1, <2>2, <1>1, <1>2, <1>4 DEF StTold, StUsedGrows
<1> QED
  BY <1>5, <1>6, <1>7, <1>8, <1>9, <1>10 DEF StInvariant

\* What the invariant says of the memory that a request finds.
LEMMA RequestFinds ==
  ASSUME StInvariant
  PROVE  StMemOK(mem) /\ StConfigOK(store) /\ StOnce(mem.slaves)
BY DEF StInvariant, StTypeOK, StServes

\* request_set_output keeps the invariant.
LEMMA SetOutputKeeps ==
  ASSUME StInvariant, NEW v \in StOutput, StSetOutput(v)
  PROVE  StInvariant'
<1> DEFINE r == [StIdle EXCEPT !.at = "tell", !.op = "output", !.k = v]
<1>1. StReqOK(r) /\ r.at = "tell" /\ r.op = "output" /\ r.k = v
  BY DEF StIdle, StReqOK
<1>2. StRequest(r) /\ mem' = [mem EXCEPT !.output = v] /\ UNCHANGED node
  BY DEF StSetOutput
<1> HIDE DEF r
<1>3. StMemOK(mem) /\ StConfigOK(store) /\ StOnce(mem.slaves)
  BY RequestFinds
<1>4. /\ StMemOK(mem)' /\ mem'.output = v /\ mem'.phase = mem.phase /\ mem'.slaves = mem.slaves
      /\ mem'.alive = mem.alive /\ mem'.objs = mem.objs /\ mem'.tasks = mem.tasks
  BY <1>2, <1>3 DEF StMemOK, StOut
<1>5. StPending' = StApply(store, r) /\ store' = store
  BY <1>1, <1>2 DEF StPending, StRequest
<1>6. StAgrees(store) => StAgrees(StPending)'
  <2>1. ASSUME StAgrees(store) PROVE StAgrees(StPending)'
    <3>1. /\ StApply(store, r).output = v /\ StApply(store, r).slaves = store.slaves
          /\ StApply(store, r).objs = store.objs
          /\ \A o \in StObj : StApply(store, r).tasks[o] = store.tasks[o]
      <4>1. StApplied(store, r, StApply(store, r))
        BY <1>1, <1>3, ApplyShape
      <4> QED
        BY <4>1, <1>1 DEF StApplied
    <3>2. mem.objs \subseteq StObj
      BY <1>3 DEF StMemOK
    <3>3. StPending'.output = mem'.output /\ StPending'.slaves = StRange(mem'.slaves)
      BY <3>1, <2>1, <1>4, <1>5 DEF StAgrees
    <3>4. StPending'.objs = mem'.objs
      BY <3>1, <2>1, <1>4, <1>5 DEF StAgrees
    <3>5. \A o \in mem'.objs : StPending'.tasks[o] \subseteq StRange(mem'.tasks[o])
      BY <3>1, <3>2, <2>1, <1>4, <1>5 DEF StAgrees
    <3> QED
      BY <3>3, <3>4, <3>5 DEF StAgrees
  <2> QED
    BY <2>1
<1> QED
  BY <1>1, <1>2, <1>3, <1>4, <1>6, RequestKeeps

\* request_add_slave keeps the invariant.
LEMMA AddSlaveKeeps ==
  ASSUME StInvariant, NEW s \in StSlave, StAddSlave(s)
  PROVE  StInvariant'
<1> DEFINE r == [StIdle EXCEPT !.at = "init", !.op = "addSlave", !.s = s]
<1>1. StReqOK(r) /\ r.at = "init" /\ r.op = "addSlave" /\ r.s = s
  BY DEF StIdle, StReqOK
<1>2. /\ StRequest(r) /\ s \notin StRange(mem.slaves) /\ UNCHANGED node
      /\ mem' = [mem EXCEPT !.slaves = Append(mem.slaves, s), !.off[s] = 0, !.ids[s] = {}]
  BY DEF StAddSlave
<1> HIDE DEF r
<1>3. StMemOK(mem) /\ StConfigOK(store) /\ StOnce(mem.slaves)
  BY RequestFinds
<1>4. /\ Append(mem.slaves, s) \in Seq(StSlave) /\ StOnce(Append(mem.slaves, s))
      /\ StRange(Append(mem.slaves, s)) = StRange(mem.slaves) \cup {s}
  BY <1>2, <1>3, AppendShape DEF StMemOK
<1>5. /\ StMemOK(mem)' /\ mem'.output = mem.output /\ mem'.phase = mem.phase
      /\ mem'.slaves = Append(mem.slaves, s)
      /\ mem'.alive = mem.alive /\ mem'.objs = mem.objs /\ mem'.tasks = mem.tasks
  BY <1>2, <1>3, <1>4 DEF StMemOK
<1>6. StPending' = StApply(store, r) /\ store' = store
  BY <1>1, <1>2 DEF StPending, StRequest
<1>7. StAgrees(store) => StAgrees(StPending)'
  <2>1. ASSUME StAgrees(store) PROVE StAgrees(StPending)'
    <3>1. /\ StApply(store, r).output = store.output
          /\ StApply(store, r).slaves = store.slaves \cup {s}
          /\ StApply(store, r).objs = store.objs
          /\ \A o \in StObj : StApply(store, r).tasks[o] = store.tasks[o]
      <4>1. StApplied(store, r, StApply(store, r))
        BY <1>1, <1>3, ApplyShape
      <4> QED
        BY <4>1, <1>1 DEF StApplied
    <3>2. mem.objs \subseteq StObj
      BY <1>3 DEF StMemOK
    <3>3. StPending'.output = mem'.output /\ StPending'.slaves = StRange(mem'.slaves)
      BY <3>1, <2>1, <1>4, <1>5, <1>6 DEF StAgrees
    <3>4. StPending'.objs = mem'.objs
      BY <3>1, <2>1, <1>4, <1>5, <1>6 DEF StAgrees
    <3>5. \A o \in mem'.objs : StPending'.tasks[o] \subseteq StRange(mem'.tasks[o])
      BY <3>1, <3>2, <2>1, <1>4, <1>5, <1>6 DEF StAgrees
    <3> QED
      BY <3>3, <3>4, <3>5 DEF StAgrees
  <2> QED
    BY <2>1
<1> QED
  BY <1>1, <1>2, <1>3, <1>4, <1>5, <1>7, RequestKeeps

\* request_del_slave keeps the invariant.
LEMMA DelSlaveKeeps ==
  ASSUME StInvariant, NEW s \in StSlave, StDelSlave(s)
  PROVE  StInvariant'
<1> DEFINE r == [StIdle EXCEPT !.at = "db", !.op = "delSlave", !.s = s]
           w == StWithout(mem.slaves, s)
           h == [o \in StObj |-> IF mem.home[o] = s THEN StGone ELSE mem.home[o]]
<1>1. StReqOK(r) /\ r.at = "db" /\ r.op = "delSlave" /\ r.s = s
  BY DEF StIdle, StReqOK
<1>2. /\ StRequest(r) /\ s \in StRange(mem.slaves) /\ UNCHANGED node
      /\ mem' = [mem EXCEPT !.slaves = w, !.alive = mem.alive \ {s}, !.home = h]
  BY DEF StDelSlave
<1> HIDE DEF r, h
<1>3. StMemOK(mem) /\ StConfigOK(store) /\ StOnce(mem.slaves)
  BY RequestFinds
<1>4. w \in Seq(StSlave) /\ StOnce(w) /\ StRange(w) = StRange(mem.slaves) \ {s}
  BY <1>2, <1>3, WithoutKeeps DEF StMemOK
<1> HIDE DEF w
<1>5. /\ StMemOK(mem)' /\ mem'.output = mem.output /\ mem'.phase = mem.phase
      /\ mem'.slaves = w
      /\ mem'.alive = mem.alive \ {s} /\ mem'.objs = mem.objs /\ mem'.tasks = mem.tasks
  BY <1>2, <1>3, <1>4 DEF StMemOK
<1>6. StPending' = StApply(store, r) /\ store' = store
  BY <1>1, <1>2 DEF StPending, StRequest
<1>7. StAgrees(store) => StAgrees(StPending)'
  <2>1. ASSUME StAgrees(store) PROVE StAgrees(StPending)'
    <3>1. /\ StApply(store, r).output = store.output
          /\ StApply(store, r).slaves = store.slaves \ {s}
          /\ StApply(store, r).objs = store.objs
          /\ \A o \in StObj : StApply(store, r).tasks[o] = store.tasks[o]
      <4>1. StApplied(store, r, StApply(store, r))
        BY <1>1, <1>3, ApplyShape
      <4> QED
        BY <4>1, <1>1 DEF StApplied
    <3>2. mem.objs \subseteq StObj
      BY <1>3 DEF StMemOK
    <3>3. StPending'.output = mem'.output /\ StPending'.slaves = StRange(mem'.slaves)
      BY <3>1, <2>1, <1>4, <1>5, <1>6 DEF StAgrees
    <3>4. StPending'.objs = mem'.objs
      BY <3>1, <2>1, <1>4, <1>5, <1>6 DEF StAgrees
    <3>5. \A o \in mem'.objs : StPending'.tasks[o] \subseteq StRange(mem'.tasks[o])
      BY <3>1, <3>2, <2>1, <1>4, <1>5, <1>6 DEF StAgrees
    <3> QED
      BY <3>3, <3>4, <3>5 DEF StAgrees
  <2> QED
    BY <2>1
<1> QED
  BY <1>1, <1>2, <1>3, <1>4, <1>5, <1>7, RequestKeeps

\* request_add_rtsp and request_add_rtmp keep the invariant.
LEMMA AddObjKeeps ==
  ASSUME StInvariant, NEW o \in StObj, StAddObj(o)
  PROVE  StInvariant'
<1> DEFINE r == [StIdle EXCEPT !.at = "db", !.op = "add", !.o = o]
<1>1. StReqOK(r) /\ r.at = "db" /\ r.op = "add" /\ r.o = o
  BY DEF StIdle, StReqOK
<1>2. /\ StRequest(r) /\ UNCHANGED node
      /\ mem' = [mem EXCEPT !.objs = mem.objs \cup {o}, !.tasks[o] = <<>>, !.home[o] = StNone]
  BY DEF StAddObj
<1> HIDE DEF r
<1>3. StMemOK(mem) /\ StConfigOK(store) /\ StOnce(mem.slaves)
  BY RequestFinds
<1>5. /\ StMemOK(mem)' /\ mem'.output = mem.output /\ mem'.phase = mem.phase
      /\ mem'.slaves = mem.slaves /\ mem'.alive = mem.alive /\ mem'.objs = mem.objs \cup {o}
      /\ \A p \in StObj : mem'.tasks[p] = IF p = o THEN <<>> ELSE mem.tasks[p]
  BY <1>2, <1>3 DEF StMemOK
<1>6. StPending' = StApply(store, r) /\ store' = store
  BY <1>1, <1>2 DEF StPending, StRequest
<1>7. StAgrees(store) => StAgrees(StPending)'
  <2>1. ASSUME StAgrees(store) PROVE StAgrees(StPending)'
    <3>1. /\ StApply(store, r).output = store.output /\ StApply(store, r).slaves = store.slaves
          /\ StApply(store, r).objs = store.objs \cup {o}
          /\ \A p \in StObj : StApply(store, r).tasks[p] = IF p = o THEN {} ELSE store.tasks[p]
      <4>1. StApplied(store, r, StApply(store, r))
        BY <1>1, <1>3, ApplyShape
      <4> QED
        BY <4>1, <1>1 DEF StApplied
    <3>2. mem.objs \subseteq StObj
      BY <1>3 DEF StMemOK
    <3>3. StPending'.output = mem'.output /\ StPending'.slaves = StRange(mem'.slaves)
      BY <3>1, <2>1, <1>5, <1>6 DEF StAgrees
    <3>4. StPending'.objs = mem'.objs
      BY <3>1, <2>1, <1>5, <1>6 DEF StAgrees
    <3>5. ASSUME NEW p \in mem'.objs PROVE StPending'.tasks[p] \subseteq StRange(mem'.tasks[p])
      <4>1. CASE p # o
        BY <4>1, <3>1, <3>2, <3>5, <2>1, <1>2, <1>5, <1>6 DEF StAgrees
      <4>2. CASE p = o
        BY <4>2, <3>1, <3>2, <3>5, <2>1, <1>2, <1>5, <1>6 DEF StAgrees
      <4> QED
        BY <4>1, <4>2
    <3> QED
      BY <3>3, <3>4, <3>5 DEF StAgrees
  <2> QED
    BY <2>1
<1> QED
  BY <1>1, <1>2, <1>3, <1>5, <1>7, RequestKeeps

\* request_start_task keeps the invariant.
LEMMA StartTaskKeeps ==
  ASSUME StInvariant, NEW o \in StObj, NEW k \in StTask, StStartTask(o, k)
  PROVE  StInvariant'
<1> DEFINE r == [StIdle EXCEPT !.at = "assign", !.op = "start", !.o = o, !.k = k]
<1>1. StReqOK(r) /\ r.at = "assign" /\ r.op = "start" /\ r.o = o /\ r.k = k
  BY DEF StIdle, StReqOK
<1>2. /\ StRequest(r) /\ UNCHANGED node /\ o \in mem.objs
      /\ mem' = [mem EXCEPT !.tasks[o] = Append(mem.tasks[o], k)]
  BY DEF StStartTask
<1> HIDE DEF r
<1>3. StMemOK(mem) /\ StConfigOK(store) /\ StOnce(mem.slaves)
  BY RequestFinds
<1>4. /\ Append(mem.tasks[o], k) \in Seq(StTask)
      /\ StRange(Append(mem.tasks[o], k)) = StRange(mem.tasks[o]) \cup {k}
  <2>1. mem.tasks[o] \in Seq(StTask)
    BY <1>3 DEF StMemOK
  <2> QED
    BY <2>1, AppendShape
<1>5. /\ StMemOK(mem)' /\ mem'.output = mem.output /\ mem'.phase = mem.phase
      /\ mem'.slaves = mem.slaves /\ mem'.alive = mem.alive /\ mem'.objs = mem.objs
      /\ \A p \in StObj : mem'.tasks[p] = IF p = o THEN Append(mem.tasks[o], k) ELSE mem.tasks[p]
  BY <1>2, <1>3, <1>4 DEF StMemOK
<1>6. StPending' = StApply(store, r) /\ store' = store
  BY <1>1, <1>2 DEF StPending, StRequest
<1>7. StAgrees(store) => StAgrees(StPending)'
  <2>1. ASSUME StAgrees(store) PROVE StAgrees(StPending)'
    <3>1. /\ StApply(store, r).output = store.output /\ StApply(store, r).slaves = store.slaves
          /\ StApply(store, r).objs = store.objs
          /\ \A p \in StObj : StApply(store, r).tasks[p] =
               IF p = o THEN store.tasks[p] \cup {k} ELSE store.tasks[p]
      <4>1. StApplied(store, r, StApply(store, r))
        BY <1>1, <1>3, ApplyShape
      <4> QED
        BY <4>1, <1>1 DEF StApplied
    <3>2. mem.objs \subseteq StObj
      BY <1>3 DEF StMemOK
    <3>3. StPending'.output = mem'.output /\ StPending'.slaves = StRange(mem'.slaves)
      BY <3>1, <2>1, <1>5, <1>6 DEF StAgrees
    <3>4. StPending'.objs = mem'.objs
      BY <3>1, <2>1, <1>5, <1>6 DEF StAgrees
    <3>5. ASSUME NEW p \in mem'.objs PROVE StPending'.tasks[p] \subseteq StRange(mem'.tasks[p])
      <4>1. CASE p # o
        BY <4>1, <3>1, <3>2, <3>5, <2>1, <1>2, <1>5, <1>6 DEF StAgrees
      <4>2. CASE p = o
        BY <4>2, <3>1, <3>2, <3>5, <2>1, <1>2, <1>4, <1>5, <1>6 DEF StAgrees
      <4> QED
        BY <4>1, <4>2
    <3> QED
      BY <3>3, <3>4, <3>5 DEF StAgrees
  <2> QED
    BY <2>1
<1> QED
  BY <1>1, <1>2, <1>3, <1>5, <1>7, RequestKeeps

\* request_stop_task keeps the invariant.
LEMMA StopTaskKeeps ==
  ASSUME StInvariant, NEW o \in StObj, NEW k \in StTask, StStopTask(o, k)
  PROVE  StInvariant'
<1> DEFINE r == [StIdle EXCEPT !.at = "stop", !.op = "stop", !.o = o, !.k = k]
           w == StWithout(mem.tasks[o], k)
<1>1. StReqOK(r) /\ r.at = "stop" /\ r.op = "stop" /\ r.o = o /\ r.k = k
  BY DEF StIdle, StReqOK
<1>2. /\ StRequest(r) /\ UNCHANGED node /\ o \in mem.objs /\ k \in StRange(mem.tasks[o])
      /\ mem' = [mem EXCEPT !.tasks[o] = w]
  BY DEF StStopTask
<1> HIDE DEF r
<1>3. StMemOK(mem) /\ StConfigOK(store) /\ StOnce(mem.slaves)
  BY RequestFinds
<1>4. w \in Seq(StTask) /\ StRange(mem.tasks[o]) \ {k} \subseteq StRange(w)
  <2>1. mem.tasks[o] \in Seq(StTask)
    BY <1>3 DEF StMemOK
  <2> QED
    BY <2>1, <1>2, WithoutKeeps
<1> HIDE DEF w
<1>5. /\ StMemOK(mem)' /\ mem'.output = mem.output /\ mem'.phase = mem.phase
      /\ mem'.slaves = mem.slaves /\ mem'.alive = mem.alive /\ mem'.objs = mem.objs
      /\ \A p \in StObj : mem'.tasks[p] = IF p = o THEN w ELSE mem.tasks[p]
  BY <1>2, <1>3, <1>4 DEF StMemOK
<1>6. StPending' = StApply(store, r) /\ store' = store
  BY <1>1, <1>2 DEF StPending, StRequest
<1>7. StAgrees(store) => StAgrees(StPending)'
  <2>1. ASSUME StAgrees(store) PROVE StAgrees(StPending)'
    <3>1. /\ StApply(store, r).output = store.output /\ StApply(store, r).slaves = store.slaves
          /\ StApply(store, r).objs = store.objs
          /\ \A p \in StObj : StApply(store, r).tasks[p] =
               IF p = o THEN store.tasks[p] \ {k} ELSE store.tasks[p]
      <4>1. StApplied(store, r, StApply(store, r))
        BY <1>1, <1>3, ApplyShape
      <4> QED
        BY <4>1, <1>1 DEF StApplied
    <3>2. mem.objs \subseteq StObj
      BY <1>3 DEF StMemOK
    <3>3. StPending'.output = mem'.output /\ StPending'.slaves = StRange(mem'.slaves)
      BY <3>1, <2>1, <1>5, <1>6 DEF StAgrees
    <3>4. StPending'.objs = mem'.objs
      BY <3>1, <2>1, <1>5, <1>6 DEF StAgrees
    <3>5. ASSUME NEW p \in mem'.objs PROVE StPending'.tasks[p] \subseteq StRange(mem'.tasks[p])
      <4>1. CASE p # o
        BY <4>1, <3>1, <3>2, <3>5, <2>1, <1>2, <1>5, <1>6 DEF StAgrees
      <4>2. CASE p = o
        BY <4>2, <3>1, <3>2, <3>5, <2>1, <1>2, <1>4, <1>5, <1>6 DEF StAgrees
      <4> QED
        BY <4>1, <4>2
    <3> QED
      BY <3>3, <3>4, <3>5 DEF StAgrees
  <2> QED
    BY <2>1
<1> QED
  BY <1>1, <1>2, <1>3, <1>5, <1>7, RequestKeeps

\* request_del_obj keeps the invariant.
LEMMA DelObjKeeps ==
  ASSUME StInvariant, NEW o \in StObj, StDelObj(o)
  PROVE  StInvariant'
<1> DEFINE r == [StIdle EXCEPT !.at = "stop", !.op = "del", !.o = o]
<1>1. StReqOK(r) /\ r.at = "stop" /\ r.op = "del" /\ r.o = o
  BY DEF StIdle, StReqOK
<1>2. StRequest(r) /\ UNCHANGED <<mem, node>>
  BY DEF StDelObj
<1> HIDE DEF r
<1>3. StMemOK(mem) /\ StConfigOK(store) /\ StOnce(mem.slaves)
  BY RequestFinds
<1>4. StPending' = store /\ store' = store
  BY <1>1, <1>2 DEF StPending, StRequest
<1>5. StMemOK(mem)' /\ (StAgrees(store) => StAgrees(StPending)')
  BY <1>2, <1>3, <1>4 DEF StMemOK, StAgrees
<1> QED
  BY <1>1, <1>2, <1>3, <1>5, RequestKeeps

-----------------------------------------------------------------------------
(* The steps that write nothing.                                           *)

\* What the memory has as output parameters, and that they were asked for.
LEMMA OutputKnown ==
  ASSUME StInvariant, used.fail = 0
  PROVE  /\ store.output \in StAskedOutputs
         /\ req.op = "output" => req.k \in StAskedOutputs /\ req.k # StNone
         /\ mem.phase # "down" =>
              mem.output = IF req.op = "output" THEN req.k ELSE store.output
<1>1. /\ StConfigOK(store) /\ StReqOK(req) /\ StMemOK(mem)
      /\ StMemoryAgrees /\ StServes /\ StAskedFor
  BY DEF StInvariant, StTypeOK
<1>2. store.output \in StAskedOutputs
  BY <1>1 DEF StAskedFor, StAskedOutputs
<1>3. CASE req.op = "none"
  <2>1. StPending = store
    BY <1>3 DEF StPending
  <2>2. mem.phase # "down" => mem.output = store.output
    BY <2>1, <1>1 DEF StMemoryAgrees, StAgrees, StMemOK
  <2> QED
    BY <2>2, <1>2, <1>3
<1>4. CASE req.op # "none"
  <2>1. StApplied(store, req, StApply(store, req)) /\ StApply(store, req) \in asked
    BY <1>1, <1>4, ApplyShape DEF StAskedFor
  <2>2. StApply(store, req).output \in StAskedOutputs
    BY <2>1 DEF StAskedOutputs
  <2>3. StApply(store, req).output = IF req.op = "output" THEN req.k ELSE store.output
    BY <2>1 DEF StApplied
  <2>4. mem.phase = "up" /\ mem.output = StPending.output
    BY <1>1, <1>4 DEF StServes, StMemoryAgrees, StAgrees
  <2>5. StPending.output = StApply(store, req).output
    BY <2>3, <1>4 DEF StPending
  <2>6. req.op = "output" => req.k # StNone
    BY <1>1, StAssumption DEF StReqOK
  <2> QED
    BY <2>2, <2>3, <2>4, <2>5, <2>6, <1>2
<1> QED
  BY <1>3, <1>4

StForgets(s) == node'[s].outp = StNone /\ ~node'[s].sysInit

\* A slave that is told again what the memory has was told what was asked for.
LEMMA ToldKeeps ==
  ASSUME StInvariant, StUsedGrows, UNCHANGED <<store, asked>>,
         \A s \in StSlave : StSame(s) \/ StForgets(s) \/ (StInits(s) /\ mem.phase # "down"),
         \A s \in mem'.alive : \/ s \in mem.alive \cup store.slaves
                               \/ s \in StSlave /\ StInits(s) /\ mem.phase # "down",
         UNCHANGED req \/ req'.op # "output"
  PROVE  StTold'
<1>1. StTold /\ StConfigOK(store) /\ StMemOK(mem)
  BY DEF StInvariant, StTypeOK
<1>2. SUFFICES ASSUME used'.fail = 0 PROVE StTold'
  BY DEF StTold
<1>3. used.fail = 0 /\ (used'.loss = 0 => used.loss = 0)
  BY <1>2 DEF StUsedGrows
<1>4. /\ store.output \in StAskedOutputs
      /\ req.op = "output" => req.k \in StAskedOutputs /\ req.k # StNone
      /\ mem.phase # "down" => mem.output = IF req.op = "output" THEN req.k ELSE store.output
  BY <1>3, OutputKnown
<1>5. StAskedOutputs' = StAskedOutputs /\ store' = store
  BY DEF StAskedOutputs
<1>6. store.slaves \cup mem.alive \subseteq StSlave
  BY <1>1 DEF StConfigOK, StMemOK
<1>7. ASSUME store.output = StNone, NEW s \in StSlave
      PROVE  node'[s].outp \in StAskedOutputs \cup {StNone}
  <2>1. node[s].outp \in StAskedOutputs \cup {StNone}
    BY <1>1, <1>3, <1>7 DEF StTold
  <2>2. CASE StSame(s)
    BY <2>1, <2>2 DEF StSame
  <2>3. CASE StForgets(s)
    BY <2>3 DEF StForgets
  <2>4. CASE StInits(s) /\ mem.phase # "down"
    BY <2>1, <2>4, <1>4 DEF StInits
  <2> QED
    BY <2>2, <2>3, <2>4
<1>8. ASSUME used'.loss = 0, store.output # StNone,
             NEW s \in store.slaves \cup mem'.alive, node'[s].sysInit
      PROVE  node'[s].outp \in StAskedOutputs
  <2>1. s \in StSlave /\ (s \in store.slaves \cup mem.alive \/ (StInits(s) /\ mem.phase # "down"))
    BY <1>6
  <2>2. CASE StInits(s) /\ mem.phase # "down"
    BY <2>2, <1>4, <1>8 DEF StInits
  <2>3. CASE StSame(s) /\ s \in store.slaves \cup mem.alive
    BY <2>3, <1>1, <1>3, <1>8 DEF StSame, StTold
  <2> QED
    BY <2>1, <2>2, <2>3, <1>8 DEF StForgets
<1>9. ASSUME used'.loss = 0, req'.op = "output", req'.at = "db",
             NEW s \in store.slaves \cup mem'.alive, node'[s].sysInit
      PROVE  node'[s].outp = req'.k
  <2>1. /\ s \in StSlave /\ req' = req
        /\ s \in store.slaves \cup mem.alive \/ (StInits(s) /\ mem.phase # "down")
    BY <1>6, <1>9
  <2>2. CASE StInits(s) /\ mem.phase # "down"
    BY <2>1, <2>2, <1>4, <1>9 DEF StInits
  <2>3. CASE StSame(s) /\ s \in store.slaves \cup mem.alive
    BY <2>1, <2>3, <1>1, <1>3, <1>9 DEF StSame, StTold
  <2> QED
    BY <2>1, <2>2, <2>3, <1>9 DEF StForgets
<1> QED
  BY <1>2, <1>5, <1>7, <1>8, <1>9 DEF StTold

\* A step that writes nothing, and leaves what the memory says of the configuration
\* alone, keeps all that the invariant says of the two.
LEMMA QuietKeeps ==
  ASSUME StInvariant, StUsedGrows, UNCHANGED <<store, asked>>,
         StMemOK(mem)', StNodesOK(node)', StMemKept, mem.phase = "down" => mem'.alive = {},
         UNCHANGED req \/ StReqMoves
  PROVE  StTypeOK' /\ StMemoryAgrees' /\ StServes' /\ StAskedFor'
<1>1. /\ StTypeOK /\ StMemoryAgrees /\ StServes /\ StAskedFor
      /\ StConfigOK(store) /\ StReqOK(req) /\ \A c \in asked : StConfigOK(c)
      /\ \A o \in StObj : IsFiniteSet(store.tasks[o])
  BY DEF StInvariant, StTypeOK
<1>2. /\ req'.op = req.op /\ req'.s = req.s /\ req'.o = req.o /\ req'.k = req.k /\ StReqOK(req)'
      /\ req.op = "del" => (req'.at = "db" <=> req.at = "db")
  <2>1. CASE req' = req
    BY <2>1, <1>1
  <2>2. CASE StReqMoves
    BY <2>2 DEF StReqMoves
  <2> QED
    BY <2>1, <2>2
<1>3. StApply(store, req)' = StApply(store, req)
  BY <1>2 DEF StApply
<1>4. StPending' = StPending
  BY <1>2, <1>3 DEF StPending
<1>5. StTypeOK'
  BY <1>1, <1>2 DEF StTypeOK, StUsedGrows
<1>6. StMemoryAgrees'
  <2>1. StAgrees(StPending) => StAgrees(StPending)'
    BY <1>4 DEF StAgrees, StMemKept
  <2> QED
    BY <2>1, <1>1 DEF StMemoryAgrees, StMemKept, StUsedGrows
<1>7. StServes'
  BY <1>1, <1>2 DEF StServes, StMemKept
<1>8. StAskedFor'
  BY <1>1, <1>2, <1>3 DEF StAskedFor, StUsedGrows
<1> QED
  BY <1>5, <1>6, <1>7, <1>8

\* So does one that tells the slaves nothing, when only slaves that are down cease to
\* be alive.
LEMMA SameKeeps ==
  ASSUME StInvariant, StUsedGrows, UNCHANGED <<store, asked>>,
         StMemOK(mem)', StMemKept, StLeaves, StAllSame,
         UNCHANGED req \/ (StReqMoves /\ req.at # "init" /\ req.op # "output")
  PROVE  StInvariant'
<1>1. StTypeOK' /\ StMemoryAgrees' /\ StServes' /\ StAskedFor'
  <2>1. mem.phase = "down" => mem'.alive = {}
    BY DEF StInvariant, StServes, StLeaves
  <2> QED
    BY <2>1, QuietKeeps DEF StAllSame
<1>2. StFresh'
  <2>1. StFresh /\ StMemOK(mem)
    BY DEF StInvariant, StTypeOK
  <2>2. \A s \in StSlave : node'[s].up = node[s].up /\ node'[s].sysInit = node[s].sysInit
    BY DEF StAllSame, StSame
  <2>3. \A s \in StSlave : node'[s].up \/ ~node'[s].sysInit
    BY <2>1, <2>2 DEF StFresh
  <2>4. ASSUME used'.loss = 0, NEW s \in StRange(mem'.slaves) \ mem'.alive, node'[s].sysInit
        PROVE  req'.at = "init" /\ req'.s = s
    <3>1. s \in StRange(mem.slaves) /\ s \in StSlave
      BY <2>1 DEF StMemKept, StMemOK, StRange
    <3>2. node[s].sysInit /\ node[s].up
      BY <2>1, <2>2, <2>4, <3>1 DEF StFresh
    <3>3. s \notin mem.alive
      BY <3>2, <2>4 DEF StLeaves
    <3>4. req.at = "init" /\ req.s = s
      BY <2>1, <2>4, <3>1, <3>2, <3>3 DEF StFresh, StUsedGrows
    <3> QED
      BY <3>4
  <2> QED
    BY <2>3, <2>4 DEF StFresh
<1>3. StTold'
  <2>1. \A s \in StSlave : StSame(s)
    BY DEF StAllSame
  <2>2. mem'.alive \subseteq mem.alive
    BY DEF StLeaves
  <2>3. UNCHANGED req \/ req'.op # "output"
    BY DEF StReqMoves
  <2> QED
    BY <2>1, <2>2, <2>3, ToldKeeps
<1> QED
  BY <1>1, <1>2, <1>3 DEF StInvariant

\* Steps that use no counter and leave the memory alone.
LEMMA UnchangedKept ==
  ASSUME StTypeOK
  PROVE  /\ UNCHANGED used => StUsedGrows
         /\ UNCHANGED mem => StMemOK(mem)' /\ StMemKept /\ StLeaves /\ mem'.alive = mem.alive
BY DEF StTypeOK, StUsedGrows, StMemKept, StLeaves, StMemOK

\* A slave that dies has forgotten what it was told.
LEMMA SlaveDiesKeeps ==
  ASSUME StInvariant, NEW s \in StSlave, StSlaveDies(s)
  PROVE  StInvariant'
<1>1. StTypeOK /\ StNodesOK(node) /\ StFresh /\ used \in [StSteps -> Nat] /\ StServes
  BY DEF StInvariant, StTypeOK
<1>2. /\ node' = [node EXCEPT ![s] = [StNode EXCEPT !.up = FALSE]] /\ StUp("crash")
      /\ UNCHANGED <<mem, store, req, asked>>
  BY DEF StSlaveDies
<1>3. StUsedGrows /\ StMemOK(mem)' /\ StMemKept
  BY <1>1, <1>2, UpGrows, UnchangedKept DEF StSteps
<1>4. StNodesOK(node)' /\ StForgets(s) /\ \A t \in StSlave \ {s} : StSame(t)
  BY <1>1, <1>2 DEF StNodesOK, StNode, StForgets, StSame, StOut
<1>5. StTypeOK' /\ StMemoryAgrees' /\ StServes' /\ StAskedFor'
  <2>1. mem.phase = "down" => mem'.alive = {}
    BY <1>1, <1>2 DEF StServes
  <2> QED
    BY <2>1, <1>2, <1>3, <1>4, QuietKeeps
<1>6. StFresh'
  <2>1. \A t \in StSlave : node'[t].sysInit => node[t].sysInit /\ node'[t].up = node[t].up
    BY <1>4 DEF StForgets, StSame
  <2>2. StRange(mem.slaves) \subseteq StSlave
    BY <1>1 DEF StTypeOK, StMemOK, StRange
  <2>3. \A t \in StSlave : node'[t].up \/ ~node'[t].sysInit
    BY <2>1, <1>1 DEF StFresh
  <2> QED
    BY <2>1, <2>2, <2>3, <1>1, <1>2, <1>3 DEF StFresh, StUsedGrows
<1>7. StTold'
  <2>1. \A t \in StSlave : StSame(t) \/ StForgets(t) \/ (StInits(t) /\ mem.phase # "down")
    BY <1>4
  <2> QED
    BY <2>1, <1>2, <1>3, ToldKeeps
<1> QED
  BY <1>5, <1>6, <1>7 DEF StInvariant

\* A slave that is started again is not initialised yet.
LEMMA SlaveBackKeeps ==
  ASSUME StInvariant, NEW s \in StSlave, StSlaveBack(s)
  PROVE  StInvariant'
<1>1. StTypeOK /\ StNodesOK(node) /\ StFresh /\ StServes /\ StTold
  BY DEF StInvariant, StTypeOK
<1>2. /\ node' = [node EXCEPT ![s].up = TRUE] /\ UNCHANGED <<mem, store, req, asked, used>>
  BY DEF StSlaveBack
<1>3. StUsedGrows /\ StMemOK(mem)' /\ StMemKept
  BY <1>1, <1>2, UnchangedKept
<1>4. /\ StNodesOK(node)'
      /\ \A t \in StSlave : /\ node'[t].up = (t = s \/ node[t].up)
                            /\ node'[t].sysInit = node[t].sysInit /\ node'[t].outp = node[t].outp
  BY <1>1, <1>2 DEF StNodesOK
<1>5. StTypeOK' /\ StMemoryAgrees' /\ StServes' /\ StAskedFor'
  <2>1. mem.phase = "down" => mem'.alive = {}
    BY <1>1, <1>2 DEF StServes
  <2> QED
    BY <2>1, <1>2, <1>3, <1>4, QuietKeeps
<1>6. StFresh'
  <2>1. StRange(mem.slaves) \subseteq StSlave
    BY <1>1 DEF StTypeOK, StMemOK, StRange
  <2> QED
    BY <2>1, <1>1, <1>2, <1>4 DEF StFresh
<1>7. StTold'
  <2>1. StAskedOutputs' = StAskedOutputs /\ store.slaves \cup mem.alive \subseteq StSlave
    BY <1>1, <1>2 DEF StAskedOutputs, StTypeOK, StConfigOK, StMemOK
  <2> QED
    BY <2>1, <1>1, <1>2, <1>4 DEF StTold
<1> QED
  BY <1>5, <1>6, <1>7 DEF StInvariant

\* A slave that answers is told what the memory has, before it counts as alive.
LEMMA ProbeAnsweredKeeps ==
  ASSUME StInvariant, NEW s \in StSlave, StProbeAnswered(s)
  PROVE  StInvariant'
<1>1. StTypeOK /\ StMemOK(mem) /\ StFresh
  BY DEF StInvariant, StTypeOK
<1>2. /\ StMemOK(mem)' /\ StMemKept /\ mem'.alive = mem.alive \cup {s}
      /\ StNodesOK(node)' /\ \A t \in StSlave \ {s} : StSame(t)
      /\ IF s \notin mem.alive \/ ~node[s].sysInit THEN StInits(s) ELSE StSame(s)
  BY <1>1, ProbeAnsweredShape
<1>3. /\ mem.phase = "up" /\ node[s].up /\ UNCHANGED <<store, req, asked, used>>
  BY DEF StProbeAnswered
<1>4. StUsedGrows
  BY <1>1, <1>3, UnchangedKept
<1>5. StTypeOK' /\ StMemoryAgrees' /\ StServes' /\ StAskedFor'
  BY <1>2, <1>3, <1>4, QuietKeeps
<1>6. StFresh'
  <2>1. node'[s].up
    BY <1>2, <1>3 DEF StInits, StSame
  <2>2. \A t \in StSlave \ {s} : node'[t].up = node[t].up /\ node'[t].sysInit = node[t].sysInit
    BY <1>2 DEF StSame
  <2>3. StRange(mem.slaves) \subseteq StSlave
    BY <1>1 DEF StMemOK, StRange
  <2> QED
    BY <2>1, <2>2, <2>3, <1>1, <1>2, <1>3 DEF StFresh, StMemKept
<1>7. StTold'
  <2>1. \A t \in StSlave : StSame(t) \/ StForgets(t) \/ (StInits(t) /\ mem.phase # "down")
    BY <1>2, <1>3
  <2>2. \A t \in mem'.alive : \/ t \in mem.alive \cup store.slaves
                              \/ StInits(t) /\ mem.phase # "down"
    BY <1>2, <1>3
  <2>3. mem'.alive \subseteq StSlave
    BY <1>2 DEF StMemOK
  <2> QED
    BY <2>1, <2>2, <2>3, <1>3, <1>4, ToldKeeps
<1> QED
  BY <1>5, <1>6, <1>7 DEF StInvariant

\* Once HttpToSlave has been at every slave, each that is stored and initialised has the
\* new parameters.
LEMMA HttpToSlaveKeeps ==
  ASSUME StInvariant, StHttpToSlave
  PROVE  StInvariant'
<1>1. /\ StTypeOK /\ StMemOK(mem) /\ StConfigOK(store) /\ StReqOK(req)
      /\ StFresh /\ StServes /\ StTold /\ StMemoryAgrees
  BY DEF StInvariant, StTypeOK
<1>2. /\ UNCHANGED mem /\ StNodesOK(node)' /\ StUsedGrows /\ StReqMoves
      /\ req.op = "output" /\ req.at = "tell"
      /\ \A s \in StSlave :
           /\ node'[s].up = node[s].up /\ node'[s].sysInit = node[s].sysInit
           /\ node'[s].outp \in {node[s].outp, mem.output}
           /\ used'.loss = 0 /\ s \in mem.alive /\ node[s].up => node'[s].outp = mem.output
  BY <1>1, HttpToSlaveShape
<1>3. UNCHANGED <<store, asked>>
  BY DEF StHttpToSlave
<1>4. mem.phase = "up" /\ StRange(mem.slaves) \subseteq StSlave
  BY <1>1, <1>2 DEF StServes, StMemOK, StRange
<1>5. StTypeOK' /\ StMemoryAgrees' /\ StServes' /\ StAskedFor'
  BY <1>1, <1>2, <1>3, <1>4, QuietKeeps, UnchangedKept
<1>6. StFresh'
  BY <1>1, <1>2, <1>4 DEF StFresh, StUsedGrows
<1>7. StTold'
  <2>1. SUFFICES ASSUME used'.fail = 0 PROVE StTold'
    BY DEF StTold
  <2>2. used.fail = 0 /\ (used'.loss = 0 => used.loss = 0) /\ StAskedOutputs' = StAskedOutputs
    BY <2>1, <1>2, <1>3 DEF StUsedGrows, StAskedOutputs
  <2>3. mem.output = req.k /\ req.k \in StAskedOutputs
    BY <2>2, <1>2, <1>4, OutputKnown
  <2>4. store.slaves \cup mem.alive \subseteq StSlave
    BY <1>1 DEF StConfigOK, StMemOK
  <2>5. ASSUME store.output = StNone, NEW s \in StSlave
        PROVE  node'[s].outp \in StAskedOutputs \cup {StNone}
    BY <2>2, <2>3, <2>5, <1>1, <1>2 DEF StTold
  <2>6. ASSUME used'.loss = 0, store.output # StNone,
               NEW s \in store.slaves \cup mem'.alive, node'[s].sysInit
        PROVE  node'[s].outp \in StAskedOutputs
    BY <2>2, <2>3, <2>4, <2>6, <1>1, <1>2 DEF StTold
  <2>7. ASSUME used'.loss = 0, NEW s \in store.slaves \cup mem'.alive, node'[s].sysInit
        PROVE  node'[s].outp = req'.k
    <3>1. s \in StSlave /\ node[s].sysInit /\ node[s].up
      BY <2>4, <2>7, <1>1, <1>2 DEF StFresh
    <3>2. store.slaves = StRange(mem.slaves)
      <4>1. StPending = StApply(store, req) /\ StApplied(store, req, StApply(store, req))
        BY <1>1, <1>2, ApplyShape DEF StPending
      <4>2. StApply(store, req).slaves = store.slaves
        BY <4>1, <1>2 DEF StApplied
      <4> QED
        BY <4>1, <4>2, <2>2, <1>1, <1>4 DEF StMemoryAgrees, StAgrees
    <3>3. s \in mem.alive
      BY <3>1, <3>2, <2>2, <2>7, <1>1, <1>2 DEF StFresh
    <3> QED
      BY <3>1, <3>3, <2>3, <2>7, <1>2 DEF StReqMoves
  <2> QED
    BY <2>2, <2>5, <2>6, <2>7, <1>3 DEF StTold
<1> QED
  BY <1>5, <1>6, <1>7 DEF StInvariant

\* Whether the slave that is added answers or not, it is not initialised without being alive.
LEMMA SystemInitKeeps ==
  ASSUME StInvariant, NEW ok \in BOOLEAN, StSystemInit(ok)
  PROVE  StInvariant'
<1>1. StTypeOK /\ StMemOK(mem) /\ StConfigOK(store) /\ StFresh /\ StServes
  BY DEF StInvariant, StTypeOK
<1>2. /\ StMemOK(mem)' /\ StMemKept /\ StNodesOK(node)' /\ StUsedGrows /\ StReqMoves
      /\ req.op = "addSlave" /\ req.at = "init" /\ req.s \in StSlave
      /\ \A t \in StSlave \ {req.s} : StSame(t)
      /\ ok => StInits(req.s) /\ node[req.s].up /\ mem'.alive = mem.alive \cup {req.s}
      /\ ~ok => /\ StSame(req.s) /\ mem'.alive = mem.alive \ {req.s}
                /\ used'.loss = 0 => ~node[req.s].up
  BY <1>1, SystemInitShape
<1>3. UNCHANGED <<store, asked>>
  BY DEF StSystemInit
<1>4. mem.phase = "up" /\ StRange(mem.slaves) \subseteq StSlave
  BY <1>1, <1>2 DEF StServes, StMemOK, StRange
<1>5. StTypeOK' /\ StMemoryAgrees' /\ StServes' /\ StAskedFor'
  BY <1>2, <1>3, <1>4, QuietKeeps
<1>6. StFresh'
  <2>1. \A t \in StSlave \ {req.s} : node'[t].up = node[t].up /\ node'[t].sysInit = node[t].sysInit
    BY <1>2 DEF StSame
  <2>2. \A t \in StSlave : node'[t].up \/ ~node'[t].sysInit
    BY <2>1, <1>1, <1>2 DEF StFresh, StInits, StSame
  <2>3. ASSUME used'.loss = 0, NEW t \in StRange(mem'.slaves) \ mem'.alive PROVE ~node'[t].sysInit
    <3>1. t \in StSlave /\ t \in StRange(mem.slaves)
      BY <1>2, <1>4 DEF StMemKept
    <3>2. CASE t = req.s
      BY <3>2, <2>3, <1>1, <1>2 DEF StFresh, StSame
    <3>3. CASE t # req.s
      BY <3>1, <3>3, <2>1, <2>3, <1>1, <1>2 DEF StFresh, StUsedGrows
    <3> QED
      BY <3>2, <3>3
  <2> QED
    BY <2>2, <2>3 DEF StFresh
<1>7. StTold'
  <2>1. \A t \in StSlave : StSame(t) \/ StForgets(t) \/ (StInits(t) /\ mem.phase # "down")
    BY <1>2, <1>4
  <2>2. \A t \in mem'.alive : \/ t \in mem.alive \cup store.slaves
                              \/ StInits(t) /\ mem.phase # "down"
    BY <1>2, <1>4
  <2>3. mem'.alive \subseteq StSlave /\ req'.op # "output"
    BY <1>2 DEF StMemOK, StReqMoves
  <2> QED
    BY <2>1, <2>2, <2>3, <1>2, <1>3, ToldKeeps
<1> QED
  BY <1>5, <1>6, <1>7 DEF StInvariant

-----------------------------------------------------------------------------
(* A master that dies and starts again, and the write.                     *)

\* The database stays as asked when the master dies.
LEMMA MasterDiesKeeps ==
  ASSUME StInvariant, StMasterDies
  PROVE  StInvariant'
<1>1. StTypeOK /\ StFresh /\ StAskedFor /\ StMemoryAgrees
  BY DEF StInvariant
<1>2. /\ StMemOK(mem)' /\ StReqOK(req)' /\ StAllSame /\ StUsedGrows
      /\ mem'.phase = "down" /\ mem'.slaves = <<>> /\ mem'.alive = {} /\ mem'.objs = {}
      /\ req'.op = "none" /\ req'.at = "idle"
  BY <1>1, MasterDiesShape
<1>3. UNCHANGED <<store, asked>>
  BY DEF StMasterDies
<1>4. StTypeOK'
  BY <1>1, <1>2, <1>3 DEF StTypeOK, StAllSame, StUsedGrows
<1>5. StMemoryAgrees'
  BY <1>1, <1>2, <1>3 DEF StMemoryAgrees, StUsedGrows
<1>6. StServes'
  BY <1>2 DEF StServes, StOnce
<1>7. StAskedFor'
  BY <1>1, <1>2, <1>3 DEF StAskedFor, StUsedGrows
<1>8. StFresh'
  BY <1>1, <1>2 DEF StFresh, StAllSame, StSame, StRange
<1>9. StTold'
  <2>1. \A s \in StSlave : StSame(s)
    BY <1>2 DEF StAllSame
  <2> QED
    BY <2>1, <1>2, <1>3, ToldKeeps
<1> QED
  BY <1>4, <1>5, <1>6, <1>7, <1>8, <1>9 DEF StInvariant

\* The output parameters of the memory are those of the database.
LEMMA LoadSystemKeeps ==
  ASSUME StInvariant, StLoadSystem
  PROVE  StInvariant'
<1>1. StTypeOK /\ StFresh /\ StAskedFor /\ StMemoryAgrees /\ StServes
  BY DEF StInvariant
<1>2. /\ StMemOK(mem)' /\ StAllSame /\ mem.phase = "down" /\ mem'.phase = "slaves"
      /\ mem'.output = store.output /\ mem'.slaves = mem.slaves /\ mem'.alive = mem.alive
  BY <1>1, LoadSystemShape
<1>3. UNCHANGED <<store, asked, req, used>> /\ StUsedGrows
  BY <1>1, UnchangedKept DEF StLoadSystem
<1>4. mem'.slaves = <<>> /\ mem'.alive = {} /\ req.op = "none" /\ StRange(mem'.slaves) = {}
  BY <1>1, <1>2 DEF StServes, StRange
<1>5. StTypeOK'
  BY <1>1, <1>2, <1>3 DEF StTypeOK, StAllSame
<1>6. StMemoryAgrees'
  BY <1>1, <1>2, <1>3, <1>4 DEF StMemoryAgrees
<1>7. StServes'
  BY <1>2, <1>3, <1>4 DEF StServes, StOnce
<1>8. StAskedFor'
  BY <1>1, <1>3 DEF StAskedFor
<1>9. StFresh'
  BY <1>1, <1>2, <1>4 DEF StFresh, StAllSame, StSame
<1>10. StTold'
  <2>1. \A s \in StSlave : StSame(s)
    BY <1>2 DEF StAllSame
  <2> QED
    BY <2>1, <1>3, <1>4, ToldKeeps
<1> QED
  BY <1>5, <1>6, <1>7, <1>8, <1>9, <1>10 DEF StInvariant

\* A stored slave comes to be used with the parameters that are stored.
LEMMA LoadSlaveKeeps ==
  ASSUME StInvariant, NEW s \in StSlave, NEW ok \in BOOLEAN, StLoadSlave(s, ok)
  PROVE  StInvariant'
<1>1. StTypeOK /\ StMemOK(mem) /\ StFresh /\ StAskedFor /\ StMemoryAgrees /\ StServes
  BY DEF StInvariant, StTypeOK
<1>2. /\ StMemOK(mem)' /\ StNodesOK(node)' /\ StUsedGrows
      /\ mem.phase = "slaves" /\ mem'.phase = "slaves" /\ mem'.output = mem.output
      /\ s \in store.slaves \ StRange(mem.slaves)
      /\ mem'.slaves = Append(mem.slaves, s)
      /\ mem'.alive = IF ok THEN mem.alive \cup {s} ELSE mem.alive
      /\ \A t \in StSlave \ {s} : StSame(t)
      /\ IF ok /\ ~node[s].sysInit THEN StInits(s) ELSE StSame(s)
      /\ ok => node[s].up
      /\ ~ok /\ used'.loss = 0 => ~node[s].up
  BY <1>1, LoadSlaveShape
<1>3. UNCHANGED <<store, asked, req>> /\ req.op = "none"
  BY <1>1, <1>2 DEF StLoadSlave, StServes
<1>4. /\ StRange(mem'.slaves) = StRange(mem.slaves) \cup {s} /\ StOnce(mem'.slaves)
      /\ StRange(mem.slaves) \subseteq StSlave
  <2>1. mem.slaves \in Seq(StSlave)
    BY <1>1 DEF StMemOK
  <2>2. StRange(mem.slaves) \subseteq StSlave
    BY <2>1 DEF StRange
  <2> QED
    BY <2>1, <2>2, <1>1, <1>2, AppendShape DEF StServes
<1>5. StTypeOK'
  BY <1>1, <1>2, <1>3 DEF StTypeOK, StUsedGrows
<1>6. StMemoryAgrees'
  BY <1>1, <1>2, <1>3, <1>4 DEF StMemoryAgrees, StUsedGrows
<1>7. StServes'
  BY <1>2, <1>3, <1>4 DEF StServes
<1>8. StAskedFor'
  BY <1>1, <1>2, <1>3 DEF StAskedFor, StUsedGrows
<1>9. StFresh'
  <2>1. \A t \in StSlave \ {s} : node'[t].up = node[t].up /\ node'[t].sysInit = node[t].sysInit
    BY <1>2 DEF StSame
  <2>2. node'[s].up \/ ~node'[s].sysInit
    BY <1>1, <1>2 DEF StFresh, StInits, StSame
  <2>3. ~ok /\ used'.loss = 0 => ~node'[s].sysInit
    BY <1>1, <1>2 DEF StFresh, StSame
  <2>4. ASSUME used'.loss = 0, NEW t \in StRange(mem'.slaves) \ mem'.alive, node'[t].sysInit
        PROVE  req'.at = "init" /\ req'.s = t
    <3>1. t # s
      BY <2>3, <2>4, <1>2
    <3> QED
      BY <3>1, <2>1, <2>4, <1>1, <1>2, <1>3, <1>4 DEF StFresh, StUsedGrows
  <2>5. \A t \in StSlave : node'[t].up \/ ~node'[t].sysInit
    BY <2>1, <2>2, <1>1 DEF StFresh
  <2> QED
    BY <2>4, <2>5 DEF StFresh
<1>10. StTold'
  <2>1. \A t \in StSlave : StSame(t) \/ StForgets(t) \/ (StInits(t) /\ mem.phase # "down")
    BY <1>2
  <2>2. \A t \in mem'.alive : t \in mem.alive \cup store.slaves
    BY <1>2
  <2> QED
    BY <2>1, <2>2, <1>2, <1>3, ToldKeeps
<1> QED
  BY <1>5, <1>6, <1>7, <1>8, <1>9, <1>10 DEF StInvariant

\* The memory that has been loaded agrees with the database.
LEMMA LoadObjsKeeps ==
  ASSUME StInvariant, StLoadObjs
  PROVE  StInvariant'
<1>1. /\ StTypeOK /\ StConfigOK(store) /\ StFresh /\ StAskedFor /\ StMemoryAgrees /\ StServes
  BY DEF StInvariant, StTypeOK
<1>2. /\ StMemOK(mem)' /\ StAllSame /\ mem.phase = "slaves" /\ mem'.phase = "up"
      /\ store.slaves = StRange(mem.slaves)
      /\ mem'.output = mem.output /\ mem'.slaves = mem.slaves /\ mem'.alive = mem.alive
      /\ mem'.objs = store.objs /\ \A o \in StObj : StRange(mem'.tasks[o]) = store.tasks[o]
  BY <1>1, LoadObjsShape
<1>3. UNCHANGED <<store, asked, req, used>> /\ StUsedGrows /\ req.op = "none"
  BY <1>1, <1>2, UnchangedKept DEF StLoadObjs, StServes
<1>4. StTypeOK'
  BY <1>1, <1>2, <1>3 DEF StTypeOK, StAllSame
<1>5. StMemoryAgrees'
  <2>1. StPending' = store
    BY <1>3 DEF StPending
  <2>2. ASSUME used.fail = 0 PROVE StAgrees(StPending)'
    <3>1. mem'.output = store.output
      BY <2>2, <1>1, <1>2 DEF StMemoryAgrees
    <3>2. \A o \in mem'.objs : store.tasks[o] \subseteq StRange(mem'.tasks[o])
      BY <1>1, <1>2 DEF StConfigOK
    <3> QED
      BY <3>1, <3>2, <2>1, <1>2 DEF StAgrees
  <2> QED
    BY <2>2, <1>1, <1>2, <1>3 DEF StMemoryAgrees
<1>6. StServes'
  BY <1>1, <1>2, <1>3 DEF StServes
<1>7. StAskedFor'
  BY <1>1, <1>3 DEF StAskedFor
<1>8. StFresh'
  <2>1. StRange(mem.slaves) \subseteq StSlave
    BY <1>1 DEF StTypeOK, StMemOK, StRange
  <2> QED
    BY <2>1, <1>1, <1>2, <1>3 DEF StFresh, StAllSame, StSame
<1>9. StTold'
  <2>1. \A s \in StSlave : StSame(s)
    BY <1>2 DEF StAllSame
  <2> QED
    BY <2>1, <1>2, <1>3, ToldKeeps
<1> QED
  BY <1>4, <1>5, <1>6, <1>7, <1>8, <1>9 DEF StInvariant

\* MDelObj makes the memory what the database will be.
LEMMA EraseKeeps ==
  ASSUME StInvariant, StErase
  PROVE  StInvariant'
<1>1. /\ StTypeOK /\ StMemOK(mem) /\ StNodesOK(node) /\ StConfigOK(store) /\ StReqOK(req)
      /\ StFresh /\ StAskedFor /\ StMemoryAgrees /\ StServes
  BY DEF StInvariant, StTypeOK
<1>2. /\ mem' = [mem EXCEPT !.objs = mem.objs \ {req.o}] /\ req' = [req EXCEPT !.at = "db"]
      /\ UNCHANGED <<node, store, asked, used>> /\ req.at = "erase"
  BY DEF StErase
<1>3. req.op = "del" /\ req.o \in StObj
  BY <1>1, <1>2 DEF StReqOK
<1>4. /\ req'.at = "db" /\ req'.op = "del" /\ req'.s = req.s /\ req'.o = req.o /\ req'.k = req.k
      /\ StReqOK(req)'
  BY <1>1, <1>2, <1>3, StepShape DEF StReqOK
<1>5. /\ StMemOK(mem)' /\ mem'.phase = mem.phase /\ mem'.output = mem.output
      /\ mem'.slaves = mem.slaves /\ mem'.alive = mem.alive /\ mem'.objs = mem.objs \ {req.o}
      /\ mem'.tasks = mem.tasks
  BY <1>1, <1>2 DEF StMemOK
<1>6. StAllSame /\ StUsedGrows
  BY <1>1, <1>2, UnchangedSame, UnchangedKept
<1>7. StApply(store, req)' = StApply(store, req) /\ mem.phase = "up"
  BY <1>1, <1>2, <1>3, <1>4 DEF StApply, StServes
<1>8. StTypeOK'
  BY <1>1, <1>2, <1>4, <1>5, <1>6 DEF StTypeOK, StAllSame
<1>9. StMemoryAgrees'
  <2>1. StPending = store /\ StPending' = StApply(store, req)
    BY <1>2, <1>3, <1>4, <1>7 DEF StPending
  <2>2. StApplied(store, req, StApply(store, req))
    BY <1>1, <1>3, ApplyShape
  <2>3. ASSUME StAgrees(store) PROVE StAgrees(StPending)'
    <3>1. /\ StApply(store, req).output = store.output /\ StApply(store, req).slaves = store.slaves
          /\ StApply(store, req).objs = store.objs \ {req.o}
          /\ \A p \in StObj : p # req.o => StApply(store, req).tasks[p] = store.tasks[p]
      BY <2>2, <1>3 DEF StApplied
    <3>2. mem.objs \subseteq StObj
      BY <1>1 DEF StMemOK
    <3>3. StPending'.output = mem'.output /\ StPending'.slaves = StRange(mem'.slaves)
      BY <3>1, <2>1, <2>3, <1>5 DEF StAgrees
    <3>4. StPending'.objs = mem'.objs
      BY <3>1, <2>1, <2>3, <1>5 DEF StAgrees
    <3>5. \A p \in mem'.objs : StPending'.tasks[p] \subseteq StRange(mem'.tasks[p])
      BY <3>1, <3>2, <2>1, <2>3, <1>5 DEF StAgrees
    <3> QED
      BY <3>3, <3>4, <3>5 DEF StAgrees
  <2> QED
    BY <2>1, <2>3, <1>1, <1>2, <1>5 DEF StMemoryAgrees
<1>10. StServes'
  BY <1>1, <1>4, <1>5, <1>7 DEF StServes
<1>11. StAskedFor'
  BY <1>1, <1>2, <1>3, <1>7 DEF StAskedFor
<1>12. StFresh'
  BY <1>1, <1>2, <1>5 DEF StFresh
<1>13. StTold'
  <2>1. \A s \in StSlave : StSame(s)
    BY <1>6 DEF StAllSame
  <2> QED
    BY <2>1, <1>2, <1>4, <1>5, <1>6, ToldKeeps
<1> QED
  BY <1>8, <1>9, <1>10, <1>11, <1>12, <1>13 DEF StInvariant

\* What is written is a configuration, also when a write before it has failed.
LEMMA WrittenTyped ==
  ASSUME StConfigOK(store), StReqOK(req), req.op # "none",
         \A o \in StObj : IsFiniteSet(store.tasks[o])
  PROVE  StConfigOK(StWritten) /\ \A o \in StObj : IsFiniteSet(StWritten.tasks[o])
<1> DEFINE d == StApply(store, req)
<1>1. StConfigOK(d) /\ StApplied(store, req, d)
  BY ApplyShape
<1>2. \A o \in StObj : IsFiniteSet(d.tasks[o])
  <2> TAKE o \in StObj
  <2>1. IsFiniteSet(store.tasks[o] \cup {req.k})
    BY FS_AddElement
  <2>2. IsFiniteSet(store.tasks[o] \ {req.k})
    BY FS_RemoveElement
  <2>3. IsFiniteSet({})
    BY FS_EmptySet
  <2>4. d.tasks[o] \in {store.tasks[o], store.tasks[o] \cup {req.k}, store.tasks[o] \ {req.k}, {}}
    BY <1>1 DEF StApplied
  <2> HIDE DEF d
  <2> QED
    BY <2>1, <2>2, <2>3, <2>4
<1>3. CASE req.op \in {"start", "stop"}
  <2>1. req.o \in StObj
    BY <1>3 DEF StReqOK
  <2>2. StWritten = [d EXCEPT !.objs = store.objs \cup {req.o}] /\ d.objs = store.objs
    <3>1. d.objs = store.objs
      BY <1>1, <1>3 DEF StApplied
    <3>2. DOMAIN store = {"output", "slaves", "objs", "tasks"}
      BY DEF StConfigOK
    <3>3. CASE req.op = "start"
      BY <3>1, <3>2, <3>3 DEF StWritten, StApply
    <3>4. CASE req.op = "stop"
      BY <3>1, <3>2, <3>4 DEF StWritten, StApply
    <3> QED
      BY <3>1, <3>3, <3>4, <1>3
  <2> HIDE DEF d
  <2>3. StConfigOK(StWritten) /\ StWritten.tasks = d.tasks
    BY <2>1, <2>2, <1>1 DEF StConfigOK
  <2> QED
    BY <2>3, <1>2
<1>4. CASE req.op \notin {"start", "stop"}
  BY <1>4, <1>1, <1>2, WrittenShape
<1> QED
  BY <1>3, <1>4

\* The write that does not fail makes the database what the memory is.
LEMMA SaveWrites ==
  ASSUME StInvariant, StSave, used.fail = 0, store' = StWritten
  PROVE  /\ store' = StApply(store, req) /\ StApplied(store, req, store')
         /\ StAgrees(store') /\ mem.phase = "up"
<1>1. /\ StTypeOK /\ StConfigOK(store) /\ StReqOK(req) /\ StMemOK(mem)
      /\ StMemoryAgrees /\ StServes
  BY DEF StInvariant, StTypeOK
<1>2. req.at = "db" /\ req.op # "none" /\ mem.phase = "up"
  BY <1>1 DEF StSave, StReqOK, StServes
<1>3. StPending = StApply(store, req) /\ StAgrees(StPending)
  BY <1>1, <1>2 DEF StPending, StMemoryAgrees
<1>4. StApplied(store, req, StApply(store, req))
  BY <1>1, <1>2, ApplyShape
<1>5. req.op \in {"start", "stop"} => req.o \in store.objs
  BY <1>1, <1>3, <1>4 DEF StServes, StAgrees, StApplied
<1>6. StWritten = StApply(store, req)
  BY <1>1, <1>2, <1>5, WrittenShape
<1> QED
  BY <1>2, <1>3, <1>4, <1>6

\* The database becomes what the memory is, or a write has failed.
LEMMA SaveKeeps ==
  ASSUME StInvariant, StSave
  PROVE  StInvariant'
<1>1. /\ StTypeOK /\ StConfigOK(store) /\ StReqOK(req) /\ StMemOK(mem) /\ StNodesOK(node)
      /\ used \in [StSteps -> Nat] /\ \A c \in asked : StConfigOK(c)
      /\ \A o \in StObj : IsFiniteSet(store.tasks[o])
      /\ StFresh /\ StAskedFor /\ StMemoryAgrees /\ StServes /\ StTold
  BY DEF StInvariant, StTypeOK
<1>2. /\ req.at = "db" /\ req' = StIdle /\ asked' = {StApply(c, req) : c \in asked}
      /\ UNCHANGED <<node, mem>>
  BY DEF StSave
<1>3. /\ req.op # "none" /\ mem.phase = "up"
      /\ req'.op = "none" /\ req'.at = "idle" /\ StReqOK(req)'
  BY <1>1, <1>2 DEF StReqOK, StServes, StIdle
<1>4. \A c \in asked : StConfigOK(StApply(c, req)) /\ StApplied(c, req, StApply(c, req))
  BY <1>1, <1>3, ApplyShape
<1>5. /\ StUsedGrows
      /\ \/ store' = StWritten
         \/ store' = store /\ used'.fail # 0
  <2>1. CASE store' = StWritten /\ UNCHANGED used
    BY <2>1, <1>1, UnchangedKept
  <2>2. CASE StUp("fail") /\ UNCHANGED store
    <3>1. StUsedGrows /\ used'["fail"] # 0
      BY <2>2, <1>1, UpGrows DEF StSteps
    <3> QED
      BY <3>1, <2>2
  <2> QED
    BY <2>1, <2>2 DEF StSave
<1>6. used'.fail = 0 => /\ used.fail = 0 /\ store' = StApply(store, req)
                        /\ StApplied(store, req, store') /\ StAgrees(store')
  BY <1>5, SaveWrites DEF StUsedGrows
<1>7. StTypeOK'
  <2>1. StConfigOK(store') /\ \A o \in StObj : IsFiniteSet(store'.tasks[o])
    BY <1>1, <1>3, <1>5, WrittenTyped
  <2>2. \A c \in asked' : StConfigOK(c)
    BY <1>2, <1>4
  <2>3. StNodesOK(node)' /\ StMemOK(mem)'
    BY <1>1, <1>2
  <2> QED
    BY <2>1, <2>2, <2>3, <1>3, <1>5 DEF StTypeOK, StUsedGrows
<1>8. StMemoryAgrees'
  <2>1. StPending' = store'
    BY <1>3 DEF StPending
  <2>2. StAgrees(store') => StAgrees(StPending)'
    BY <2>1, <1>2 DEF StAgrees
  <2>3. ASSUME used'.fail = 0, NEW o \in StObj, o \notin store'.objs PROVE store'.tasks[o] = {}
    <3>1. o \notin store.objs => store.tasks[o] = {}
      BY <2>3, <1>1, <1>6 DEF StMemoryAgrees
    <3>2. req.op \in {"start", "stop"} => req.o \in store'.objs
      BY <2>3, <1>1, <1>2, <1>6 DEF StServes, StAgrees
    <3>3. StApplied(store, req, store')
      BY <2>3, <1>6
    <3>4. CASE req.op \in {"add", "del", "start", "stop"} /\ o = req.o
      BY <3>2, <3>3, <3>4, <2>3 DEF StApplied
    <3>5. CASE ~(req.op \in {"add", "del", "start", "stop"} /\ o = req.o)
      <4>1. store'.tasks[o] = store.tasks[o] /\ o \notin store.objs
        BY <3>3, <3>5, <2>3 DEF StApplied
      <4> QED
        BY <4>1, <3>1
    <3> QED
      BY <3>4, <3>5
  <2> QED
    BY <2>2, <2>3, <1>2, <1>3, <1>6 DEF StMemoryAgrees
<1>9. StServes'
  BY <1>1, <1>2, <1>3 DEF StServes
<1>10. StAskedFor'
  BY <1>1, <1>2, <1>3, <1>6 DEF StAskedFor
<1>11. StFresh'
  BY <1>1, <1>2, <1>5 DEF StFresh, StUsedGrows
<1>12. StTold'
  <2>1. SUFFICES ASSUME used'.fail = 0 PROVE StTold'
    BY DEF StTold
  <2>2. /\ used.fail = 0 /\ (used'.loss = 0 => used.loss = 0) /\ StApplied(store, req, store')
        /\ store' = StApply(store, req) /\ store' \in asked' /\ StAgrees(store')
    BY <2>1, <1>1, <1>2, <1>5, <1>6 DEF StUsedGrows, StAskedFor
  <2>3. ASSUME NEW s \in store'.slaves \cup mem.alive
        PROVE  s \in store.slaves \cup mem.alive \/ (used'.loss = 0 => ~node[s].sysInit)
    <3>1. CASE s \in mem.alive
      BY <3>1
    <3>2. CASE s \in store'.slaves \ mem.alive
      BY <3>2, <2>2, <1>1, <1>2 DEF StAgrees, StFresh
    <3> QED
      BY <3>1, <3>2
  <2>4. store'.slaves \cup mem.alive \subseteq StSlave
    <3>1. StConfigOK(store')
      BY <2>2, <1>1, <1>3, ApplyShape
    <3> QED
      BY <3>1, <1>1 DEF StConfigOK, StMemOK
  <2>5. CASE req.op = "output"
    <3>1. store'.output = req.k /\ store'.slaves = store.slaves /\ req.k # StNone
      BY <2>2, <2>5, <1>1, StAssumption DEF StApplied, StReqOK
    <3>2. req.k \in StAskedOutputs'
      BY <3>1, <2>2 DEF StAskedOutputs
    <3>3. ASSUME used'.loss = 0, NEW s \in store'.slaves \cup mem.alive, node[s].sysInit
          PROVE  node[s].outp \in StAskedOutputs'
      BY <3>1, <3>2, <3>3, <2>2, <2>5, <1>1, <1>2 DEF StTold
    <3> QED
      BY <3>1, <3>3, <1>2, <1>3 DEF StTold
  <2>6. CASE req.op # "output"
    <3>1. store'.output = store.output
      BY <2>2, <2>6 DEF StApplied
    <3>2. \A c \in asked : StApply(c, req).output = c.output
      BY <2>6, <1>4 DEF StApplied
    <3>3. StAskedOutputs' = StAskedOutputs
      BY <3>2, <1>2 DEF StAskedOutputs
    <3>4. ASSUME used'.loss = 0, store'.output # StNone,
                 NEW s \in store'.slaves \cup mem.alive, node[s].sysInit
          PROVE  node[s].outp \in StAskedOutputs
      BY <3>1, <3>4, <2>2, <2>3, <1>1 DEF StTold
    <3>5. ASSUME store'.output = StNone, NEW s \in StSlave
          PROVE  node[s].outp \in StAskedOutputs \cup {StNone}
      BY <3>1, <3>5, <2>2, <1>1 DEF StTold
    <3> QED
      BY <3>1, <3>3, <3>4, <3>5, <1>2, <1>3 DEF StTold
  <2> QED
    BY <2>5, <2>6
<1> QED
  BY <1>7, <1>8, <1>9, <1>10, <1>11, <1>12 DEF StInvariant

-----------------------------------------------------------------------------

\* The installation has the invariant.
LEMMA InitialHolds ==
  ASSUME StInitial
  PROVE  StInvariant
<1> DEFINE k0 == CHOOSE k \in StTask : TRUE
           t == [o \in StObj |-> {k0}]
<1>1. /\ node = [s \in StSlave |-> StNode] /\ mem = StMemory /\ req = StIdle
      /\ asked = {store} /\ used = [b \in DOMAIN StBound |-> 0]
      /\ store = [StEmpty EXCEPT !.slaves = StSlave, !.objs = StObj, !.tasks = t]
  BY DEF StInitial
<1>2. k0 \in StTask
  BY StAssumption
<1> HIDE DEF k0
<1>3. t \in [StObj -> SUBSET StTask] /\ \A o \in StObj : t[o] = {k0}
  BY <1>2
<1> HIDE DEF t
<1>4. StConfigOK(store) /\ store.output = StNone /\ store.objs = StObj /\ store.tasks = t
  BY <1>1, <1>3 DEF StEmpty, StConfigOK, StOut
<1>5. StNodesOK(node) /\ \A s \in StSlave : ~node[s].sysInit /\ node[s].outp = StNone
  BY <1>1 DEF StNodesOK, StNode, StOut
<1>6. StMemOK(mem) /\ mem.phase = "down" /\ mem.slaves = <<>> /\ mem.alive = {}
  <2>1. [o \in StObj |-> <<>>] \in [StObj -> Seq(StTask)]
    OBVIOUS
  <2> QED
    BY <2>1, <1>1 DEF StMemory, StMemOK, StOut
<1>7. StReqOK(req) /\ req.op = "none"
  BY <1>1 DEF StIdle, StReqOK
<1>8. used \in [StSteps -> Nat]
  BY <1>1, StAssumption DEF StSteps
<1>9. \A o \in StObj : IsFiniteSet(store.tasks[o])
  BY <1>3, <1>4, FS_Singleton
<1>10. StTypeOK
  BY <1>1, <1>4, <1>5, <1>6, <1>7, <1>8, <1>9 DEF StTypeOK
<1>11. StMemoryAgrees /\ StServes /\ StAskedFor /\ StFresh /\ StTold
  BY <1>1, <1>4, <1>5, <1>6, <1>7
     DEF StMemoryAgrees, StServes, StOnce, StAskedFor, StFresh, StTold, StRange
<1> QED
  BY <1>10, <1>11 DEF StInvariant

\* Every step keeps it.
LEMMA StepKeeps ==
  ASSUME StInvariant, StNext
  PROVE  StInvariant'
<1>1. StTypeOK /\ used \in [StSteps -> Nat]
  BY DEF StInvariant, StTypeOK
<1>2. CASE StMaster
  BY <1>2, LoadSystemKeeps, LoadObjsKeeps, LoadSlaveKeeps DEF StMaster
<1>3. CASE StMasterDies
  BY <1>3, MasterDiesKeeps
<1>4. CASE StThreads
  <2>1. ASSUME NEW s \in StSlave, StProbeFails(s) PROVE StInvariant'
    <3>1. StMemOK(mem)' /\ StMemKept /\ StLeaves /\ StAllSame /\ StUsedGrows
      BY <2>1, <1>1, ProbeFailsShape
    <3>2. UNCHANGED <<store, asked, req>>
      BY <2>1 DEF StProbeFails
    <3> QED
      BY <3>1, <3>2, SameKeeps
  <2>2. ASSUME NEW s \in StSlave, StProbeAnswered(s) PROVE StInvariant'
    BY <2>2, ProbeAnsweredKeeps
  <2>3. ASSUME NEW o \in StObj, NEW s \in StSlave, NEW ok \in BOOLEAN, StObjThreadAssigns(o, s, ok)
        PROVE  StInvariant'
    <3>1. StAssigns(o, s, ok) /\ UNCHANGED <<store, asked, req>>
      BY <2>3 DEF StObjThreadAssigns
    <3>2. StMemOK(mem)' /\ StMemKept /\ StLeaves /\ StAllSame /\ StUsedGrows
      BY <3>1, <1>1, AssignsShape
    <3> QED
      BY <3>1, <3>2, SameKeeps
  <2>4. ASSUME StObjThreadStarts PROVE StInvariant'
    <3>1. StStarts(objTh.o, StRange(mem.tasks[objTh.o])) /\ UNCHANGED <<mem, store, asked, req, used>>
      BY <2>4 DEF StObjThreadStarts
    <3>2. StAllSame
      BY <3>1, <1>1, StartsShape DEF StTypeOK
    <3>3. StMemOK(mem)' /\ StMemKept /\ StLeaves /\ StUsedGrows
      BY <3>1, <1>1, UnchangedKept
    <3> QED
      BY <3>1, <3>2, <3>3, SameKeeps
  <2> QED
    BY <1>4, <2>1, <2>2, <2>3, <2>4 DEF StThreads
<1>5. CASE StRest
  <2>1. ASSUME StHttpStart PROVE StInvariant'
    <3>1. /\ StMemOK(mem)' /\ StMemKept /\ StLeaves /\ StAllSame /\ StUsedGrows
          /\ StReqMoves /\ req.op = "start" /\ req.at # "init"
      BY <2>1, <1>1, HttpStartShape
    <3>2. UNCHANGED <<store, asked>>
      BY <2>1 DEF StHttpStart
    <3> QED
      BY <3>1, <3>2, SameKeeps
  <2>2. ASSUME NEW ok \in BOOLEAN, StHttpStop(ok) PROVE StInvariant'
    <3>1. /\ UNCHANGED mem /\ StAllSame /\ StUsedGrows
          /\ StReqMoves /\ req.op # "output" /\ req.at # "init"
      BY <2>2, <1>1, HttpStopShape
    <3>2. UNCHANGED <<store, asked>>
      BY <2>2 DEF StHttpStop
    <3>3. StMemOK(mem)' /\ StMemKept /\ StLeaves
      BY <3>1, <1>1, UnchangedKept
    <3> QED
      BY <3>1, <3>2, <3>3, SameKeeps
  <2>3. ASSUME NEW ok \in BOOLEAN, StSystemInit(ok) PROVE StInvariant'
    BY <2>3, SystemInitKeeps
  <2> QED
    BY <1>5, <2>1, <2>2, <2>3, HttpToSlaveKeeps, EraseKeeps, SaveKeeps DEF StRest
<1>6. CASE StClient
  BY <1>6, SetOutputKeeps, AddSlaveKeeps, DelSlaveKeeps, AddObjKeeps, DelObjKeeps,
     StartTaskKeeps, StopTaskKeeps DEF StClient
<1>7. CASE \E s \in StSlave : StSlaveDies(s) \/ StSlaveBack(s)
  BY <1>7, SlaveDiesKeeps, SlaveBackKeeps
<1> QED
  BY <1>2, <1>3, <1>4, <1>5, <1>6, <1>7 DEF StNext

\* So does a step that changes nothing.
LEMMA StutterKeeps ==
  ASSUME StInvariant, UNCHANGED stVars
  PROVE  StInvariant'
<1>1. /\ StTypeOK' /\ StMemoryAgrees' /\ StServes' /\ StAskedFor' /\ StFresh' /\ StTold'
  BY DEF stVars, StInvariant, StTypeOK, StMemoryAgrees, StAgrees, StPending, StServes, StAskedFor,
         StFresh, StTold, StAskedOutputs
<1> QED
  BY <1>1 DEF StInvariant

\* The parts of StoreConsistent.
LEMMA InvariantSays ==
  ASSUME StInvariant
  PROVE  StoreConsistent
<1>1. /\ StTypeOK /\ StMemOK(mem) /\ StReqOK(req) /\ StMemoryAgrees /\ StAskedFor /\ StTold
  BY DEF StInvariant, StTypeOK
<1>2. StoreIsAsked
  BY <1>1 DEF StoreIsAsked, StAskedFor
<1>3. req.at = "idle" => req.op = "none" /\ StPending = store
  BY <1>1 DEF StReqOK, StPending
<1>4. SlaveOutputAsked
  <2>1. SUFFICES ASSUME mem.phase = "up", req.at = "idle", used.loss = 0, used.fail = 0,
                        NEW s \in mem.alive, node[s].sysInit
                 PROVE  node[s].outp \in StAskedOutputs
                                         \cup (IF mem.output = StNone THEN {StNone} ELSE {})
    BY DEF SlaveOutputAsked, StAskedOutputs
  <2>2. mem.output = store.output
    BY <2>1, <1>1, <1>3 DEF StMemoryAgrees, StAgrees
  <2>3. s \in StSlave
    BY <1>1 DEF StMemOK
  <2> QED
    BY <2>1, <2>2, <2>3, <1>1 DEF StTold
<1>5. StoredInMemory
  BY <1>1, <1>3 DEF StoredInMemory, StMemoryAgrees, StAgrees
<1> QED
  BY <1>2, <1>4, <1>5 DEF StoreConsistent

\* Database, memory and slaves agree on what the client asked for (MasterParams::Start and
\* the handlers of the master), whichever of them dies and at whatever step of a request.
THEOREM StoreConsistentHolds == StSpec => []StoreConsistent
<1>1. StInitial => StInvariant
  BY InitialHolds
<1>2. StInvariant /\ [StNext]_stVars => StInvariant'
  BY StepKeeps, StutterKeeps
<1>3. StInvariant => StoreConsistent
  BY InvariantSays
<1> QED
  BY <1>1, <1>2, <1>3, PTL DEF StSpec
==============================================================================
