-------------------------- MODULE SlaveObjects_proofs --------------------------
(***************************************************************************)
(* The objects and tasks of a slave (SlaveObjects), for any requests in    *)
(* any order, any http files and any deaths of tasks.                      *)
(*                                                                         *)
(* Ids and names stay unique although the test and the put are two         *)
(* critical sections: between them the REST thread is the only one that    *)
(* could add what it tested for, because the other thread that adds        *)
(* objects uses ids of its own (SoRestOK, SoHttpOK).  A stopped task stays *)
(* stopped because it is in no list any more (SoStoppedOut), which takes   *)
(* that no task is in two (SoOnePlace).                                    *)
(***************************************************************************)
EXTENDS SlaveObjects, SequenceTheorems, WellFoundedInduction, TLAPS

\* Names; that of a request without one is empty.
SoText == STRING \cup {""}

SoTaskState == {"new", "running", "silent", "stopped"}

\* The tables, as a state s of the record so.
SoTables(s) ==
  /\ s.objs \in Seq(Nat) /\ s.ids \in Seq(Int) /\ s.tasks \in Seq(Seq(Nat))
  /\ s.names \in Seq(SoText) /\ s.state \in Seq(SoTaskState) /\ s.dropped \subseteq Nat
  /\ Len(s.tasks) = Len(s.ids) /\ Len(s.state) = Len(s.names)
  /\ \A i \in 1..Len(s.objs) : s.objs[i] \in 1..Len(s.ids)
  /\ \A o \in 1..Len(s.ids) : \A j \in 1..Len(s.tasks[o]) : s.tasks[o][j] \in 1..Len(s.names)

\* Every listed object has an id of its own.
SoIdsOnce(s) ==
  \A i, j \in 1..Len(s.objs) : s.ids[s.objs[i]] = s.ids[s.objs[j]] => i = j

\* Every task of an object, listed or not any more, has a name of its own.
SoNamesOnce(s) ==
  \A o \in 1..Len(s.ids) : \A i, j \in 1..Len(s.tasks[o]) :
    s.names[s.tasks[o][i]] = s.names[s.tasks[o][j]] => i = j

\* No task belongs to two objects.
SoOnePlace(s) ==
  \A o, p \in 1..Len(s.ids) : \A i \in 1..Len(s.tasks[o]), j \in 1..Len(s.tasks[p]) :
    s.tasks[o][i] = s.tasks[p][j] => o = p

\* A stopped task belongs to none.
SoStoppedOut(s) ==
  \A o \in 1..Len(s.ids) : \A j \in 1..Len(s.tasks[o]) : s.state[s.tasks[o][j]] # "stopped"

\* A task that runs is in the list of a listed object, or was dropped.
SoKept(s) ==
  \A k \in 1..Len(s.names) : s.state[k] = "running" =>
    \/ k \in s.dropped
    \/ \E i \in 1..Len(s.objs) : \E j \in 1..Len(s.tasks[s.objs[i]]) : s.tasks[s.objs[i]][j] = k

SoData(s) ==
  SoTables(s) /\ SoIdsOnce(s) /\ SoNamesOnce(s) /\ SoOnePlace(s) /\ SoStoppedOut(s) /\ SoKept(s)

SoRecord ==
  [on : BOOLEAN, objs : Seq(Nat), ids : Seq(Int), tasks : Seq(Seq(Nat)), names : Seq(SoText),
   state : Seq(SoTaskState), dropped : SUBSET Nat, output : BOOLEAN, alg : BOOLEAN,
   asked : Nat, died : Nat]

SoRestRecord ==
  [at : {"idle", "get", "put", "start", "stop", "putTask"},
   kind : {"", "add", "del", "start", "stop"}, id : Nat, name : SoText, obj : Nat]

\* What the REST thread has tested still holds when it acts on it.
SoRestOK ==
  /\ soRest \in SoRestRecord
  /\ soRest.at # "idle" => soRest.id \in SoId
  /\ soRest.at \in {"start", "stop", "putTask"} =>
       soRest.obj \in 1..Len(so.ids) /\ so.ids[soRest.obj] \in SoId
  /\ soRest.at = "put" => \A i \in 1..Len(so.objs) : so.ids[so.objs[i]] # soRest.id
  /\ soRest.at = "putTask" =>
       \A j \in 1..Len(so.tasks[soRest.obj]) : so.names[so.tasks[soRest.obj][j]] # soRest.name

\* ObjManager is at an object that is still listed.
SoMgrOK ==
  /\ soMgr \in [at : {"sleep", "obj", "task"}, i : Nat, j : Nat]
  /\ soMgr.at # "sleep" => soMgr.i >= 1
  /\ soMgr.at = "task" => soMgr.i <= Len(so.objs) /\ soMgr.j >= 1

\* The ids are those of users, and those of the http files up to the current one.
SoHttpOK ==
  /\ soHttp \in [at : {"output", "alg", "put", "putTask", "ended"}, i : Nat, obj : Nat]
  /\ soHttp.i >= 1
  /\ soHttp.at \in {"put", "putTask"} => soHttp.i <= Len(SoHttp)
  /\ soHttp.at = "putTask" =>
       /\ soHttp.obj \in 1..Len(so.ids) /\ so.ids[soHttp.obj] \notin SoId
       /\ so.tasks[soHttp.obj] = <<>>
  /\ \A o \in 1..Len(so.ids) :
       \/ so.ids[o] \in SoId
       \/ so.ids[o] < 0 /\ -so.ids[o] < soHttp.i
       \/ soHttp.at = "putTask" /\ so.ids[o] = -soHttp.i

SoInvariant == so \in SoRecord /\ SoData(so) /\ SoRestOK /\ SoMgrOK /\ SoHttpOK

-----------------------------------------------------------------------------
(* Lists *)

\* One element is taken out, and those behind it move up.
LEMMA SoRemoved ==
  ASSUME NEW S, NEW q \in Seq(S), NEW at \in 1..Len(q)
  PROVE  /\ RemoveAt(q, at) \in Seq(S) /\ Len(RemoveAt(q, at)) = Len(q) - 1
         /\ \A i \in 1..Len(q)-1 : RemoveAt(q, at)[i] = IF i < at THEN q[i] ELSE q[i + 1]
  <1> DEFINE a == SubSeq(q, 1, at - 1)
             b == SubSeq(q, at + 1, Len(q))
  <1>1. Len(q) \in Nat /\ at \in Nat /\ at >= 1 /\ at <= Len(q)
    OBVIOUS
  <1>2. a \in Seq(S) /\ Len(a) = at - 1 /\ \A i \in 1..at-1 : a[i] = q[i]
    BY <1>1
  <1>3. b \in Seq(S) /\ Len(b) = Len(q) - at /\ \A i \in 1..Len(q)-at : b[i] = q[i + at]
    BY <1>1
  <1>4. RemoveAt(q, at) = a \o b
    BY DEF RemoveAt
  <1> HIDE DEF a, b
  <1>5. /\ a \o b \in Seq(S) /\ Len(a \o b) = Len(a) + Len(b)
        /\ \A i \in 1..Len(a)+Len(b) :
             (a \o b)[i] = IF i <= Len(a) THEN a[i] ELSE b[i - Len(a)]
    BY <1>2, <1>3, ConcatProperties, Zenon
  <1>6. Len(a) + Len(b) = Len(q) - 1
    BY <1>1, <1>2, <1>3
  <1>7. ASSUME NEW i \in 1..Len(q)-1
        PROVE  (a \o b)[i] = IF i < at THEN q[i] ELSE q[i + 1]
    <2>1. CASE i < at
      <3>1. i \in 1..at-1 /\ i <= Len(a)
        BY <1>1, <1>2, <2>1
      <3> QED
        BY <1>2, <1>5, <1>6, <2>1, <3>1
    <2>2. CASE ~(i < at)
      <3>1. /\ ~(i <= Len(a)) /\ i - Len(a) \in 1..Len(q)-at
            /\ (i - Len(a)) + at = i + 1
        BY <1>1, <1>2, <2>2
      <3>2. (a \o b)[i] = b[i - Len(a)]
        BY <1>5, <1>6, <3>1
      <3> QED
        BY <1>3, <2>2, <3>1, <3>2
    <2> QED
      BY <2>1, <2>2
  <1> QED
    BY <1>4, <1>5, <1>6, <1>7

\* What is not taken out is still there, and nothing is new.
LEMMA SoRemovedPlaces ==
  ASSUME NEW S, NEW q \in Seq(S), NEW at \in 1..Len(q)
  PROVE  /\ \A i \in 1..Len(q) : i # at =>
              \E j \in 1..Len(RemoveAt(q, at)) : RemoveAt(q, at)[j] = q[i]
         /\ \A j \in 1..Len(RemoveAt(q, at)) :
              \E i \in 1..Len(q) : /\ i # at /\ RemoveAt(q, at)[j] = q[i]
                                   /\ i = IF j < at THEN j ELSE j + 1
  <1>1. Len(q) \in Nat /\ at \in Nat /\ at >= 1 /\ at <= Len(q)
    OBVIOUS
  <1>2. /\ Len(RemoveAt(q, at)) = Len(q) - 1
        /\ \A i \in 1..Len(q)-1 : RemoveAt(q, at)[i] = IF i < at THEN q[i] ELSE q[i + 1]
    BY SoRemoved, Zenon
  <1> DEFINE r == RemoveAt(q, at)
  <1> HIDE DEF r
  <1>3. Len(r) = Len(q) - 1 /\ \A i \in 1..Len(q)-1 : r[i] = IF i < at THEN q[i] ELSE q[i + 1]
    BY <1>2 DEF r
  <1>4. ASSUME NEW i \in 1..Len(q), i # at PROVE \E j \in 1..Len(r) : r[j] = q[i]
    <2>1. CASE i < at
      <3>1. i \in 1..Len(q)-1
        BY <1>1, <2>1
      <3> QED
        BY <1>3, <2>1, <3>1
    <2>2. CASE i > at
      <3>1. i - 1 \in 1..Len(q)-1 /\ ~(i - 1 < at) /\ (i - 1) + 1 = i
        BY <1>1, <2>2
      <3>2. r[i - 1] = q[i]
        BY <1>3, <3>1
      <3> QED
        BY <1>3, <3>1, <3>2
    <2> QED
      BY <1>1, <1>4, <2>1, <2>2
  <1>5. ASSUME NEW j \in 1..Len(r)
        PROVE  \E i \in 1..Len(q) : i # at /\ r[j] = q[i] /\ i = IF j < at THEN j ELSE j + 1
    <2>1. CASE j < at
      <3>1. j \in 1..Len(q)-1 /\ j \in 1..Len(q) /\ j # at
        BY <1>1, <1>3, <2>1
      <3> QED
        BY <1>3, <2>1, <3>1
    <2>2. CASE ~(j < at)
      <3>1. j \in 1..Len(q)-1 /\ j + 1 \in 1..Len(q) /\ j + 1 # at
        BY <1>1, <1>3, <2>2
      <3> QED
        BY <1>3, <2>2, <3>1
    <2> QED
      BY <2>1, <2>2
  <1> QED
    BY <1>4, <1>5 DEF r

\* A function on 1..n is a sequence of length n.
LEMMA SoFunctionIsSeq ==
  ASSUME NEW S, NEW m \in Nat, NEW f \in [1..m -> S]
  PROVE  f \in Seq(S) /\ Len(f) = m
  OBVIOUS

\* A sequence is a function on its places.
LEMMA SoSeqIsFunction ==
  ASSUME NEW S, NEW q \in Seq(S)
  PROVE  /\ Len(q) \in Nat /\ q \in [1..Len(q) -> S] /\ DOMAIN q = 1..Len(q)
         /\ \A i \in 1..Len(q) : q[i] \in S
  OBVIOUS

\* An element is put behind the others.
LEMMA SoAppended ==
  ASSUME NEW S, NEW q \in Seq(S), NEW x \in S, NEW r, r = Append(q, x)
  PROVE  /\ r \in Seq(S) /\ Len(r) = Len(q) + 1 /\ r[Len(q) + 1] = x
         /\ \A i \in 1..Len(q) : r[i] = q[i]
  OBVIOUS

\* One element is changed.
LEMMA SoChanged ==
  ASSUME NEW S, NEW q \in Seq(S), NEW at \in 1..Len(q), NEW x \in S,
         NEW r, r = [q EXCEPT ![at] = x]
  PROVE  /\ r \in Seq(S) /\ Len(r) = Len(q) /\ r[at] = x
         /\ \A i \in 1..Len(q) : i # at => r[i] = q[i]
  <1>1. q \in [1..Len(q) -> S] /\ Len(q) \in Nat
    BY SoSeqIsFunction, Zenon
  <1>2. r \in [1..Len(q) -> S]
    BY <1>1
  <1>3. r \in Seq(S) /\ Len(r) = Len(q)
    BY <1>1, <1>2, SoFunctionIsSeq, Zenon
  <1>4. DOMAIN q = 1..Len(q)
    BY <1>1
  <1> QED
    BY <1>3, <1>4, Zenon

\* A set of numbers that is not empty has a least one.
LEMMA SoLeast ==
  ASSUME NEW S, S \subseteq Nat, S # {}
  PROVE  Min(S) \in S
  <1>1. IsWellFoundedOn(OpToRel(<, Nat), Nat)
    BY NatLessThanWellFounded
  <1>2. PICK x \in S : \A y \in S : ~ (<<y, x>> \in OpToRel(<, Nat))
    BY <1>1, WFMin, Zenon
  <1>3. \A y \in S : ~(y < x)
    BY <1>2 DEF OpToRel
  <1>4. \A y \in S : x <= y
    BY <1>3
  <1> QED
    BY <1>4, Zenon DEF Min

\* GetObj finds an object with the id, or there is none.
LEMMA SoObjFound ==
  ASSUME NEW id, so.objs \in Seq(Nat)
  PROVE  \/ /\ SoObj(id) = 0
            /\ \A i \in 1..Len(so.objs) : so.ids[so.objs[i]] # id
         \/ /\ SoObj(id) # 0
            /\ SoObj(id) \in 1..Len(so.objs) /\ so.ids[so.objs[SoObj(id)]] = id
  <1> DEFINE I == {i \in 1..Len(so.objs) : so.ids[so.objs[i]] = id}
  <1>1. SoObj(id) = IF I # {} THEN Min(I) ELSE 0
    BY DEF SoObj, SelectInSeq
  <1>2. I \subseteq Nat
    OBVIOUS
  <1>3. CASE I = {}
    BY <1>1, <1>3
  <1>4. CASE I # {}
    <2>1. Min(I) \in I
      BY <1>2, <1>4, SoLeast
    <2>2. SoObj(id) \in I
      BY <1>1, <1>4, <2>1
    <2> QED
      BY <2>2
  <1> QED
    BY <1>3, <1>4

\* GetTask finds a task of the object with the name, or there is none.
LEMMA SoTaskFound ==
  ASSUME NEW o, NEW name, so.tasks[o] \in Seq(Nat)
  PROVE  \/ /\ SoTaskAt(o, name) = 0
            /\ \A i \in 1..Len(so.tasks[o]) : so.names[so.tasks[o][i]] # name
         \/ /\ SoTaskAt(o, name) # 0
            /\ SoTaskAt(o, name) \in 1..Len(so.tasks[o])
            /\ so.names[so.tasks[o][SoTaskAt(o, name)]] = name
  <1> DEFINE I == {i \in 1..Len(so.tasks[o]) : so.names[so.tasks[o][i]] = name}
  <1>1. SoTaskAt(o, name) = IF I # {} THEN Min(I) ELSE 0
    BY DEF SoTaskAt, SelectInSeq
  <1>2. I \subseteq Nat
    OBVIOUS
  <1>3. CASE I = {}
    BY <1>1, <1>3
  <1>4. CASE I # {}
    <2>1. Min(I) \in I
      BY <1>2, <1>4, SoLeast
    <2>2. SoTaskAt(o, name) \in I
      BY <1>1, <1>4, <2>1
    <2> QED
      BY <2>2
  <1> QED
    BY <1>3, <1>4

-----------------------------------------------------------------------------
(* What the operations do to the tables *)

SoObjAdded(s, n, id) ==
  /\ n.objs = Append(s.objs, Len(s.ids) + 1) /\ n.ids = Append(s.ids, id)
  /\ n.tasks = Append(s.tasks, <<>>) /\ n.names = s.names /\ n.state = s.state
  /\ n.dropped = s.dropped

\* Put2ObjQue of an object with a new id.
LEMMA SoNewObjKeeps ==
  ASSUME NEW s, NEW n, NEW id \in Int, SoData(s),
         \A i \in 1..Len(s.objs) : s.ids[s.objs[i]] # id, SoObjAdded(s, n, id)
  PROVE  SoData(n)
  <1> DEFINE new == Len(s.ids) + 1
  <1>1. /\ s.objs \in Seq(Nat) /\ s.ids \in Seq(Int) /\ s.tasks \in Seq(Seq(Nat))
        /\ Len(s.tasks) = Len(s.ids) /\ Len(s.ids) \in Nat /\ Len(s.objs) \in Nat
    BY DEF SoData, SoTables
  <1>2. /\ n.objs \in Seq(Nat) /\ Len(n.objs) = Len(s.objs) + 1 /\ n.objs[Len(s.objs) + 1] = new
        /\ \A i \in 1..Len(s.objs) : n.objs[i] = s.objs[i]
    <2>1. new \in Nat
      BY <1>1
    <2> HIDE DEF new
    <2>2. n.objs = Append(s.objs, new)
      BY DEF SoObjAdded, new
    <2> QED
      BY <1>1, <2>1, <2>2, SoAppended
  <1>3. /\ n.ids \in Seq(Int) /\ Len(n.ids) = new /\ n.ids[new] = id
        /\ \A o \in 1..Len(s.ids) : n.ids[o] = s.ids[o]
    <2>1. s.ids \in Seq(Int) /\ n.ids = Append(s.ids, id)
      BY <1>1 DEF SoObjAdded
    <2> QED
      BY <2>1, SoAppended
  <1>4. /\ n.tasks \in Seq(Seq(Nat)) /\ Len(n.tasks) = new /\ n.tasks[new] = <<>>
        /\ Len(n.tasks[new]) = 0
        /\ \A o \in 1..Len(s.ids) : n.tasks[o] = s.tasks[o]
    <2>1. PICK e \in Seq(Nat) : e = <<>> /\ Len(e) = 0
      <3>1. <<>> \in Seq(Nat) /\ Len(<<>>) = 0
        OBVIOUS
      <3> QED
        BY <3>1, Zenon
    <2>2. n.tasks = Append(s.tasks, e) /\ s.tasks \in Seq(Seq(Nat)) /\ Len(s.tasks) = Len(s.ids)
      BY <1>1, <2>1 DEF SoObjAdded
    <2>3. /\ n.tasks \in Seq(Seq(Nat)) /\ Len(n.tasks) = new /\ n.tasks[new] = e
          /\ \A o \in 1..Len(s.ids) : n.tasks[o] = s.tasks[o]
      BY <2>2, SoAppended
    <2> QED
      BY <2>1, <2>3
  <1>5. \A i \in 1..Len(s.objs) : s.objs[i] \in 1..Len(s.ids)
    BY DEF SoData, SoTables
  <1>6. Len(s.objs) \in Nat /\ Len(s.ids) \in Nat
    BY <1>1
  <1>7. /\ \A i \in 1..Len(s.objs) + 1 : i \in 1..Len(s.objs) \/ i = Len(s.objs) + 1
        /\ \A i \in 1..Len(s.objs) : i \in 1..Len(s.objs) + 1
    BY <1>6
  <1>8. /\ \A o \in 1..new : o \in 1..Len(s.ids) \/ o = new
        /\ \A o \in 1..Len(s.ids) : o \in 1..new
        /\ new \in 1..new
    BY <1>6
  <1> HIDE DEF new
  <1>9. n.names = s.names /\ n.state = s.state /\ n.dropped = s.dropped
    BY DEF SoObjAdded
  <1>10. SoTables(n)
    <2>1. \A i \in 1..Len(n.objs) : n.objs[i] \in 1..Len(n.ids)
      <3> SUFFICES ASSUME NEW i \in 1..Len(s.objs) + 1 PROVE n.objs[i] \in 1..new
        BY <1>2, <1>3
      <3>1. CASE i \in 1..Len(s.objs)
        BY <1>2, <1>5, <1>8, <3>1, Zenon
      <3>2. CASE i = Len(s.objs) + 1
        <4>1. n.objs[i] = new
          BY <1>2, <3>2
        <4> QED
          BY <1>8, <4>1
      <3> QED
        BY <1>7, <3>1, <3>2
    <2>2. \A o \in 1..Len(n.ids) : \A j \in 1..Len(n.tasks[o]) : n.tasks[o][j] \in 1..Len(n.names)
      <3> SUFFICES ASSUME NEW o \in 1..new, NEW j \in 1..Len(n.tasks[o])
                   PROVE  n.tasks[o][j] \in 1..Len(n.names)
        BY <1>3
      <3>1. CASE o = new
        BY <1>4, <3>1
      <3>2. CASE o \in 1..Len(s.ids)
        BY <1>4, <1>9, <3>2 DEF SoData, SoTables
      <3> QED
        BY <1>7, <1>8, <3>1, <3>2
    <2> QED
      BY <1>2, <1>3, <1>4, <1>9, <2>1, <2>2 DEF SoData, SoTables
  <1>11. SoIdsOnce(n)
    <2> SUFFICES ASSUME NEW i \in 1..Len(s.objs) + 1, NEW j \in 1..Len(s.objs) + 1,
                        n.ids[n.objs[i]] = n.ids[n.objs[j]]
                 PROVE  i = j
      BY <1>2 DEF SoIdsOnce
    <2>1. \A m \in 1..Len(s.objs) : n.ids[n.objs[m]] = s.ids[s.objs[m]]
      BY <1>2, <1>3, <1>5
    <2>2. n.ids[n.objs[Len(s.objs) + 1]] = id
      BY <1>2, <1>3
    <2>3. CASE i \in 1..Len(s.objs) /\ j \in 1..Len(s.objs)
      BY <2>1, <2>3 DEF SoData, SoIdsOnce
    <2> QED
      BY <1>7, <2>1, <2>2, <2>3
  <1>12. ASSUME NEW o \in 1..Len(n.ids), NEW j \in 1..Len(n.tasks[o])
        PROVE  o \in 1..Len(s.ids) /\ n.tasks[o] = s.tasks[o]
    BY <1>3, <1>4, <1>7, <1>8
  <1>13. SoNamesOnce(n)
    <2> SUFFICES ASSUME NEW o \in 1..Len(n.ids),
                        NEW i \in 1..Len(n.tasks[o]), NEW j \in 1..Len(n.tasks[o]),
                        n.names[n.tasks[o][i]] = n.names[n.tasks[o][j]]
                 PROVE  i = j
      BY DEF SoNamesOnce
    <2>1. o \in 1..Len(s.ids) /\ n.tasks[o] = s.tasks[o]
      BY <1>12
    <2> QED
      BY <1>9, <2>1 DEF SoData, SoNamesOnce
  <1>14. SoOnePlace(n)
    <2> SUFFICES ASSUME NEW o \in 1..Len(n.ids), NEW p \in 1..Len(n.ids),
                        NEW i \in 1..Len(n.tasks[o]), NEW j \in 1..Len(n.tasks[p]),
                        n.tasks[o][i] = n.tasks[p][j]
                 PROVE  o = p
      BY DEF SoOnePlace
    <2>1. o \in 1..Len(s.ids) /\ n.tasks[o] = s.tasks[o]
      BY <1>12
    <2>2. p \in 1..Len(s.ids) /\ n.tasks[p] = s.tasks[p]
      BY <1>12
    <2> QED
      BY <2>1, <2>2 DEF SoData, SoOnePlace
  <1>15. SoStoppedOut(n)
    <2> SUFFICES ASSUME NEW o \in 1..Len(n.ids), NEW j \in 1..Len(n.tasks[o])
                 PROVE  n.state[n.tasks[o][j]] # "stopped"
      BY DEF SoStoppedOut
    <2>1. o \in 1..Len(s.ids) /\ n.tasks[o] = s.tasks[o]
      BY <1>12
    <2> QED
      BY <1>9, <2>1 DEF SoData, SoStoppedOut
  <1>16. SoKept(n)
    <2> SUFFICES ASSUME NEW k \in 1..Len(n.names), n.state[k] = "running", k \notin n.dropped
                 PROVE  \E i \in 1..Len(n.objs) : \E j \in 1..Len(n.tasks[n.objs[i]]) :
                          n.tasks[n.objs[i]][j] = k
      BY DEF SoKept
    <2>1. PICK i \in 1..Len(s.objs) : \E j \in 1..Len(s.tasks[s.objs[i]]) : s.tasks[s.objs[i]][j] = k
      BY <1>9 DEF SoData, SoKept
    <2>2. i \in 1..Len(n.objs) /\ n.objs[i] = s.objs[i] /\ n.tasks[s.objs[i]] = s.tasks[s.objs[i]]
      BY <1>2, <1>4, <1>5, <1>7, <1>8
    <2> QED
      BY <2>1, <2>2
  <1> QED
    BY <1>10, <1>11, <1>13, <1>14, <1>15, <1>16 DEF SoData

SoTaskAdded(s, n, o, name) ==
  /\ n.objs = s.objs /\ n.ids = s.ids /\ n.dropped = s.dropped
  /\ n.tasks = [s.tasks EXCEPT ![o] = Append(s.tasks[o], Len(s.names) + 1)]
  /\ n.names = Append(s.names, name) /\ n.state = Append(s.state, "new")

\* Put2TaskQue of a task with a name that the object does not have.
LEMMA SoNewTaskKeeps ==
  ASSUME NEW s, NEW n, SoData(s), NEW o \in 1..Len(s.ids), NEW name \in SoText,
         \A j \in 1..Len(s.tasks[o]) : s.names[s.tasks[o][j]] # name,
         SoTaskAdded(s, n, o, name)
  PROVE  SoData(n)
  <1> DEFINE new == Len(s.names) + 1
             last == Len(s.tasks[o]) + 1
  <1>1. /\ s.objs \in Seq(Nat) /\ s.tasks \in Seq(Seq(Nat)) /\ s.names \in Seq(SoText)
        /\ s.state \in Seq(SoTaskState) /\ s.ids \in Seq(Int)
        /\ Len(s.tasks) = Len(s.ids) /\ Len(s.state) = Len(s.names)
        /\ \A p \in 1..Len(s.ids) : \A j \in 1..Len(s.tasks[p]) : s.tasks[p][j] \in 1..Len(s.names)
    BY DEF SoData, SoTables
  <1>2. \A p \in 1..Len(s.ids) : s.tasks[p] \in Seq(Nat)
    <2>1. s.tasks \in Seq(Seq(Nat)) /\ Len(s.tasks) = Len(s.ids)
      BY <1>1
    <2> QED
      BY <2>1, SoSeqIsFunction
  <1>3. Len(s.names) \in Nat /\ new \in Nat /\ s.tasks[o] \in Seq(Nat) /\ Len(s.tasks[o]) \in Nat
    <2>1. Len(s.names) \in Nat
      BY <1>1, SoSeqIsFunction, Zenon
    <2>2. s.tasks[o] \in Seq(Nat) /\ Len(s.tasks[o]) \in Nat
      BY <1>2, SoSeqIsFunction, Zenon
    <2> QED
      BY <2>1, <2>2
  <1>4. /\ n.names \in Seq(SoText) /\ Len(n.names) = new /\ n.names[new] = name
        /\ \A k \in 1..Len(s.names) : n.names[k] = s.names[k]
    <2>1. s.names \in Seq(SoText) /\ n.names = Append(s.names, name)
      BY <1>1 DEF SoTaskAdded
    <2> QED
      BY <2>1, SoAppended
  <1>5. /\ n.state \in Seq(SoTaskState) /\ Len(n.state) = new /\ n.state[new] = "new"
        /\ \A k \in 1..Len(s.names) : n.state[k] = s.state[k]
    <2>1. "new" \in SoTaskState /\ Len(s.state) = Len(s.names) /\ s.state \in Seq(SoTaskState)
      BY <1>1 DEF SoTaskState
    <2>2. n.state = Append(s.state, "new")
      BY DEF SoTaskAdded
    <2> QED
      BY <2>1, <2>2, SoAppended
  <1>6. Append(s.tasks[o], new) \in Seq(Nat)
    BY <1>3
  <1>7. /\ n.tasks \in Seq(Seq(Nat)) /\ Len(n.tasks) = Len(s.ids)
        /\ n.tasks[o] = Append(s.tasks[o], new)
        /\ \A p \in 1..Len(s.ids) : p # o => n.tasks[p] = s.tasks[p]
    <2>1. n.tasks = [s.tasks EXCEPT ![o] = Append(s.tasks[o], new)]
      BY DEF SoTaskAdded
    <2> DEFINE q == Append(s.tasks[o], new)
    <2>2. s.tasks \in [1..Len(s.ids) -> Seq(Nat)] /\ q \in Seq(Nat)
      BY <1>1, <1>6
    <2> HIDE DEF new, q
    <2>3. n.tasks \in [1..Len(s.ids) -> Seq(Nat)] /\ n.tasks[o] = q
          /\ \A p \in 1..Len(s.ids) : p # o => n.tasks[p] = s.tasks[p]
      BY <2>1, <2>2 DEF q
    <2>4. Len(s.ids) \in Nat
      BY <1>1
    <2>5. n.tasks \in Seq(Seq(Nat)) /\ Len(n.tasks) = Len(s.ids)
      BY <2>3, <2>4, SoFunctionIsSeq
    <2> QED
      BY <2>3, <2>5 DEF q
  <1>8. /\ Len(n.tasks[o]) = last /\ n.tasks[o][last] = new
        /\ \A j \in 1..Len(s.tasks[o]) : n.tasks[o][j] = s.tasks[o][j]
        /\ \A j \in 1..last : j \in 1..Len(s.tasks[o]) \/ j = last
        /\ \A j \in 1..Len(s.tasks[o]) : j \in 1..last
    <2>1. /\ Len(Append(s.tasks[o], new)) = last /\ Append(s.tasks[o], new)[last] = new
          /\ \A j \in 1..Len(s.tasks[o]) : Append(s.tasks[o], new)[j] = s.tasks[o][j]
      BY <1>3
    <2>2. /\ \A j \in 1..last : j \in 1..Len(s.tasks[o]) \/ j = last
          /\ \A j \in 1..Len(s.tasks[o]) : j \in 1..last
      BY <1>3
    <2>3. n.tasks[o] = Append(s.tasks[o], new)
      BY <1>7
    <2> QED
      BY <2>1, <2>2, <2>3, Zenon
  <1>9. \A k \in 1..Len(s.names) : k \in 1..new /\ k # new
    BY <1>3
  <1>10. new \in 1..new /\ last \in 1..last /\ \A k \in 1..new : k \in 1..Len(s.names) \/ k = new
    BY <1>3
  <1> HIDE DEF new, last
  <1>11. n.objs = s.objs /\ n.ids = s.ids /\ n.dropped = s.dropped
    BY DEF SoTaskAdded
  \* A place of the new tables is a place of the old ones, or the new one.
  <1>12. ASSUME NEW p \in 1..Len(n.ids), NEW j \in 1..Len(n.tasks[p])
         PROVE  \/ /\ p \in 1..Len(s.ids) /\ j \in 1..Len(s.tasks[p])
                   /\ n.tasks[p][j] = s.tasks[p][j]
                   /\ s.tasks[p][j] \in 1..Len(s.names) /\ s.tasks[p][j] # new
                \/ p = o /\ j = last /\ n.tasks[p][j] = new
    <2>1. CASE p # o
      BY <1>1, <1>7, <1>9, <1>11, <2>1
    <2>2. CASE p = o
      <3>1. CASE j = last
        BY <1>8, <2>2, <3>1
      <3>2. CASE j \in 1..Len(s.tasks[o])
        BY <1>1, <1>8, <1>9, <2>2, <3>2
      <3> QED
        BY <1>8, <2>2, <3>1, <3>2
    <2> QED
      BY <2>1, <2>2
  <1>13. SoTables(n)
    <2>1. \A p \in 1..Len(n.ids) : \A j \in 1..Len(n.tasks[p]) : n.tasks[p][j] \in 1..Len(n.names)
      BY <1>4, <1>9, <1>10, <1>12, <1>11
    <2>2. \A i \in 1..Len(n.objs) : n.objs[i] \in 1..Len(n.ids)
      BY <1>11 DEF SoData, SoTables
    <2> QED
      BY <1>1, <1>4, <1>5, <1>7, <1>11, <2>1, <2>2 DEF SoData, SoTables
  <1>14. SoIdsOnce(n)
    BY <1>11 DEF SoData, SoIdsOnce
  <1>15. SoNamesOnce(n)
    <2> SUFFICES ASSUME NEW p \in 1..Len(n.ids), NEW i \in 1..Len(n.tasks[p]),
                        NEW j \in 1..Len(n.tasks[p]),
                        n.names[n.tasks[p][i]] = n.names[n.tasks[p][j]]
                 PROVE  i = j
      BY DEF SoNamesOnce
    <2>1. CASE i = last /\ j = last
      BY <2>1
    <2>2. CASE /\ i \in 1..Len(s.tasks[p]) /\ j \in 1..Len(s.tasks[p])
               /\ n.tasks[p][i] = s.tasks[p][i] /\ n.tasks[p][j] = s.tasks[p][j]
               /\ s.tasks[p][i] \in 1..Len(s.names) /\ s.tasks[p][j] \in 1..Len(s.names)
      <3>1. s.names[s.tasks[p][i]] = s.names[s.tasks[p][j]]
        BY <1>4, <2>2
      <3> QED
        BY <1>11, <2>2, <3>1 DEF SoData, SoNamesOnce
    <2>3. CASE /\ p = o /\ n.tasks[p][i] = new
               /\ j \in 1..Len(s.tasks[p]) /\ n.tasks[p][j] = s.tasks[p][j]
               /\ s.tasks[p][j] \in 1..Len(s.names)
      BY <1>4, <2>3
    <2>4. CASE /\ p = o /\ n.tasks[p][j] = new
               /\ i \in 1..Len(s.tasks[p]) /\ n.tasks[p][i] = s.tasks[p][i]
               /\ s.tasks[p][i] \in 1..Len(s.names)
      BY <1>4, <2>4
    <2> QED
      BY <1>12, <2>1, <2>2, <2>3, <2>4
  <1>16. SoOnePlace(n)
    <2> SUFFICES ASSUME NEW p \in 1..Len(n.ids), NEW r \in 1..Len(n.ids),
                        NEW i \in 1..Len(n.tasks[p]), NEW j \in 1..Len(n.tasks[r]),
                        n.tasks[p][i] = n.tasks[r][j]
                 PROVE  p = r
      BY DEF SoOnePlace
    <2>1. CASE p = o /\ r = o
      BY <2>1
    <2>2. CASE p # o \/ r # o
      <3>1. n.tasks[p][i] = s.tasks[p][i] /\ i \in 1..Len(s.tasks[p]) /\ p \in 1..Len(s.ids)
        BY <1>12, <1>11, <2>2
      <3>2. n.tasks[r][j] = s.tasks[r][j] /\ j \in 1..Len(s.tasks[r]) /\ r \in 1..Len(s.ids)
        BY <1>12, <1>11, <2>2
      <3> QED
        BY <3>1, <3>2 DEF SoData, SoOnePlace
    <2> QED
      BY <2>1, <2>2
  <1>17. SoStoppedOut(n)
    BY <1>5, <1>12, <1>11 DEF SoData, SoStoppedOut
  <1>18. SoKept(n)
    <2> SUFFICES ASSUME NEW k \in 1..Len(n.names), n.state[k] = "running", k \notin n.dropped
                 PROVE  \E i \in 1..Len(n.objs) : \E j \in 1..Len(n.tasks[n.objs[i]]) :
                          n.tasks[n.objs[i]][j] = k
      BY DEF SoKept
    <2>1. k \in 1..Len(s.names) /\ s.state[k] = "running"
      BY <1>4, <1>5, <1>10
    <2>2. PICK i \in 1..Len(s.objs) : \E j \in 1..Len(s.tasks[s.objs[i]]) : s.tasks[s.objs[i]][j] = k
      BY <1>11, <2>1 DEF SoData, SoKept
    <2>3. s.objs[i] \in 1..Len(s.ids)
      BY DEF SoData, SoTables
    <2>4. PICK j \in 1..Len(s.tasks[s.objs[i]]) : s.tasks[s.objs[i]][j] = k
      BY <2>2
    <2>5. j \in 1..Len(n.tasks[s.objs[i]]) /\ n.tasks[s.objs[i]][j] = k
      <3>1. CASE s.objs[i] = o
        BY <1>8, <2>4, <3>1
      <3>2. CASE s.objs[i] # o
        BY <1>7, <2>3, <2>4, <3>2
      <3> QED
        BY <3>1, <3>2
    <2>6. i \in 1..Len(n.objs) /\ n.objs[i] = s.objs[i]
      BY <1>11
    <2> QED
      BY <2>5, <2>6
  <1> QED
    BY <1>13, <1>14, <1>15, <1>16, <1>17, <1>18 DEF SoData

SoTaskTakenOut(s, n, o, at) ==
  /\ n.objs = s.objs /\ n.ids = s.ids /\ n.dropped = s.dropped /\ n.names = s.names
  /\ n.tasks = [s.tasks EXCEPT ![o] = RemoveAt(s.tasks[o], at)]
  /\ n.state = [s.state EXCEPT ![s.tasks[o][at]] = "stopped"]

\* Stop() and erase of one task.
LEMMA SoStopKeeps ==
  ASSUME NEW s, NEW n, SoData(s), NEW o \in 1..Len(s.ids), NEW at \in 1..Len(s.tasks[o]),
         SoTaskTakenOut(s, n, o, at)
  PROVE  SoData(n)
  <1> DEFINE k == s.tasks[o][at]
             q == RemoveAt(s.tasks[o], at)
  <1>1. /\ s.objs \in Seq(Nat) /\ s.tasks \in Seq(Seq(Nat)) /\ s.state \in Seq(SoTaskState)
        /\ s.ids \in Seq(Int) /\ s.names \in Seq(SoText)
        /\ Len(s.tasks) = Len(s.ids) /\ Len(s.state) = Len(s.names)
        /\ Len(s.ids) \in Nat /\ Len(s.names) \in Nat
    <2>1. /\ s.objs \in Seq(Nat) /\ s.tasks \in Seq(Seq(Nat)) /\ s.state \in Seq(SoTaskState)
          /\ s.ids \in Seq(Int) /\ s.names \in Seq(SoText)
          /\ Len(s.tasks) = Len(s.ids) /\ Len(s.state) = Len(s.names)
      BY DEF SoData, SoTables
    <2> QED
      BY <2>1, SoSeqIsFunction, Zenon
  <1>2. s.tasks[o] \in Seq(Nat) /\ s.tasks \in [1..Len(s.ids) -> Seq(Nat)]
    BY <1>1, SoSeqIsFunction, Zenon
  <1>3. k \in 1..Len(s.names)
    BY DEF SoData, SoTables
  <1>4. q \in Seq(Nat)
    BY <1>2, SoRemoved, Zenon
  <1>5. /\ \A i \in 1..Len(s.tasks[o]) : i # at => \E j \in 1..Len(q) : q[j] = s.tasks[o][i]
        /\ \A j \in 1..Len(q) :
             \E i \in 1..Len(s.tasks[o]) : /\ i # at /\ q[j] = s.tasks[o][i]
                                           /\ i = IF j < at THEN j ELSE j + 1
    BY <1>2, SoRemovedPlaces, Zenon
  <1>6. n.objs = s.objs /\ n.ids = s.ids /\ n.dropped = s.dropped /\ n.names = s.names
    BY DEF SoTaskTakenOut
  <1>7. n.tasks = [s.tasks EXCEPT ![o] = q] /\ n.state = [s.state EXCEPT ![k] = "stopped"]
    BY DEF SoTaskTakenOut
  <1> HIDE DEF k, q
  <1>8. /\ n.tasks \in Seq(Seq(Nat)) /\ Len(n.tasks) = Len(s.ids) /\ n.tasks[o] = q
        /\ \A p \in 1..Len(s.ids) : p # o => n.tasks[p] = s.tasks[p]
    <2>1. s.tasks \in Seq(Seq(Nat)) /\ Len(s.tasks) = Len(s.ids)
      BY <1>1
    <2> QED
      BY <1>4, <1>7, <2>1, SoChanged
  <1>9. /\ n.state \in Seq(SoTaskState) /\ Len(n.state) = Len(s.names) /\ n.state[k] = "stopped"
        /\ \A m \in 1..Len(s.names) : m # k => n.state[m] = s.state[m]
    <2>1. "stopped" \in SoTaskState /\ s.state \in Seq(SoTaskState) /\ Len(s.state) = Len(s.names)
      BY <1>1 DEF SoTaskState
    <2> QED
      BY <1>3, <1>7, <2>1, SoChanged
  \* A place of the new tables is one of the old ones, and k has none any more.
  <1>10. ASSUME NEW p \in 1..Len(n.ids), NEW j \in 1..Len(n.tasks[p])
         PROVE  \E i \in 1..Len(s.tasks[p]) :
                  /\ n.tasks[p][j] = s.tasks[p][i] /\ s.tasks[p][i] # k
                  /\ s.tasks[p][i] \in 1..Len(s.names)
                  /\ i = IF p = o /\ ~(j < at) THEN j + 1 ELSE j
    <2>1. p \in 1..Len(s.ids)
      BY <1>6
    <2>2. \A i \in 1..Len(s.tasks[p]) : s.tasks[p][i] \in 1..Len(s.names)
      BY <2>1 DEF SoData, SoTables
    <2>3. CASE p = o
      <3>1. PICK i \in 1..Len(s.tasks[o]) :
              i # at /\ q[j] = s.tasks[o][i] /\ i = IF j < at THEN j ELSE j + 1
        BY <1>5, <1>8, <2>3
      <3>2. s.tasks[o][i] # s.tasks[o][at]
        BY <3>1 DEF SoData, SoNamesOnce
      <3> QED
        BY <1>8, <2>2, <2>3, <3>1, <3>2 DEF k
    <2>4. CASE p # o
      <3>1. n.tasks[p] = s.tasks[p]
        BY <1>8, <2>1, <2>4
      <3>2. s.tasks[p][j] # k
        BY <2>1, <2>4, <3>1 DEF SoData, SoOnePlace, k
      <3> QED
        BY <2>2, <2>4, <3>1, <3>2
    <2> QED
      BY <2>3, <2>4
  <1>11. SoTables(n)
    <2>1. \A i \in 1..Len(n.objs) : n.objs[i] \in 1..Len(n.ids)
      BY <1>6 DEF SoData, SoTables
    <2>2. \A p \in 1..Len(n.ids) : \A j \in 1..Len(n.tasks[p]) : n.tasks[p][j] \in 1..Len(n.names)
      BY <1>6, <1>10
    <2>3. n.dropped \subseteq Nat
      BY <1>6 DEF SoData, SoTables
    <2> QED
      BY <1>1, <1>6, <1>8, <1>9, <2>1, <2>2, <2>3 DEF SoTables
  <1>12. SoIdsOnce(n)
    BY <1>6 DEF SoData, SoIdsOnce
  <1>13. SoNamesOnce(n)
    <2> SUFFICES ASSUME NEW p \in 1..Len(n.ids), NEW i \in 1..Len(n.tasks[p]),
                        NEW j \in 1..Len(n.tasks[p]),
                        n.names[n.tasks[p][i]] = n.names[n.tasks[p][j]]
                 PROVE  i = j
      BY DEF SoNamesOnce
    <2>1. PICK x \in 1..Len(s.tasks[p]) :
            n.tasks[p][i] = s.tasks[p][x] /\ x = IF p = o /\ ~(i < at) THEN i + 1 ELSE i
      BY <1>10
    <2>2. PICK y \in 1..Len(s.tasks[p]) :
            n.tasks[p][j] = s.tasks[p][y] /\ y = IF p = o /\ ~(j < at) THEN j + 1 ELSE j
      BY <1>10
    <2>3. p \in 1..Len(s.ids) /\ s.names[s.tasks[p][x]] = s.names[s.tasks[p][y]]
      BY <1>6, <2>1, <2>2
    <2>7. x = y
      BY <2>3 DEF SoData, SoNamesOnce
    <2>4. i \in Int /\ j \in Int /\ at \in Int
      OBVIOUS
    <2>5. CASE p = o
      BY <2>1, <2>2, <2>4, <2>5, <2>7
    <2>6. CASE p # o
      BY <2>1, <2>2, <2>6, <2>7
    <2> QED
      BY <2>5, <2>6
  <1>14. SoOnePlace(n)
    <2> SUFFICES ASSUME NEW p \in 1..Len(n.ids), NEW r \in 1..Len(n.ids),
                        NEW i \in 1..Len(n.tasks[p]), NEW j \in 1..Len(n.tasks[r]),
                        n.tasks[p][i] = n.tasks[r][j]
                 PROVE  p = r
      BY DEF SoOnePlace
    <2>1. PICK x \in 1..Len(s.tasks[p]) : n.tasks[p][i] = s.tasks[p][x]
      BY <1>10
    <2>2. PICK y \in 1..Len(s.tasks[r]) : n.tasks[r][j] = s.tasks[r][y]
      BY <1>10
    <2>3. s.tasks[p][x] = s.tasks[r][y] /\ p \in 1..Len(s.ids) /\ r \in 1..Len(s.ids)
      BY <1>6, <2>1, <2>2
    <2> QED
      BY <2>3 DEF SoData, SoOnePlace
  <1>15. SoStoppedOut(n)
    <2> SUFFICES ASSUME NEW p \in 1..Len(n.ids), NEW j \in 1..Len(n.tasks[p])
                 PROVE  n.state[n.tasks[p][j]] # "stopped"
      BY DEF SoStoppedOut
    <2>1. PICK i \in 1..Len(s.tasks[p]) :
            /\ n.tasks[p][j] = s.tasks[p][i] /\ s.tasks[p][i] # k
            /\ s.tasks[p][i] \in 1..Len(s.names)
      BY <1>10
    <2>2. s.state[s.tasks[p][i]] # "stopped"
      BY <1>6 DEF SoData, SoStoppedOut
    <2> QED
      BY <1>9, <2>1, <2>2
  <1>16. SoKept(n)
    <2> SUFFICES ASSUME NEW m \in 1..Len(n.names), n.state[m] = "running", m \notin n.dropped
                 PROVE  \E i \in 1..Len(n.objs) : \E j \in 1..Len(n.tasks[n.objs[i]]) :
                          n.tasks[n.objs[i]][j] = m
      BY DEF SoKept
    <2>1. m \in 1..Len(s.names) /\ m # k /\ s.state[m] = "running" /\ m \notin s.dropped
      BY <1>6, <1>9
    <2>2. PICK i \in 1..Len(s.objs) : \E j \in 1..Len(s.tasks[s.objs[i]]) : s.tasks[s.objs[i]][j] = m
      BY <2>1 DEF SoData, SoKept
    <2>3. PICK j \in 1..Len(s.tasks[s.objs[i]]) : s.tasks[s.objs[i]][j] = m
      BY <2>2
    <2>4. s.objs[i] \in 1..Len(s.ids)
      BY DEF SoData, SoTables
    <2>5. \E l \in 1..Len(n.tasks[s.objs[i]]) : n.tasks[s.objs[i]][l] = m
      <3>1. CASE s.objs[i] = o
        <4>1. j # at
          BY <2>1, <2>3, <3>1 DEF k
        <4> QED
          BY <1>5, <1>8, <2>3, <3>1, <4>1
      <3>2. CASE s.objs[i] # o
        BY <1>8, <2>3, <2>4, <3>2
      <3> QED
        BY <3>1, <3>2
    <2>6. i \in 1..Len(n.objs) /\ n.objs[i] = s.objs[i]
      BY <1>6
    <2> QED
      BY <2>5, <2>6
  <1> QED
    BY <1>11, <1>12, <1>13, <1>14, <1>15, <1>16 DEF SoData

SoObjTakenOut(s, n, at) ==
  /\ n.objs = RemoveAt(s.objs, at)
  /\ n.dropped = s.dropped \cup {s.tasks[s.objs[at]][m] : m \in 1..Len(s.tasks[s.objs[at]])}
  /\ n.ids = s.ids /\ n.names = s.names /\ n.tasks = s.tasks /\ n.state = s.state

\* erase of an object: its tasks are dropped with it.
LEMMA SoUnlistKeeps ==
  ASSUME NEW s, NEW n, SoData(s), NEW at \in 1..Len(s.objs), SoObjTakenOut(s, n, at)
  PROVE  SoData(n)
  <1> DEFINE o == s.objs[at]
             q == RemoveAt(s.objs, at)
             gone == {s.tasks[o][m] : m \in 1..Len(s.tasks[o])}
  <1>1. s.objs \in Seq(Nat) /\ o \in 1..Len(s.ids)
    BY DEF SoData, SoTables
  <1>2. q \in Seq(Nat)
    BY <1>1, SoRemoved, Zenon
  <1>3. /\ \A i \in 1..Len(s.objs) : i # at => \E j \in 1..Len(q) : q[j] = s.objs[i]
        /\ \A j \in 1..Len(q) :
             \E i \in 1..Len(s.objs) : /\ i # at /\ q[j] = s.objs[i]
                                       /\ i = IF j < at THEN j ELSE j + 1
    BY <1>1, SoRemovedPlaces, Zenon
  <1>4. /\ n.objs = q /\ n.dropped = s.dropped \cup gone
        /\ n.ids = s.ids /\ n.names = s.names /\ n.tasks = s.tasks /\ n.state = s.state
    BY DEF SoObjTakenOut
  <1>5. gone \subseteq Nat
    <2>1. \A m \in 1..Len(s.tasks[o]) : s.tasks[o][m] \in 1..Len(s.names)
      BY <1>1 DEF SoData, SoTables
    <2> QED
      BY <2>1
  <1>6. \A j \in 1..Len(s.tasks[o]) : s.tasks[o][j] \in gone
    OBVIOUS
  <1> HIDE DEF o, q, gone
  <1>7. SoTables(n)
    <2>1. \A j \in 1..Len(n.objs) : n.objs[j] \in 1..Len(n.ids)
      <3> SUFFICES ASSUME NEW j \in 1..Len(q) PROVE q[j] \in 1..Len(s.ids)
        BY <1>4
      <3>1. PICK i \in 1..Len(s.objs) : q[j] = s.objs[i]
        BY <1>3
      <3> QED
        BY <3>1 DEF SoData, SoTables
    <2> QED
      BY <1>2, <1>4, <1>5, <2>1 DEF SoData, SoTables
  <1>8. SoIdsOnce(n)
    <2> SUFFICES ASSUME NEW i \in 1..Len(q), NEW j \in 1..Len(q), s.ids[q[i]] = s.ids[q[j]]
                 PROVE  i = j
      BY <1>4 DEF SoIdsOnce
    <2>1. PICK x \in 1..Len(s.objs) : q[i] = s.objs[x] /\ x = IF i < at THEN i ELSE i + 1
      BY <1>3
    <2>2. PICK y \in 1..Len(s.objs) : q[j] = s.objs[y] /\ y = IF j < at THEN j ELSE j + 1
      BY <1>3
    <2>3. x = y
      BY <2>1, <2>2 DEF SoData, SoIdsOnce
    <2>4. i \in Int /\ j \in Int /\ at \in Int
      OBVIOUS
    <2> QED
      BY <2>1, <2>2, <2>3, <2>4
  <1>9. SoNamesOnce(n) /\ SoOnePlace(n) /\ SoStoppedOut(n)
    BY <1>4 DEF SoData, SoNamesOnce, SoOnePlace, SoStoppedOut
  <1>10. SoKept(n)
    <2> SUFFICES ASSUME NEW m \in 1..Len(s.names), s.state[m] = "running", m \notin n.dropped
                 PROVE  \E i \in 1..Len(q) : \E j \in 1..Len(s.tasks[q[i]]) : s.tasks[q[i]][j] = m
      BY <1>4 DEF SoKept
    <2>1. m \notin s.dropped /\ m \notin gone
      BY <1>4
    <2>2. PICK i \in 1..Len(s.objs) : \E j \in 1..Len(s.tasks[s.objs[i]]) : s.tasks[s.objs[i]][j] = m
      BY <2>1 DEF SoData, SoKept
    <2>3. i # at
      BY <1>6, <2>1, <2>2 DEF o
    <2>4. PICK l \in 1..Len(q) : q[l] = s.objs[i]
      BY <1>3, <2>3
    <2> QED
      BY <2>2, <2>4
  <1> QED
    BY <1>7, <1>8, <1>9, <1>10 DEF SoData

\* A task dies, or is started; only a listed one is started.
LEMMA SoStateKeeps ==
  ASSUME NEW s, NEW n, SoData(s), NEW k \in 1..Len(s.names), NEW x \in {"running", "silent"},
         n.state = [s.state EXCEPT ![k] = x],
         n.objs = s.objs, n.ids = s.ids, n.tasks = s.tasks, n.names = s.names,
         n.dropped = s.dropped,
         x = "running" => \E i \in 1..Len(s.objs) : \E j \in 1..Len(s.tasks[s.objs[i]]) :
                            s.tasks[s.objs[i]][j] = k
  PROVE  SoData(n)
  <1>1. s.state \in Seq(SoTaskState) /\ x \in SoTaskState /\ Len(s.state) = Len(s.names)
    <2>1. s.state \in Seq(SoTaskState) /\ s.names \in Seq(SoText) /\ Len(s.state) = Len(s.names)
      BY DEF SoData, SoTables
    <2>2. x \in SoTaskState
      BY DEF SoTaskState
    <2> QED
      BY <2>1, <2>2
  <1>2. /\ n.state \in Seq(SoTaskState) /\ Len(n.state) = Len(s.names) /\ n.state[k] = x
        /\ \A m \in 1..Len(s.names) : m # k => n.state[m] = s.state[m]
    BY <1>1, SoChanged
  <1>3. SoTables(n)
    BY <1>2 DEF SoData, SoTables
  <1>4. SoIdsOnce(n) /\ SoNamesOnce(n) /\ SoOnePlace(n)
    BY DEF SoData, SoIdsOnce, SoNamesOnce, SoOnePlace
  <1>5. SoStoppedOut(n)
    <2> SUFFICES ASSUME NEW p \in 1..Len(s.ids), NEW j \in 1..Len(s.tasks[p])
                 PROVE  n.state[s.tasks[p][j]] # "stopped"
      BY DEF SoStoppedOut
    <2>1. s.tasks[p][j] \in 1..Len(s.names) /\ s.state[s.tasks[p][j]] # "stopped"
      BY DEF SoData, SoTables, SoStoppedOut
    <2> QED
      BY <1>2, <2>1
  <1>6. SoKept(n)
    <2> SUFFICES ASSUME NEW m \in 1..Len(s.names), n.state[m] = "running", m \notin s.dropped
                 PROVE  \E i \in 1..Len(s.objs) : \E j \in 1..Len(s.tasks[s.objs[i]]) :
                          s.tasks[s.objs[i]][j] = m
      BY DEF SoKept
    <2>1. CASE m = k
      BY <1>2, <2>1
    <2>2. CASE m # k
      BY <1>2, <2>2 DEF SoData, SoKept
    <2> QED
      BY <2>1, <2>2
  <1> QED
    BY <1>3, <1>4, <1>5, <1>6 DEF SoData

-----------------------------------------------------------------------------
(* The record: the tables in it that an assignment changes, and the others *)

SoSameTables(s, n) ==
  /\ n.objs = s.objs /\ n.ids = s.ids /\ n.tasks = s.tasks /\ n.names = s.names
  /\ n.state = s.state /\ n.dropped = s.dropped

\* Flags and counters.
LEMMA SoFlags ==
  ASSUME NEW m \in SoRecord, NEW x \in BOOLEAN, NEW k \in Nat
  PROVE  /\ [m EXCEPT !.asked = k, !.output = x] \in SoRecord
         /\ SoSameTables(m, [m EXCEPT !.asked = k, !.output = x])
         /\ [m EXCEPT !.alg = TRUE] \in SoRecord
         /\ SoSameTables(m, [m EXCEPT !.alg = TRUE])
  <1>1. /\ [m EXCEPT !.asked = k, !.output = x] \in SoRecord
        /\ SoSameTables(m, [m EXCEPT !.asked = k, !.output = x])
    BY ZenonT(30) DEF SoRecord, SoSameTables
  <1>2. /\ [m EXCEPT !.alg = TRUE] \in SoRecord
        /\ SoSameTables(m, [m EXCEPT !.alg = TRUE])
    BY ZenonT(30) DEF SoRecord, SoSameTables
  <1> QED
    BY <1>1, <1>2

\* An object is put.
LEMMA SoObjIsAdded ==
  ASSUME NEW id \in Int, so \in SoRecord
  PROVE  SoNewObj(id) \in SoRecord /\ SoObjAdded(so, SoNewObj(id), id)
  <1>1. PICK a \in Seq(Nat), b \in Seq(Int), c \in Seq(Seq(Nat)) :
          a = Append(so.objs, Len(so.ids) + 1) /\ b = Append(so.ids, id)
            /\ c = Append(so.tasks, <<>>)
    <2>1. so.objs \in Seq(Nat) /\ so.ids \in Seq(Int) /\ so.tasks \in Seq(Seq(Nat))
      BY DEF SoRecord
    <2>2. Append(so.objs, Len(so.ids) + 1) \in Seq(Nat) /\ Append(so.ids, id) \in Seq(Int)
      BY <2>1
    <2>3. Append(so.tasks, <<>>) \in Seq(Seq(Nat))
      BY <2>1
    <2> QED
      BY <2>2, <2>3
  <1>2. SoNewObj(id) = [so EXCEPT !.objs = a, !.ids = b, !.tasks = c]
    BY <1>1 DEF SoNewObj
  <1>3. [so EXCEPT !.objs = a, !.ids = b, !.tasks = c] \in SoRecord
    BY ZenonT(30) DEF SoRecord
  <1>4. LET n == [so EXCEPT !.objs = a, !.ids = b, !.tasks = c]
        IN /\ n.objs = a /\ n.ids = b /\ n.tasks = c /\ n.names = so.names
           /\ n.state = so.state /\ n.dropped = so.dropped
    BY ZenonT(30) DEF SoRecord
  <1> QED
    BY <1>1, <1>2, <1>3, <1>4 DEF SoObjAdded

\* A task is put.
LEMMA SoTaskIsAdded ==
  ASSUME so \in SoRecord, SoTables(so), NEW o \in 1..Len(so.ids), NEW name \in SoText
  PROVE  SoNewTask(o, name) \in SoRecord /\ SoTaskAdded(so, SoNewTask(o, name), o, name)
  <1>1. /\ so.tasks \in Seq(Seq(Nat)) /\ so.names \in Seq(SoText) /\ so.state \in Seq(SoTaskState)
        /\ Len(so.tasks) = Len(so.ids) /\ Len(so.ids) \in Nat /\ Len(so.names) \in Nat
    BY DEF SoTables
  <1> DEFINE l == Append(so.tasks[o], Len(so.names) + 1)
  <1>2. l \in Seq(Nat) /\ so.tasks \in [1..Len(so.ids) -> Seq(Nat)]
    BY <1>1
  <1> HIDE DEF l
  <1>3. [so.tasks EXCEPT ![o] = l] \in Seq(Seq(Nat))
    BY <1>1, <1>2, SoFunctionIsSeq
  <1>4. Append(so.names, name) \in Seq(SoText) /\ Append(so.state, "new") \in Seq(SoTaskState)
    <2>1. "new" \in SoTaskState
      BY DEF SoTaskState
    <2> QED
      BY <1>1, <2>1
  <1>5. PICK a \in Seq(Seq(Nat)), b \in Seq(SoText), c \in Seq(SoTaskState) :
          a = [so.tasks EXCEPT ![o] = l] /\ b = Append(so.names, name)
            /\ c = Append(so.state, "new")
    BY <1>3, <1>4
  <1>6. SoNewTask(o, name) = [so EXCEPT !.tasks = a, !.names = b, !.state = c]
    BY <1>5, Zenon DEF SoNewTask, l
  <1>7. [so EXCEPT !.tasks = a, !.names = b, !.state = c] \in SoRecord
    BY ZenonT(30) DEF SoRecord
  <1>8. LET n == [so EXCEPT !.tasks = a, !.names = b, !.state = c]
        IN /\ n.objs = so.objs /\ n.ids = so.ids /\ n.tasks = a /\ n.names = b
           /\ n.state = c /\ n.dropped = so.dropped
    BY ZenonT(30) DEF SoRecord
  <1> QED
    BY <1>5, <1>6, <1>7, <1>8 DEF SoTaskAdded, l

\* A task is stopped and erased.
LEMMA SoTaskIsTakenOut ==
  ASSUME so \in SoRecord, SoTables(so), NEW o \in 1..Len(so.ids), NEW at \in 1..Len(so.tasks[o])
  PROVE  /\ SoTaskStopped(so, o, at) \in SoRecord
         /\ SoTaskTakenOut(so, SoTaskStopped(so, o, at), o, at)
  <1>1. /\ so.tasks \in Seq(Seq(Nat)) /\ so.state \in Seq(SoTaskState) /\ so.names \in Seq(SoText)
        /\ Len(so.tasks) = Len(so.ids) /\ Len(so.state) = Len(so.names) /\ so.ids \in Seq(Int)
    BY DEF SoTables
  <1> DEFINE k == so.tasks[o][at]
             l == RemoveAt(so.tasks[o], at)
  <1>2. /\ so.tasks[o] \in Seq(Nat) /\ so.tasks \in [1..Len(so.ids) -> Seq(Nat)]
        /\ Len(so.ids) \in Nat /\ Len(so.names) \in Nat
    <2>1. so.tasks \in [1..Len(so.ids) -> Seq(Nat)]
      BY <1>1, SoSeqIsFunction, Zenon
    <2>2. Len(so.ids) \in Nat /\ Len(so.names) \in Nat
      BY <1>1, SoSeqIsFunction, Zenon
    <2>3. so.tasks[o] \in Seq(Nat)
      BY <2>1
    <2> QED
      BY <2>1, <2>2, <2>3
  <1>3. l \in Seq(Nat)
    BY <1>2, SoRemoved, Zenon
  <1> HIDE DEF k, l
  <1>4. [so.tasks EXCEPT ![o] = l] \in Seq(Seq(Nat))
    BY <1>2, <1>3, SoFunctionIsSeq
  <1>5. [so.state EXCEPT ![k] = "stopped"] \in Seq(SoTaskState)
    <2>1. "stopped" \in SoTaskState
      BY DEF SoTaskState
    <2>2. so.tasks[o][at] \in 1..Len(so.names)
      BY DEF SoTables
    <2> QED
      BY <1>1, <2>1, <2>2, SoChanged DEF k
  <1>6. PICK a \in Seq(Seq(Nat)), c \in Seq(SoTaskState) :
          a = [so.tasks EXCEPT ![o] = l] /\ c = [so.state EXCEPT ![k] = "stopped"]
    BY <1>4, <1>5
  <1>7. SoTaskStopped(so, o, at) = [so EXCEPT !.state = c, !.tasks = a]
    BY <1>6, Zenon DEF SoTaskStopped, k, l
  <1>8. [so EXCEPT !.state = c, !.tasks = a] \in SoRecord
    BY ZenonT(30) DEF SoRecord
  <1>9. LET n == [so EXCEPT !.state = c, !.tasks = a]
        IN /\ n.objs = so.objs /\ n.ids = so.ids /\ n.tasks = a /\ n.names = so.names
           /\ n.state = c /\ n.dropped = so.dropped
    BY ZenonT(30) DEF SoRecord
  <1> QED
    BY <1>6, <1>7, <1>8, <1>9 DEF SoTaskTakenOut, k, l

\* The same tables are as good.
LEMMA SoSameKeeps ==
  ASSUME NEW s, NEW n, SoData(s), SoSameTables(s, n)
  PROVE  SoData(n)
  BY DEF SoSameTables, SoData, SoTables, SoIdsOnce, SoNamesOnce, SoOnePlace, SoStoppedOut, SoKept

-----------------------------------------------------------------------------
(* The steps of the REST thread *)

\* Nothing in the tables changes, and one thread goes on.
LEMMA SoRestGoes ==
  ASSUME SoInvariant, so' \in SoRecord, SoSameTables(so, so'), UNCHANGED <<soMgr, soHttp>>,
         SoRestOK'
  PROVE  SoInvariant'
  <1>1. SoData(so')
    BY SoSameKeeps DEF SoInvariant
  <1>2. SoMgrOK'
    BY DEF SoInvariant, SoMgrOK, SoSameTables
  <1>3. SoHttpOK'
    BY DEF SoInvariant, SoHttpOK, SoSameTables
  <1> QED
    BY <1>1, <1>2, <1>3 DEF SoInvariant

\* The REST thread is through with a request.
LEMMA SoIdleOK == SoIdle \in SoRestRecord /\ SoIdle.at = "idle"
  <1>1. SoIdle = [at |-> "idle", kind |-> "", id |-> 0, name |-> "", obj |-> 0] /\ 0 \in Nat
    BY DEF SoIdle
  <1>2. "" \in SoText
    BY DEF SoText
  <1>3. "idle" \in {"idle", "get", "put", "start", "stop", "putTask"}
    OBVIOUS
  <1>4. "" \in {"", "add", "del", "start", "stop"}
    OBVIOUS
  <1>5. SoIdle.at = "idle"
    BY <1>1
  <1> QED
    BY <1>1, <1>2, <1>3, <1>4, <1>5, ZenonT(30) DEF SoRestRecord

\* A request arrives.
LEMMA SoRequestStep ==
  ASSUME SoInvariant, NEW kind \in {"add", "del", "start", "stop", "output"}, NEW id,
         NEW name \in SoText, kind # "output" => id \in SoId, SoRequest(kind, id, name)
  PROVE  SoInvariant'
  <1>1. PICK x \in BOOLEAN, k \in Nat : so' = [so EXCEPT !.asked = k, !.output = x]
    <2>1. so.asked \in Nat /\ so.output \in BOOLEAN
      BY DEF SoInvariant, SoRecord
    <2>2. so.asked + 1 \in Nat /\ (so.output \/ kind = "output") \in BOOLEAN
      BY <2>1
    <2>3. so' = [so EXCEPT !.asked = so.asked + 1, !.output = so.output \/ kind = "output"]
      BY DEF SoRequest
    <2> QED
      BY <2>2, <2>3, Zenon
  <1>2. so' \in SoRecord /\ SoSameTables(so, so')
    BY <1>1, SoFlags, Zenon DEF SoInvariant
  <1>3. SoRestOK'
    <2>1. CASE kind = "output"
      BY <2>1, SoIdleOK DEF SoRequest, SoRestOK
    <2>2. CASE kind # "output"
      <3>1. soRest' = [at |-> "get", kind |-> kind, id |-> id, name |-> name, obj |-> 0]
        BY <2>2 DEF SoRequest
      <3>2. soRest' \in SoRestRecord
        BY <2>2, <3>1, SoAssumption DEF SoRestRecord
      <3> QED
        BY <2>2, <3>1, <3>2 DEF SoRestOK
    <2> QED
      BY <2>1, <2>2
  <1> QED
    BY <1>2, <1>3, SoRestGoes DEF SoRequest

\* GetObj, with a request that ends there, is about to put the object, or goes on
\* with the object that was found; and GetTask.
LEMMA SoTestSteps ==
  ASSUME SoInvariant, SoGetObj \/ SoGetTask
  PROVE  SoInvariant'
  <1>1. so' = so /\ UNCHANGED <<soMgr, soHttp>>
    BY DEF SoGetObj, SoGetTask
  <1>2. so' \in SoRecord /\ SoSameTables(so, so')
    BY <1>1 DEF SoInvariant, SoSameTables
  <1>3. SoTables(so) /\ SoRestOK
    BY DEF SoInvariant, SoData
  <1>4. CASE soRest' = SoIdle
    <2>1. SoRestOK'
      BY <1>4, SoIdleOK DEF SoRestOK
    <2> QED
      BY <1>1, <1>2, <2>1, SoRestGoes
  <1>5. CASE SoGetObj /\ soRest' # SoIdle
    <2> DEFINE at == SoObj(soRest.id)
    <2>1. soRest.at = "get"
      BY <1>5 DEF SoGetObj
    <2>2. \/ at = 0 /\ soRest' = [soRest EXCEPT !.at = "put"]
          \/ /\ at # 0 /\ soRest.kind \in {"start", "stop"}
             /\ soRest' = [soRest EXCEPT !.at = soRest.kind, !.obj = so.objs[at]]
      BY <1>5 DEF SoGetObj
    <2>3. \/ at = 0 /\ \A i \in 1..Len(so.objs) : so.ids[so.objs[i]] # soRest.id
          \/ at # 0 /\ at \in 1..Len(so.objs) /\ so.ids[so.objs[at]] = soRest.id
      BY <1>3, SoObjFound DEF SoTables
    <2> HIDE DEF at
    <2>4. CASE at = 0 /\ soRest' = [soRest EXCEPT !.at = "put"]
      <3>1. soRest' \in SoRestRecord /\ soRest'.at = "put" /\ soRest'.id = soRest.id
        BY <1>3, <2>4, ZenonT(30) DEF SoRestOK, SoRestRecord
      <3>2. SoRestOK'
        BY <1>1, <1>3, <2>1, <2>3, <2>4, <3>1 DEF SoRestOK
      <3> QED
        BY <1>1, <1>2, <3>2, SoRestGoes
    <2>5. CASE /\ at # 0 /\ soRest.kind \in {"start", "stop"}
               /\ soRest' = [soRest EXCEPT !.at = soRest.kind, !.obj = so.objs[at]]
      <3>1. so.objs[at] \in 1..Len(so.ids) /\ so.ids[so.objs[at]] = soRest.id
        BY <1>3, <2>3, <2>5 DEF SoTables
      <3>2. PICK x \in {"start", "stop"}, y \in 1..Len(so.ids) :
              soRest' = [soRest EXCEPT !.at = x, !.obj = y] /\ y = so.objs[at]
        BY <2>5, <3>1
      <3>3. y \in Nat
        BY <3>2
      <3>4. /\ soRest' \in SoRestRecord /\ soRest'.at = x /\ soRest'.id = soRest.id
            /\ soRest'.obj = y
        BY <1>3, <3>2, <3>3, ZenonT(30) DEF SoRestOK, SoRestRecord
      <3>5. soRest.id \in SoId
        BY <1>3, <2>1 DEF SoRestOK
      <3>6. SoRestOK'
        BY <1>1, <3>1, <3>2, <3>4, <3>5 DEF SoRestOK
      <3> QED
        BY <1>1, <1>2, <3>6, SoRestGoes
    <2> QED
      BY <2>2, <2>4, <2>5
  <1>6. CASE SoGetTask /\ soRest' # SoIdle
    <2> DEFINE o == soRest.obj
    <2>1. /\ soRest.at = "start" /\ SoTaskAt(o, soRest.name) = 0
          /\ soRest' = [soRest EXCEPT !.at = "putTask"]
      BY <1>6 DEF SoGetTask
    <2>2. o \in 1..Len(so.ids) /\ so.ids[o] \in SoId /\ soRest.id \in SoId
      BY <1>3, <2>1 DEF SoRestOK
    <2>3. so.tasks[o] \in Seq(Nat)
      BY <1>3, <2>2 DEF SoTables
    <2>4. \A j \in 1..Len(so.tasks[o]) : so.names[so.tasks[o][j]] # soRest.name
      BY <2>1, <2>3, SoTaskFound
    <2>5. /\ soRest' \in SoRestRecord /\ soRest'.at = "putTask" /\ soRest'.id = soRest.id
          /\ soRest'.obj = o /\ soRest'.name = soRest.name
      BY <1>3, <2>1, ZenonT(30) DEF SoRestOK, SoRestRecord
    <2>6. SoRestOK'
      BY <1>1, <2>2, <2>4, <2>5 DEF SoRestOK
    <2> QED
      BY <1>1, <1>2, <2>6, SoRestGoes
  <1> QED
    BY <1>4, <1>5, <1>6

\* The REST thread is idle again, after a step on the tables.
LEMMA SoRestDone ==
  ASSUME soRest' = SoIdle
  PROVE  SoRestOK'
  BY SoIdleOK DEF SoRestOK

\* What an added object changes for the threads.
LEMMA SoObjAddedPlaces ==
  ASSUME SoTables(so), NEW id \in Int, SoObjAdded(so, so', id)
  PROVE  /\ Len(so'.ids) = Len(so.ids) + 1 /\ Len(so.ids) \in Nat
         /\ so'.ids[Len(so.ids) + 1] = id /\ so'.tasks[Len(so.ids) + 1] = <<>>
         /\ so'.names = so.names
         /\ \A o \in 1..Len(so.ids) :
              /\ o \in 1..Len(so'.ids) /\ so'.ids[o] = so.ids[o] /\ so'.tasks[o] = so.tasks[o]
         /\ \A o \in 1..Len(so'.ids) : o \in 1..Len(so.ids) \/ o = Len(so.ids) + 1
         /\ \A i \in 1..Len(so'.objs) :
              \/ i \in 1..Len(so.objs) /\ so'.objs[i] = so.objs[i]
              \/ so'.objs[i] = Len(so.ids) + 1
  <1>1. /\ so.objs \in Seq(Nat) /\ so.ids \in Seq(Int) /\ so.tasks \in Seq(Seq(Nat))
        /\ Len(so.tasks) = Len(so.ids) /\ Len(so.ids) \in Nat /\ Len(so.objs) \in Nat
    BY DEF SoTables
  <1>2. /\ so'.objs = Append(so.objs, Len(so.ids) + 1) /\ so'.ids = Append(so.ids, id)
        /\ so'.tasks = Append(so.tasks, <<>>) /\ so'.names = so.names
    BY DEF SoObjAdded
  <1>3. /\ Len(so'.ids) = Len(so.ids) + 1 /\ so'.ids[Len(so.ids) + 1] = id
        /\ \A o \in 1..Len(so.ids) : so'.ids[o] = so.ids[o]
    BY <1>1, <1>2
  <1>4. /\ so'.tasks[Len(so.ids) + 1] = <<>>
        /\ \A o \in 1..Len(so.ids) : so'.tasks[o] = so.tasks[o]
    BY <1>1, <1>2
  <1>5. /\ Len(so'.objs) = Len(so.objs) + 1 /\ so'.objs[Len(so.objs) + 1] = Len(so.ids) + 1
        /\ \A i \in 1..Len(so.objs) : so'.objs[i] = so.objs[i]
    BY <1>1, <1>2
  <1>6. /\ \A o \in 1..Len(so.ids) : o \in 1..Len(so'.ids)
        /\ \A o \in 1..Len(so'.ids) : o \in 1..Len(so.ids) \/ o = Len(so.ids) + 1
    BY <1>1, <1>3
  <1>7. \A i \in 1..Len(so'.objs) : i \in 1..Len(so.objs) \/ i = Len(so.objs) + 1
    BY <1>1, <1>5
  <1>8. \A i \in 1..Len(so'.objs) :
          \/ i \in 1..Len(so.objs) /\ so'.objs[i] = so.objs[i]
          \/ so'.objs[i] = Len(so.ids) + 1
    BY <1>5, <1>7
  <1> QED
    BY <1>1, <1>2, <1>3, <1>4, <1>6, <1>8

\* Put2ObjQue in request_add_rtsp.
LEMMA SoPutObjStep ==
  ASSUME SoInvariant, SoPutObj
  PROVE  SoInvariant'
  <1>1. /\ soRest.at = "put" /\ soMgr.at = "sleep" /\ so' = SoNewObj(soRest.id)
        /\ soRest' = SoIdle /\ UNCHANGED <<soMgr, soHttp>>
    BY DEF SoPutObj, SoObjFree
  <1>2. soRest.id \in SoId /\ \A i \in 1..Len(so.objs) : so.ids[so.objs[i]] # soRest.id
    BY <1>1 DEF SoInvariant, SoRestOK
  <1>3. soRest.id \in Int
    <2>1. soRest.id \in Nat
      BY <1>2, SoAssumption, Zenon
    <2> QED
      BY <2>1
  <1>4. so' \in SoRecord /\ SoObjAdded(so, so', soRest.id)
    BY <1>1, <1>3, SoObjIsAdded DEF SoInvariant
  <1>5. SoData(so) /\ SoTables(so)
    BY DEF SoInvariant, SoData
  <1>6. SoData(so')
    BY <1>2, <1>3, <1>4, <1>5, SoNewObjKeeps
  <1>7. SoMgrOK'
    BY <1>1 DEF SoInvariant, SoMgrOK
  <1>8. SoHttpOK'
    <2>1. ASSUME NEW o \in 1..Len(so'.ids)
          PROVE  \/ so'.ids[o] \in SoId
                 \/ so'.ids[o] < 0 /\ -so'.ids[o] < soHttp.i
                 \/ soHttp.at = "putTask" /\ so'.ids[o] = -soHttp.i
      <3>1. CASE o = Len(so.ids) + 1
        BY <1>2, <1>3, <1>4, <1>5, <3>1, SoObjAddedPlaces
      <3>2. CASE o \in 1..Len(so.ids)
        <4>1. so'.ids[o] = so.ids[o]
          BY <1>3, <1>4, <1>5, <3>2, SoObjAddedPlaces
        <4> QED
          BY <3>2, <4>1 DEF SoInvariant, SoHttpOK
      <3> QED
        BY <1>3, <1>4, <1>5, <3>1, <3>2, SoObjAddedPlaces
    <2>2. soHttp.at = "putTask" =>
            /\ soHttp.obj \in 1..Len(so'.ids) /\ so'.ids[soHttp.obj] \notin SoId
            /\ so'.tasks[soHttp.obj] = <<>>
      BY <1>3, <1>4, <1>5, SoObjAddedPlaces DEF SoInvariant, SoHttpOK
    <2> QED
      BY <1>1, <2>1, <2>2 DEF SoInvariant, SoHttpOK
  <1> QED
    BY <1>1, <1>4, <1>6, <1>7, <1>8, SoRestDone DEF SoInvariant

\* What a step on the tasks of one object changes for the others.
LEMMA SoTasksChanged ==
  ASSUME SoTables(so), NEW o \in 1..Len(so.ids), NEW q,
         so'.tasks = [so.tasks EXCEPT ![o] = q]
  PROVE  \A p \in 1..Len(so.ids) : p # o => so'.tasks[p] = so.tasks[p]
  <1>1. so.tasks \in Seq(Seq(Nat)) /\ Len(so.tasks) = Len(so.ids)
    BY DEF SoTables
  <1>2. DOMAIN so.tasks = 1..Len(so.ids)
    BY <1>1
  <1> QED
    BY <1>2

\* The http files' thread does not see a step on the tasks of another object.
LEMMA SoHttpStays ==
  ASSUME SoHttpOK, soHttp' = soHttp, so'.ids = so.ids, NEW o, so.ids[o] \in SoId,
         \A p \in 1..Len(so.ids) : p # o => so'.tasks[p] = so.tasks[p]
  PROVE  SoHttpOK'
  BY DEF SoHttpOK

\* Put2TaskQue in request_start_task.
LEMMA SoPutTaskStep ==
  ASSUME SoInvariant, SoPutTask
  PROVE  SoInvariant'
  <1> DEFINE o == soRest.obj
  <1>1. /\ soRest.at = "putTask" /\ so' = SoNewTask(o, soRest.name)
        /\ soRest' = SoIdle /\ UNCHANGED <<soMgr, soHttp>>
    BY DEF SoPutTask
  <1>2. /\ o \in 1..Len(so.ids) /\ so.ids[o] \in SoId /\ soRest.name \in SoText
        /\ \A j \in 1..Len(so.tasks[o]) : so.names[so.tasks[o][j]] # soRest.name
    BY <1>1 DEF SoInvariant, SoRestOK, SoRestRecord
  <1>3. SoData(so) /\ SoTables(so) /\ so \in SoRecord
    BY DEF SoInvariant, SoData
  <1>4. so' \in SoRecord /\ SoTaskAdded(so, so', o, soRest.name)
    BY <1>1, <1>2, <1>3, SoTaskIsAdded
  <1>5. SoData(so')
    BY <1>2, <1>3, <1>4, SoNewTaskKeeps
  <1>6. so'.objs = so.objs /\ so'.ids = so.ids
    BY <1>4 DEF SoTaskAdded
  <1>7. \A p \in 1..Len(so.ids) : p # o => so'.tasks[p] = so.tasks[p]
    BY <1>2, <1>3, <1>4, SoTasksChanged DEF SoTaskAdded
  <1>8. SoMgrOK'
    BY <1>1, <1>6 DEF SoInvariant, SoMgrOK
  <1>9. SoHttpOK'
    BY <1>1, <1>2, <1>6, <1>7, SoHttpStays DEF SoInvariant
  <1> QED
    BY <1>1, <1>4, <1>5, <1>8, <1>9, SoRestDone DEF SoInvariant

\* DelFromTaskQue of the task of the request.
LEMMA SoDelTaskStep ==
  ASSUME SoInvariant, SoDelTask
  PROVE  SoInvariant'
  <1> DEFINE o == soRest.obj
             at == SoTaskAt(o, soRest.name)
  <1>1. /\ soRest.at = "stop" /\ so' = IF at = 0 THEN so ELSE SoTaskStopped(so, o, at)
        /\ soRest' = SoIdle /\ UNCHANGED <<soMgr, soHttp>>
    BY DEF SoDelTask
  <1>2. o \in 1..Len(so.ids) /\ so.ids[o] \in SoId
    BY <1>1 DEF SoInvariant, SoRestOK
  <1>3. SoData(so) /\ SoTables(so) /\ so \in SoRecord
    BY DEF SoInvariant, SoData
  <1>4. so.tasks[o] \in Seq(Nat)
    BY <1>2, <1>3 DEF SoTables
  <1>5. at = 0 \/ at \in 1..Len(so.tasks[o])
    BY <1>4, SoTaskFound
  <1> HIDE DEF at
  <1>6. CASE at = 0
    <2>1. so' \in SoRecord /\ SoSameTables(so, so')
      BY <1>1, <1>3, <1>6 DEF SoSameTables
    <2> QED
      BY <1>1, <2>1, SoRestDone, SoRestGoes
  <1>7. CASE at # 0
    <2>1. so' \in SoRecord /\ SoTaskTakenOut(so, so', o, at)
      BY <1>1, <1>2, <1>3, <1>5, <1>7, SoTaskIsTakenOut
    <2>2. SoData(so')
      BY <1>2, <1>3, <1>5, <1>7, <2>1, SoStopKeeps
    <2>3. so'.objs = so.objs /\ so'.ids = so.ids
      BY <2>1 DEF SoTaskTakenOut
    <2>4. \A p \in 1..Len(so.ids) : p # o => so'.tasks[p] = so.tasks[p]
      BY <1>2, <1>3, <2>1, SoTasksChanged DEF SoTaskTakenOut
    <2>5. SoMgrOK'
      BY <1>1, <2>3 DEF SoInvariant, SoMgrOK
    <2>6. SoHttpOK'
      BY <1>1, <1>2, <2>3, <2>4, SoHttpStays DEF SoInvariant
    <2> QED
      BY <1>1, <2>1, <2>2, <2>5, <2>6, SoRestDone DEF SoInvariant
  <1> QED
    BY <1>6, <1>7

\* The tasks of an object, and those behind the first.
SoTasksOf(s, o) == {s.tasks[o][m] : m \in 1..Len(s.tasks[o])}
SoTasksBehind(s, o) == {s.tasks[o][m] : m \in 2..Len(s.tasks[o])}

\* DelFromTaskQue("all") stops the first task of an object, if it has one.
LEMMA SoDelAllKeeps ==
  ASSUME so \in SoRecord, SoData(so), NEW o \in 1..Len(so.ids), NEW t, t = SoDelAll(so, o)
  PROVE  /\ t \in SoRecord /\ SoData(t)
         /\ t.objs = so.objs /\ t.ids = so.ids /\ t.dropped = so.dropped /\ t.names = so.names
         /\ \A p \in 1..Len(so.ids) : p # o => t.tasks[p] = so.tasks[p]
         /\ SoTasksBehind(so, o) = SoTasksOf(t, o)
  <1>1. /\ so.tasks \in Seq(Seq(Nat)) /\ Len(so.tasks) = Len(so.ids) /\ so.ids \in Seq(Int)
        /\ SoTables(so)
    BY DEF SoData, SoTables
  <1>2. so.tasks[o] \in Seq(Nat) /\ so.tasks \in [1..Len(so.ids) -> Seq(Nat)]
    <2>1. so.tasks \in [1..Len(so.ids) -> Seq(Nat)]
      BY <1>1
    <2> QED
      BY <2>1
  <1>3. CASE so.tasks[o] = <<>>
    <2>1. t = so /\ Len(so.tasks[o]) = 0
      BY <1>3 DEF SoDelAll
    <2>2. SoTasksBehind(so, o) = SoTasksOf(t, o)
      BY <2>1 DEF SoTasksBehind, SoTasksOf
    <2> QED
      BY <2>1, <2>2
  <1>4. CASE so.tasks[o] # <<>>
    <2>1. 1 \in 1..Len(so.tasks[o])
      BY <1>2, <1>4
    <2>2. t = SoTaskStopped(so, o, 1)
      BY <1>4 DEF SoDelAll
    <2>3. t \in SoRecord /\ SoTaskTakenOut(so, t, o, 1)
      BY <1>1, <2>1, <2>2, SoTaskIsTakenOut
    <2>4. SoData(t)
      BY <2>1, <2>3, SoStopKeeps
    <2>5. /\ t.objs = so.objs /\ t.ids = so.ids /\ t.dropped = so.dropped /\ t.names = so.names
          /\ t.tasks = [so.tasks EXCEPT ![o] = RemoveAt(so.tasks[o], 1)]
      BY <2>3 DEF SoTaskTakenOut
    <2> DEFINE q == RemoveAt(so.tasks[o], 1)
               l == so.tasks[o]
    <2>6. /\ Len(q) = Len(l) - 1 /\ Len(l) \in Nat
          /\ \A i \in 1..Len(l)-1 : q[i] = IF i < 1 THEN l[i] ELSE l[i + 1]
      <3>1. /\ Len(q) = Len(l) - 1
            /\ \A i \in 1..Len(l)-1 : q[i] = IF i < 1 THEN l[i] ELSE l[i + 1]
        BY <1>2, <2>1, SoRemoved, Zenon
      <3> HIDE DEF q
      <3> QED
        BY <1>2, <3>1
    <2> HIDE DEF q
    <2>7. t.tasks[o] = q /\ \A p \in 1..Len(so.ids) : p # o => t.tasks[p] = so.tasks[p]
      BY <1>2, <2>5 DEF q
    <2> HIDE DEF l
    <2>8. ASSUME NEW m \in 2..Len(l) PROVE l[m] \in {q[i] : i \in 1..Len(q)}
      <3>1. m - 1 \in 1..Len(l)-1 /\ m - 1 \in 1..Len(q) /\ ~(m - 1 < 1) /\ (m - 1) + 1 = m
        BY <2>6
      <3>2. q[m - 1] = l[m]
        BY <2>6, <3>1
      <3> QED
        BY <3>1, <3>2
    <2>9. ASSUME NEW i \in 1..Len(q) PROVE q[i] \in {l[m] : m \in 2..Len(l)}
      <3>1. i + 1 \in 2..Len(l) /\ i \in 1..Len(l)-1 /\ ~(i < 1)
        BY <2>6
      <3>2. q[i] = l[i + 1]
        BY <2>6, <3>1
      <3> QED
        BY <3>1, <3>2
    <2>10. {l[m] : m \in 2..Len(l)} = {q[m] : m \in 1..Len(q)}
      BY <2>8, <2>9
    <2>11. SoTasksBehind(so, o) = SoTasksOf(t, o)
      BY <2>7, <2>10 DEF l, SoTasksBehind, SoTasksOf
    <2> QED
      BY <2>3, <2>4, <2>5, <2>7, <2>11
  <1> QED
    BY <1>3, <1>4

\* DelFromObjQue.
LEMMA SoDelObjStep ==
  ASSUME SoInvariant, SoDelObj
  PROVE  SoInvariant'
  <1>1. PICK at : at = SoObj(soRest.id)
    OBVIOUS
  <1>2. PICK o : o = so.objs[at]
    OBVIOUS
  <1>3. PICK t : t = SoDelAll(so, o)
    OBVIOUS
  <1>4. PICK rest : rest = SoTasksBehind(so, o)
    OBVIOUS
  <1>5. /\ soRest.at = "get" /\ soMgr.at = "sleep" /\ soRest' = SoIdle /\ UNCHANGED <<soMgr, soHttp>>
        /\ so' = IF at = 0 THEN so
                 ELSE [t EXCEPT !.objs = RemoveAt(t.objs, at), !.dropped = t.dropped \cup rest]
    BY <1>1, <1>2, <1>3, <1>4 DEF SoDelObj, SoObjFree, SoTasksBehind
  <1>6. SoData(so) /\ SoTables(so) /\ so \in SoRecord
    BY DEF SoInvariant, SoData
  <1>7. at = 0 \/ (at \in 1..Len(so.objs) /\ so.ids[o] = soRest.id)
    BY <1>1, <1>2, <1>6, SoObjFound DEF SoTables
  <1>8. CASE at = 0
    <2>1. so' \in SoRecord /\ SoSameTables(so, so')
      BY <1>5, <1>6, <1>8 DEF SoSameTables
    <2> QED
      BY <1>5, <2>1, SoRestDone, SoRestGoes
  <1>9. CASE at # 0
    <2>1. at \in 1..Len(so.objs) /\ o \in 1..Len(so.ids) /\ so.ids[o] \in SoId
      <3>1. soRest.id \in SoId
        BY <1>5 DEF SoInvariant, SoRestOK
      <3> QED
        BY <1>2, <1>6, <1>7, <1>9, <3>1 DEF SoTables
    <2>2. /\ t \in SoRecord /\ SoData(t)
          /\ t.objs = so.objs /\ t.ids = so.ids /\ t.dropped = so.dropped /\ t.names = so.names
          /\ \A p \in 1..Len(so.ids) : p # o => t.tasks[p] = so.tasks[p]
          /\ rest = SoTasksOf(t, o)
      BY <1>3, <1>4, <1>6, <2>1, SoDelAllKeeps
    <2>3. t.objs \in Seq(Nat) /\ t.dropped \subseteq Nat
      BY <2>2 DEF SoData, SoTables
    <2>4. rest \subseteq Nat
      <3>1. \A m \in 1..Len(t.tasks[o]) : t.tasks[o][m] \in 1..Len(t.names)
        BY <2>1, <2>2 DEF SoData, SoTables
      <3> QED
        BY <2>2, <3>1 DEF SoTasksOf
    <2>5. PICK a \in Seq(Nat), d \in SUBSET Nat :
            a = RemoveAt(t.objs, at) /\ d = t.dropped \cup rest
      <3>1. RemoveAt(t.objs, at) \in Seq(Nat)
        BY <2>1, <2>2, <2>3, SoRemoved, Zenon
      <3> QED
        BY <2>3, <2>4, <3>1
    <2>6. so' = [t EXCEPT !.objs = a, !.dropped = d]
      BY <1>5, <1>9, <2>5
    <2>7. so' \in SoRecord
      BY <2>2, <2>6, ZenonT(30) DEF SoRecord
    <2>8. /\ so'.objs = a /\ so'.dropped = d /\ so'.ids = t.ids /\ so'.names = t.names
          /\ so'.tasks = t.tasks /\ so'.state = t.state
      BY <2>2, <2>6, ZenonT(30) DEF SoRecord
    <2>9. o = t.objs[at] /\ at \in 1..Len(t.objs)
      BY <1>2, <2>1, <2>2
    <2>10. SoObjTakenOut(t, so', at)
      BY <2>2, <2>5, <2>8, <2>9 DEF SoObjTakenOut, SoTasksOf
    <2>11. SoData(so')
      BY <2>2, <2>9, <2>10, SoUnlistKeeps
    <2>12. SoMgrOK'
      BY <1>5 DEF SoInvariant, SoMgrOK
    <2>13. SoHttpOK'
      BY <1>5, <2>1, <2>2, <2>8, SoHttpStays DEF SoInvariant
    <2> QED
      BY <1>5, <2>7, <2>11, <2>12, <2>13, SoRestDone DEF SoInvariant
  <1> QED
    BY <1>8, <1>9

-----------------------------------------------------------------------------
(* The steps of ObjManager *)

\* The REST thread does not see a change in what a task does.
LEMMA SoRestStays ==
  ASSUME SoRestOK, UNCHANGED soRest, so'.objs = so.objs, so'.ids = so.ids,
         so'.tasks = so.tasks, so'.names = so.names
  PROVE  SoRestOK'
  BY DEF SoRestOK

\* A pass begins, and goes from object to object.
LEMMA SoPassSteps ==
  ASSUME SoInvariant, SoPass \/ SoTraverse
  PROVE  SoInvariant'
  <1>1. so' = so /\ UNCHANGED <<soRest, soHttp>>
    BY DEF SoPass, SoTraverse
  <1>2. soMgr \in [at : {"sleep", "obj", "task"}, i : Nat, j : Nat]
    BY DEF SoInvariant, SoMgrOK
  <1>3. SoMgrOK'
    <2>1. CASE soMgr' = [at |-> "obj", i |-> 1, j |-> 1]
      BY <2>1 DEF SoMgrOK
    <2>2. CASE soMgr' = [at |-> "sleep", i |-> 0, j |-> 0]
      BY <2>2 DEF SoMgrOK
    <2>3. CASE /\ soMgr.at = "obj" /\ ~(soMgr.i > Len(so.objs))
               /\ soMgr' = [soMgr EXCEPT !.at = "task", !.j = 1]
      <3>1. /\ soMgr' \in [at : {"sleep", "obj", "task"}, i : Nat, j : Nat]
            /\ soMgr'.at = "task" /\ soMgr'.i = soMgr.i /\ soMgr'.j = 1
        BY <1>2, <2>3
      <3>2. soMgr.i >= 1 /\ soMgr.i \in Nat /\ Len(so.objs) \in Nat
        BY <1>2, <2>3 DEF SoInvariant, SoMgrOK, SoData, SoTables
      <3> QED
        BY <1>1, <2>3, <3>1, <3>2 DEF SoMgrOK
    <2> QED
      BY <2>1, <2>2, <2>3 DEF SoPass, SoTraverse
  <1> QED
    BY <1>1, <1>3 DEF SoInvariant, SoRestOK, SoHttpOK

\* One task starts or dies.
LEMMA SoStateStep ==
  ASSUME SoInvariant, so' \in SoRecord, SoData(so'), SoMgrOK',
         so'.objs = so.objs, so'.ids = so.ids, so'.tasks = so.tasks, so'.names = so.names,
         UNCHANGED <<soRest, soHttp>>
  PROVE  SoInvariant'
  <1>1. SoRestOK'
    BY SoRestStays DEF SoInvariant
  <1>2. SoHttpOK'
    BY DEF SoInvariant, SoHttpOK
  <1> QED
    BY <1>1, <1>2 DEF SoInvariant

\* The states with another state of one task.
LEMMA SoStateSeq ==
  ASSUME SoTables(so), NEW k \in 1..Len(so.names), NEW x \in {"running", "silent"}
  PROVE  [so.state EXCEPT ![k] = x] \in Seq(SoTaskState)
  <1>1. so.state \in Seq(SoTaskState) /\ Len(so.state) = Len(so.names)
    BY DEF SoTables
  <1>2. x \in SoTaskState
    BY DEF SoTaskState
  <1> QED
    BY <1>1, <1>2, SoChanged

\* The record when a task starts.
LEMMA SoStarted ==
  ASSUME so \in SoRecord, NEW c \in Seq(SoTaskState), so' = [so EXCEPT !.state = c]
  PROVE  /\ so' \in SoRecord
         /\ so'.objs = so.objs /\ so'.ids = so.ids /\ so'.tasks = so.tasks /\ so'.names = so.names
         /\ so'.dropped = so.dropped /\ so'.state = c
  <1>1. so' \in SoRecord
    BY ZenonT(30) DEF SoRecord
  <1>2. /\ so'.objs = so.objs /\ so'.ids = so.ids /\ so'.tasks = so.tasks /\ so'.names = so.names
        /\ so'.dropped = so.dropped /\ so'.state = c
    BY ZenonT(30) DEF SoRecord
  <1> QED
    BY <1>1, <1>2

\* The record when a task dies.
LEMMA SoDied ==
  ASSUME so \in SoRecord, NEW c \in Seq(SoTaskState), NEW d \in Nat,
         so' = [so EXCEPT !.state = c, !.died = d]
  PROVE  /\ so' \in SoRecord
         /\ so'.objs = so.objs /\ so'.ids = so.ids /\ so'.tasks = so.tasks /\ so'.names = so.names
         /\ so'.dropped = so.dropped /\ so'.state = c
  <1>1. so' \in SoRecord
    BY ZenonT(30) DEF SoRecord
  <1>2. /\ so'.objs = so.objs /\ so'.ids = so.ids /\ so'.tasks = so.tasks /\ so'.names = so.names
        /\ so'.dropped = so.dropped /\ so'.state = c
    BY ZenonT(30) DEF SoRecord
  <1> QED
    BY <1>1, <1>2

\* Stop(true) and Start() of a task that is not alive, and the end of a list.
LEMMA SoKeepAliveStep ==
  ASSUME SoInvariant, SoKeepAlive
  PROVE  SoInvariant'
  <1>1. PICK o : o = so.objs[soMgr.i]
    OBVIOUS
  <1>2. /\ soMgr \in [at : {"sleep", "obj", "task"}, i : Nat, j : Nat] /\ soMgr.at = "task"
        /\ soMgr.i >= 1 /\ soMgr.i <= Len(so.objs) /\ soMgr.j >= 1
    BY DEF SoKeepAlive, SoInvariant, SoMgrOK
  <1>3. so \in SoRecord /\ SoData(so) /\ SoTables(so) /\ UNCHANGED <<soRest, soHttp>>
    BY DEF SoKeepAlive, SoInvariant, SoData
  <1>4. soMgr.i \in 1..Len(so.objs) /\ Len(so.objs) \in Nat /\ o \in 1..Len(so.ids)
    <2>1. so.objs \in Seq(Nat)
      BY <1>3 DEF SoTables
    <2>2. Len(so.objs) \in Nat /\ soMgr.i \in Nat
      BY <1>2, <2>1
    <2>3. soMgr.i \in 1..Len(so.objs)
      BY <1>2, <2>2
    <2> QED
      BY <1>1, <1>3, <2>2, <2>3 DEF SoTables
  <1>5. so.tasks[o] \in Seq(Nat) /\ Len(so.tasks[o]) \in Nat
    <2>1. so.tasks \in Seq(Seq(Nat)) /\ Len(so.tasks) = Len(so.ids)
      BY <1>3 DEF SoTables
    <2> QED
      BY <1>4, <2>1, SoSeqIsFunction, Zenon
  <1>6. CASE soMgr.j > Len(so.tasks[o])
    <2>1. soMgr' = [soMgr EXCEPT !.at = "obj", !.i = @ + 1] /\ so' = so
      BY <1>1, <1>6 DEF SoKeepAlive
    <2>2. SoMgrOK'
      <3>1. PICK x \in Nat : x = soMgr.i + 1 /\ x >= 1
        BY <1>2
      <3>2. soMgr' = [soMgr EXCEPT !.at = "obj", !.i = x]
        BY <2>1, <3>1
      <3>3. "obj" \in {"sleep", "obj", "task"}
        OBVIOUS
      <3>4. /\ soMgr' \in [at : {"sleep", "obj", "task"}, i : Nat, j : Nat]
            /\ soMgr'.at = "obj" /\ soMgr'.i = x
        BY <1>2, <3>2, <3>3, ZenonT(30)
      <3> QED
        BY <3>1, <3>4 DEF SoMgrOK
    <2> QED
      BY <1>3, <2>1, <2>2, SoStateStep
  <1>7. CASE ~(soMgr.j > Len(so.tasks[o]))
    <2>1. soMgr.j \in 1..Len(so.tasks[o])
      BY <1>2, <1>5, <1>7
    <2>2. PICK k : k = so.tasks[o][soMgr.j]
      OBVIOUS
    <2>3. k \in 1..Len(so.names)
      BY <1>3, <1>4, <2>1, <2>2 DEF SoTables
    <2>4. /\ soMgr' = [soMgr EXCEPT !.j = @ + 1]
          /\ so' = so \/ so' = [so EXCEPT !.state[k] = "running"]
      BY <1>1, <1>7, <2>2 DEF SoKeepAlive
    <2>5. /\ soMgr' \in [at : {"sleep", "obj", "task"}, i : Nat, j : Nat]
          /\ soMgr'.at = "task" /\ soMgr'.i = soMgr.i /\ soMgr'.j = soMgr.j + 1
      BY <1>2, <2>4
    <2>6. soMgr'.i >= 1 /\ soMgr'.j >= 1
      BY <1>2, <2>5
    <2>7. CASE so' = so
      <3>1. SoMgrOK'
        BY <1>2, <2>5, <2>6, <2>7 DEF SoMgrOK
      <3> QED
        BY <1>3, <2>7, <3>1, SoStateStep
    <2>8. CASE so' = [so EXCEPT !.state[k] = "running"]
      <3>1. PICK c \in Seq(SoTaskState) : c = [so.state EXCEPT ![k] = "running"]
        BY <1>3, <2>3, SoStateSeq
      <3>2. so' = [so EXCEPT !.state = c]
        BY <2>8, <3>1
      <3>3. /\ so' \in SoRecord
            /\ so'.objs = so.objs /\ so'.ids = so.ids /\ so'.tasks = so.tasks /\ so'.names = so.names
            /\ so'.dropped = so.dropped /\ so'.state = c
        BY <1>3, <3>2, SoStarted
      <3>4. \E i \in 1..Len(so.objs) : \E j \in 1..Len(so.tasks[so.objs[i]]) :
              so.tasks[so.objs[i]][j] = k
        BY <1>1, <1>4, <2>1, <2>2
      <3>5. SoData(so')
        BY <1>3, <2>3, <3>1, <3>3, <3>4, SoStateKeeps
      <3>6. SoMgrOK'
        BY <1>2, <2>5, <2>6, <3>3 DEF SoMgrOK
      <3> QED
        BY <1>3, <3>3, <3>5, <3>6, SoStateStep
    <2> QED
      BY <2>4, <2>7, <2>8
  <1> QED
    BY <1>6, <1>7

\* A task dies by itself.
LEMMA SoDiesStep ==
  ASSUME SoInvariant, NEW k \in DOMAIN so.state, SoDies(k)
  PROVE  SoInvariant'
  <1>1. so \in SoRecord /\ SoData(so) /\ SoTables(so) /\ UNCHANGED <<soRest, soMgr, soHttp>>
    BY DEF SoDies, SoInvariant, SoData
  <1>2. k \in 1..Len(so.names)
    <2>1. so.state \in Seq(SoTaskState) /\ Len(so.state) = Len(so.names)
      BY <1>1 DEF SoTables
    <2> QED
      BY <2>1
  <1>3. PICK d \in Nat : d = so.died + 1
    BY <1>1 DEF SoRecord
  <1>4. PICK c \in Seq(SoTaskState) : c = [so.state EXCEPT ![k] = "silent"]
    BY <1>1, <1>2, SoStateSeq
  <1>5. so' = [so EXCEPT !.state = c, !.died = d]
    BY <1>3, <1>4 DEF SoDies
  <1>6. /\ so' \in SoRecord
        /\ so'.objs = so.objs /\ so'.ids = so.ids /\ so'.tasks = so.tasks /\ so'.names = so.names
        /\ so'.dropped = so.dropped /\ so'.state = c
    BY <1>1, <1>5, SoDied
  <1>7. SoData(so')
    BY <1>1, <1>2, <1>4, <1>6, SoStateKeeps
  <1>8. SoMgrOK'
    BY <1>1, <1>6 DEF SoInvariant, SoMgrOK
  <1> QED
    BY <1>1, <1>6, <1>7, <1>8, SoStateStep

\* AlgThread has read the pipeline.
LEMMA SoAlgLoadedStep ==
  ASSUME SoInvariant, SoAlgLoaded
  PROVE  SoInvariant'
  <1>1. so' = [so EXCEPT !.alg = TRUE] /\ UNCHANGED <<soRest, soMgr, soHttp>>
    BY DEF SoAlgLoaded
  <1>2. so' \in SoRecord /\ SoSameTables(so, so')
    BY <1>1, SoFlags DEF SoInvariant
  <1>3. SoRestOK'
    BY <1>1, <1>2, SoRestStays DEF SoInvariant, SoSameTables
  <1> QED
    BY <1>1, <1>2, <1>3, SoRestGoes

-----------------------------------------------------------------------------
(* The steps of StartHttpfileTask *)

\* It waits for the output and for the pipeline.
LEMMA SoHttpWaitSteps ==
  ASSUME SoInvariant, SoOutputSet \/ SoHttpWaits
  PROVE  SoInvariant'
  <1>1. so' = so /\ UNCHANGED <<soRest, soMgr>> /\ soHttp.at \in {"output", "alg"}
    BY DEF SoOutputSet, SoHttpWaits
  <1>2. soHttp \in [at : {"output", "alg", "put", "putTask", "ended"}, i : Nat, obj : Nat]
    BY DEF SoInvariant, SoHttpOK
  <1>3. PICK to \in {"alg", "put", "ended"} :
          soHttp' = [soHttp EXCEPT !.at = to] /\ (to = "put" => ~(soHttp.i > Len(SoHttp)))
    BY DEF SoOutputSet, SoHttpWaits
  <1>4. /\ soHttp' \in [at : {"output", "alg", "put", "putTask", "ended"}, i : Nat, obj : Nat]
        /\ soHttp'.at = to /\ soHttp'.i = soHttp.i
    BY <1>2, <1>3
  <1>5. to = "put" => soHttp.i <= Len(SoHttp)
    <2>1. Len(SoHttp) \in Nat /\ soHttp.i \in Nat
      BY <1>2, SoAssumption
    <2> QED
      BY <1>3, <2>1
  <1>6. SoHttpOK'
    BY <1>1, <1>4, <1>5 DEF SoInvariant, SoHttpOK
  <1> QED
    BY <1>1, <1>6 DEF SoInvariant, SoRestOK, SoMgrOK

\* It puts the object of an http file.
LEMMA SoHttpPutsStep ==
  ASSUME SoInvariant, SoHttpPuts
  PROVE  SoInvariant'
  <1>1. /\ soHttp.at = "put" /\ soMgr.at = "sleep" /\ so' = SoNewObj(SoHttpId(soHttp.i))
        /\ soHttp' = [soHttp EXCEPT !.at = "putTask", !.obj = Len(so'.ids)]
        /\ UNCHANGED <<soRest, soMgr>>
    BY DEF SoHttpPuts, SoObjFree
  <1>2. PICK id \in Int : id = -soHttp.i /\ id < 0 /\ id \notin SoId
    <2>1. soHttp.i \in Nat /\ soHttp.i >= 1
      BY DEF SoInvariant, SoHttpOK
    <2>2. -soHttp.i \in Int /\ -soHttp.i < 0 /\ -soHttp.i \notin Nat
      BY <2>1
    <2> QED
      BY <2>2, SoAssumption
  <1>3. so' = SoNewObj(id)
    BY <1>1, <1>2 DEF SoHttpId
  <1>4. SoData(so) /\ SoTables(so) /\ so \in SoRecord
    BY DEF SoInvariant, SoData
  <1>5. so' \in SoRecord /\ SoObjAdded(so, so', id)
    BY <1>3, <1>4, SoObjIsAdded
  <1>6. \A o \in 1..Len(so.ids) : so.ids[o] # id
    <2> SUFFICES ASSUME NEW o \in 1..Len(so.ids) PROVE so.ids[o] # id
      OBVIOUS
    <2>1. so.ids[o] \in SoId \/ (so.ids[o] < 0 /\ -so.ids[o] < soHttp.i)
      BY <1>1 DEF SoInvariant, SoHttpOK
    <2>2. so.ids[o] \in Int /\ soHttp.i \in Nat
      BY <1>4 DEF SoTables, SoInvariant, SoHttpOK
    <2>3. CASE so.ids[o] \in SoId
      BY <1>2, <2>3
    <2>4. CASE -so.ids[o] < soHttp.i
      BY <1>2, <2>2, <2>4
    <2> QED
      BY <2>1, <2>3, <2>4
  <1>7. SoData(so')
    <2>1. \A i \in 1..Len(so.objs) : so.ids[so.objs[i]] # id
      BY <1>4, <1>6 DEF SoTables
    <2> QED
      BY <1>4, <1>5, <2>1, SoNewObjKeeps
  <1>8. /\ Len(so'.ids) = Len(so.ids) + 1 /\ Len(so.ids) \in Nat
        /\ so'.ids[Len(so.ids) + 1] = id /\ so'.tasks[Len(so.ids) + 1] = <<>>
        /\ so'.names = so.names
        /\ \A o \in 1..Len(so.ids) :
             /\ o \in 1..Len(so'.ids) /\ so'.ids[o] = so.ids[o] /\ so'.tasks[o] = so.tasks[o]
        /\ \A o \in 1..Len(so'.ids) : o \in 1..Len(so.ids) \/ o = Len(so.ids) + 1
        /\ \A i \in 1..Len(so'.objs) :
             \/ i \in 1..Len(so.objs) /\ so'.objs[i] = so.objs[i]
             \/ so'.objs[i] = Len(so.ids) + 1
    BY <1>4, <1>5, SoObjAddedPlaces
  <1>9. SoRestOK'
    <2>1. soRest.at \in {"start", "stop", "putTask"} =>
            /\ soRest.obj \in 1..Len(so'.ids) /\ so'.ids[soRest.obj] \in SoId
            /\ so'.tasks[soRest.obj] = so.tasks[soRest.obj]
      BY <1>8 DEF SoInvariant, SoRestOK
    <2>2. soRest.at = "put" => \A i \in 1..Len(so'.objs) : so'.ids[so'.objs[i]] # soRest.id
      <3> SUFFICES ASSUME soRest.at = "put", NEW i \in 1..Len(so'.objs)
                   PROVE  so'.ids[so'.objs[i]] # soRest.id
        OBVIOUS
      <3>1. soRest.id \in SoId /\ \A m \in 1..Len(so.objs) : so.ids[so.objs[m]] # soRest.id
        BY DEF SoInvariant, SoRestOK
      <3>2. CASE so'.objs[i] = Len(so.ids) + 1
        BY <1>2, <1>8, <3>1, <3>2
      <3>3. CASE i \in 1..Len(so.objs) /\ so'.objs[i] = so.objs[i]
        <4>1. so.objs[i] \in 1..Len(so.ids)
          BY <1>4, <3>3 DEF SoTables
        <4> QED
          BY <1>8, <3>1, <3>3, <4>1
      <3> QED
        BY <1>8, <3>2, <3>3
    <2> QED
      BY <1>1, <1>8, <2>1, <2>2 DEF SoInvariant, SoRestOK
  <1>10. SoMgrOK'
    BY <1>1 DEF SoInvariant, SoMgrOK
  <1>11. SoHttpOK'
    <2>1. soHttp \in [at : {"output", "alg", "put", "putTask", "ended"}, i : Nat, obj : Nat]
      BY DEF SoInvariant, SoHttpOK
    <2>2. Len(so'.ids) \in Nat /\ Len(so'.ids) \in 1..Len(so'.ids)
      BY <1>8
    <2>3. /\ soHttp' \in [at : {"output", "alg", "put", "putTask", "ended"}, i : Nat, obj : Nat]
          /\ soHttp'.at = "putTask" /\ soHttp'.i = soHttp.i /\ soHttp'.obj = Len(so.ids) + 1
      BY <1>1, <1>8, <2>1, <2>2
    <2>4. ASSUME NEW o \in 1..Len(so'.ids)
          PROVE  \/ so'.ids[o] \in SoId
                 \/ so'.ids[o] < 0 /\ -so'.ids[o] < soHttp.i
                 \/ so'.ids[o] = -soHttp.i
      <3>1. CASE o = Len(so.ids) + 1
        BY <1>2, <1>8, <3>1
      <3>2. CASE o \in 1..Len(so.ids)
        BY <1>1, <1>8, <3>2 DEF SoInvariant, SoHttpOK
      <3> QED
        BY <1>8, <3>1, <3>2
    <2>5. soHttp.i >= 1 /\ soHttp.i <= Len(SoHttp)
      BY <1>1 DEF SoInvariant, SoHttpOK
    <2> QED
      BY <1>2, <1>8, <2>2, <2>3, <2>4, <2>5 DEF SoHttpOK
  <1> QED
    BY <1>5, <1>7, <1>9, <1>10, <1>11 DEF SoInvariant

\* It puts the task of the http file into the object that it has put before.
LEMMA SoHttpStartsStep ==
  ASSUME SoInvariant, SoHttpStarts
  PROVE  SoInvariant'
  <1>1. PICK o, name : o = soHttp.obj /\ name = SoHttp[soHttp.i]
    OBVIOUS
  <1>2. PICK i : i = soHttp.i
    OBVIOUS
  <1>3. /\ soHttp.at = "putTask" /\ so' = SoNewTask(o, name)
        /\ soHttp' = [at |-> "alg", i |-> i + 1, obj |-> 0] /\ UNCHANGED <<soRest, soMgr>>
    BY <1>1, <1>2 DEF SoHttpStarts
  <1>4. SoData(so) /\ SoTables(so) /\ so \in SoRecord
    BY DEF SoInvariant, SoData
  <1>5. /\ i \in Nat /\ i >= 1 /\ i <= Len(SoHttp) /\ o \in 1..Len(so.ids)
        /\ so.ids[o] \notin SoId /\ so.tasks[o] = <<>>
    BY <1>1, <1>2, <1>3 DEF SoInvariant, SoHttpOK
  <1>6. name \in SoText
    <2>1. SoHttp \in Seq(STRING) /\ i \in 1..Len(SoHttp)
      BY <1>5, SoAssumption
    <2>2. SoHttp[i] \in STRING
      BY <2>1
    <2> QED
      BY <1>1, <1>2, <2>2 DEF SoText
  <1>7. so' \in SoRecord /\ SoTaskAdded(so, so', o, name)
    BY <1>3, <1>4, <1>5, <1>6, SoTaskIsAdded
  <1>8. SoData(so')
    <2>1. \A j \in 1..Len(so.tasks[o]) : so.names[so.tasks[o][j]] # name
      BY <1>5
    <2> QED
      BY <1>4, <1>5, <1>6, <1>7, <2>1, SoNewTaskKeeps
  <1>9. so'.objs = so.objs /\ so'.ids = so.ids
    BY <1>7 DEF SoTaskAdded
  <1>10. \A p \in 1..Len(so.ids) : p # o => so'.tasks[p] = so.tasks[p]
    BY <1>4, <1>5, <1>7, SoTasksChanged DEF SoTaskAdded
  <1>11. SoMgrOK'
    BY <1>3, <1>9 DEF SoInvariant, SoMgrOK
  <1>12. SoRestOK'
    <2>1. CASE soRest.at = "putTask"
      <3>1. soRest.obj \in 1..Len(so.ids) /\ so.ids[soRest.obj] \in SoId
        BY <2>1 DEF SoInvariant, SoRestOK
      <3>2. so'.tasks[soRest.obj] = so.tasks[soRest.obj]
        BY <1>5, <1>10, <3>1
      <3>3. so.names \in Seq(SoText) /\ so'.names = Append(so.names, name)
        BY <1>4, <1>7 DEF SoTables, SoTaskAdded
      <3>4. \A k \in 1..Len(so.names) : so'.names[k] = so.names[k]
        BY <1>6, <3>3
      <3>5. \A j \in 1..Len(so.tasks[soRest.obj]) :
              so.tasks[soRest.obj][j] \in 1..Len(so.names)
        BY <1>4, <3>1 DEF SoTables
      <3>6. \A j \in 1..Len(so.tasks[soRest.obj]) :
              so.names[so.tasks[soRest.obj][j]] # soRest.name
        BY <2>1 DEF SoInvariant, SoRestOK
      <3>7. \A j \in 1..Len(so'.tasks[soRest.obj]) :
              so'.names[so'.tasks[soRest.obj][j]] # soRest.name
        BY <3>2, <3>4, <3>5, <3>6
      <3> QED
        BY <1>3, <1>9, <2>1, <3>1, <3>7 DEF SoInvariant, SoRestOK
    <2>2. CASE soRest.at # "putTask"
      BY <1>3, <1>9, <2>2 DEF SoInvariant, SoRestOK
    <2> QED
      BY <2>1, <2>2
  <1>13. SoHttpOK'
    <2>1. /\ soHttp' \in [at : {"output", "alg", "put", "putTask", "ended"}, i : Nat, obj : Nat]
          /\ soHttp'.at = "alg" /\ soHttp'.i = i + 1 /\ i + 1 >= 1
      BY <1>3, <1>5
    <2>2. ASSUME NEW p \in 1..Len(so.ids)
          PROVE  so.ids[p] \in SoId \/ (so.ids[p] < 0 /\ -so.ids[p] < i + 1)
      <3>1. so.ids[p] \in Int
        BY <1>4 DEF SoTables
      <3>2. \/ so.ids[p] \in SoId
            \/ so.ids[p] < 0 /\ -so.ids[p] < i
            \/ so.ids[p] = -i
        BY <1>2 DEF SoInvariant, SoHttpOK
      <3> QED
        BY <1>5, <3>1, <3>2
    <2> QED
      BY <1>9, <2>1, <2>2 DEF SoHttpOK
  <1> QED
    BY <1>7, <1>8, <1>11, <1>12, <1>13 DEF SoInvariant

-----------------------------------------------------------------------------
(* The invariant *)

\* Nothing is listed when a slave starts.
LEMMA SoInitialOK ==
  ASSUME NEW on \in BOOLEAN, SoInitial(on)
  PROVE  SoInvariant
  <1>1. /\ so = [on |-> on, objs |-> <<>>, ids |-> <<>>, tasks |-> <<>>, names |-> <<>>,
                 state |-> <<>>, dropped |-> {}, output |-> FALSE, alg |-> FALSE,
                 asked |-> 0, died |-> 0]
        /\ soRest = SoIdle /\ soMgr = [at |-> "sleep", i |-> 0, j |-> 0]
        /\ soHttp = [at |-> "output", i |-> 1, obj |-> 0]
    BY DEF SoInitial
  <1>2. /\ so.objs = <<>> /\ so.ids = <<>> /\ so.tasks = <<>> /\ so.names = <<>>
        /\ so.state = <<>> /\ so.dropped = {}
    BY <1>1
  <1>3. /\ <<>> \in Seq(Nat) /\ <<>> \in Seq(Int) /\ <<>> \in Seq(Seq(Nat)) /\ <<>> \in Seq(SoText)
        /\ <<>> \in Seq(SoTaskState) /\ {} \subseteq Nat /\ 0 \in Nat
    OBVIOUS
  <1>4. so \in SoRecord
    BY <1>1, <1>3, ZenonT(30) DEF SoRecord
  <1>5. SoTables(so)
    BY <1>2, <1>3 DEF SoTables
  <1>6. SoData(so)
    BY <1>2, <1>5 DEF SoData, SoIdsOnce, SoNamesOnce, SoOnePlace, SoStoppedOut, SoKept
  <1>7. SoRestOK
    BY <1>1, SoIdleOK DEF SoRestOK
  <1>8. SoMgrOK
    BY <1>1 DEF SoMgrOK
  <1>9. SoHttpOK
    BY <1>1, <1>2 DEF SoHttpOK
  <1> QED
    BY <1>4, <1>6, <1>7, <1>8, <1>9 DEF SoInvariant

\* A request is one of a user, for an object of his, or of the output.
LEMMA SoRequestSteps ==
  ASSUME SoInvariant,
         \/ \E id \in SoId :
              \/ SoRequest("add", id, "") \/ SoRequest("del", id, "")
              \/ \E name \in SoName : SoRequest("start", id, name) \/ SoRequest("stop", id, name)
         \/ SoRequest("output", 0, "")
  PROVE  SoInvariant'
  <1>1. "" \in SoText /\ SoName \subseteq SoText
    BY SoAssumption DEF SoText
  <1>2. CASE SoRequest("output", 0, "")
    BY <1>1, <1>2, SoRequestStep
  <1>3. CASE \E id \in SoId : SoRequest("add", id, "") \/ SoRequest("del", id, "")
    <2>1. PICK id \in SoId : SoRequest("add", id, "") \/ SoRequest("del", id, "")
      BY <1>3
    <2>2. CASE SoRequest("add", id, "")
      BY <1>1, <2>2, SoRequestStep
    <2>3. CASE SoRequest("del", id, "")
      BY <1>1, <2>3, SoRequestStep
    <2> QED
      BY <2>1, <2>2, <2>3
  <1>4. CASE \E id \in SoId : \E name \in SoName :
               SoRequest("start", id, name) \/ SoRequest("stop", id, name)
    <2>1. PICK id \in SoId, name \in SoName :
            SoRequest("start", id, name) \/ SoRequest("stop", id, name)
      BY <1>4
    <2>2. name \in SoText
      BY <1>1
    <2>3. CASE SoRequest("start", id, name)
      BY <2>2, <2>3, SoRequestStep
    <2>4. CASE SoRequest("stop", id, name)
      BY <2>2, <2>4, SoRequestStep
    <2> QED
      BY <2>1, <2>3, <2>4
  <1> QED
    BY <1>2, <1>3, <1>4

\* Every step keeps the invariant.
LEMMA SoStep ==
  ASSUME SoInvariant, [SoNext]_soVars
  PROVE  SoInvariant'
  <1>1. CASE UNCHANGED soVars
    BY <1>1 DEF soVars, SoInvariant, SoRestOK, SoMgrOK, SoHttpOK
  <1>2. CASE \/ \E id \in SoId :
                  \/ SoRequest("add", id, "") \/ SoRequest("del", id, "")
                  \/ \E name \in SoName :
                       SoRequest("start", id, name) \/ SoRequest("stop", id, name)
             \/ SoRequest("output", 0, "")
    BY <1>2, SoRequestSteps
  <1>3. CASE SoRestThread
    BY <1>3, SoTestSteps, SoPutObjStep, SoPutTaskStep, SoDelTaskStep, SoDelObjStep DEF SoRestThread
  <1>4. CASE SoManager
    BY <1>4, SoPassSteps, SoKeepAliveStep DEF SoManager
  <1>5. CASE SoHttpThread
    BY <1>5, SoHttpWaitSteps, SoHttpPutsStep, SoHttpStartsStep DEF SoHttpThread
  <1>6. CASE \E k \in DOMAIN so.state : SoDies(k)
    BY <1>6, SoDiesStep
  <1>7. CASE SoAlgLoaded
    BY <1>7, SoAlgLoadedStep
  <1> QED
    BY <1>1, <1>2, <1>3, <1>4, <1>5, <1>6, <1>7 DEF SoNext

\* The invariant holds in every reachable state.
LEMMA SoInvariantHolds == SoSpec => []SoInvariant
  <1>1. (\E on \in BOOLEAN : SoInitial(on)) => SoInvariant
    BY SoInitialOK
  <1>2. SoInvariant /\ [SoNext]_soVars => SoInvariant'
    BY SoStep
  <1> QED
    BY <1>1, <1>2, PTL DEF SoSpec

-----------------------------------------------------------------------------
(* The theorems *)

\* No id of an object and no name of a task of an object is there twice, and a
\* task that runs is listed or was behind the first of a deleted object
\* (request_add_rtsp, request_start_task, DelFromTaskQue, DelFromObjQue).
THEOREM SoSafeHolds == SoSpec => []SoSafe
  <1>1. SoInvariant => SoSafe
    <2> SUFFICES ASSUME SoInvariant PROVE SoSafe
      OBVIOUS
    <2>1. SoData(so) /\ SoTables(so)
      BY DEF SoInvariant, SoData
    <2>2. /\ DOMAIN so.objs = 1..Len(so.objs) /\ DOMAIN so.state = 1..Len(so.names)
          /\ \A o \in 1..Len(so.ids) : DOMAIN so.tasks[o] = 1..Len(so.tasks[o])
          /\ \A i \in 1..Len(so.objs) : so.objs[i] \in 1..Len(so.ids)
      <3>1. /\ so.objs \in Seq(Nat) /\ so.state \in Seq(SoTaskState) /\ Len(so.state) = Len(so.names)
            /\ so.tasks \in Seq(Seq(Nat)) /\ Len(so.tasks) = Len(so.ids)
        BY <2>1 DEF SoTables
      <3>2. DOMAIN so.objs = 1..Len(so.objs) /\ DOMAIN so.state = 1..Len(so.names)
        BY <3>1
      <3>3. \A o \in 1..Len(so.ids) : so.tasks[o] \in Seq(Nat)
        BY <3>1
      <3>4. \A o \in 1..Len(so.ids) : DOMAIN so.tasks[o] = 1..Len(so.tasks[o])
        BY <3>3
      <3> QED
        BY <2>1, <3>2, <3>4 DEF SoTables
    <2>3. \A o \in Range(so.objs) : o \in 1..Len(so.ids)
      BY <2>2 DEF Range
    <2>4. SoListsExact
      <3>1. \A i, j \in DOMAIN so.objs : so.ids[so.objs[i]] = so.ids[so.objs[j]] => i = j
        BY <2>1, <2>2 DEF SoData, SoIdsOnce
      <3>2. \A o \in Range(so.objs) : \A i, j \in DOMAIN so.tasks[o] :
              so.names[so.tasks[o][i]] = so.names[so.tasks[o][j]] => i = j
        <4> SUFFICES ASSUME NEW o \in Range(so.objs), NEW i \in DOMAIN so.tasks[o],
                            NEW j \in DOMAIN so.tasks[o],
                            so.names[so.tasks[o][i]] = so.names[so.tasks[o][j]]
                     PROVE  i = j
          OBVIOUS
        <4>1. o \in 1..Len(so.ids)
          BY <2>3
        <4>2. i \in 1..Len(so.tasks[o]) /\ j \in 1..Len(so.tasks[o])
          BY <2>2, <4>1
        <4> QED
          BY <2>1, <4>1, <4>2 DEF SoData, SoNamesOnce
      <3> QED
        BY <3>1, <3>2 DEF SoListsExact
    <2>5. ASSUME NEW k \in DOMAIN so.state, so.state[k] = "running", k \notin so.dropped
          PROVE  k \in SoListed
      <3>1. PICK i \in 1..Len(so.objs) : \E j \in 1..Len(so.tasks[so.objs[i]]) :
                   so.tasks[so.objs[i]][j] = k
        BY <2>1, <2>2, <2>5 DEF SoData, SoKept
      <3>2. so.objs[i] \in Range(so.objs)
        BY <2>2 DEF Range
      <3>3. k \in Range(so.tasks[so.objs[i]])
        BY <2>2, <3>1 DEF Range
      <3> QED
        BY <3>2, <3>3 DEF SoListed
    <2> QED
      BY <2>4, <2>5 DEF SoSafe, SoOrphansAreDropped
  <1> QED
    BY <1>1, SoInvariantHolds, PTL

\* ObjManager starts what is in a list, and a stopped task is in none.
LEMMA SoStoppedIsNotStarted ==
  ASSUME SoInvariant, SoKeepAlive, NEW k \in 1..Len(so.names), so.state[k] = "stopped"
  PROVE  so'.state[k] = "stopped"
  <1>1. PICK o, j : o = so.objs[soMgr.i] /\ j = soMgr.j
    OBVIOUS
  <1>2. SoTables(so) /\ SoStoppedOut(so)
    BY DEF SoInvariant, SoData
  <1>3. so' = so \/ (j <= Len(so.tasks[o]) /\ so' = [so EXCEPT !.state[so.tasks[o][j]] = "running"])
    <2>1. soMgr.i \in Nat /\ soMgr.j \in Nat /\ soMgr.i >= 1 /\ soMgr.i <= Len(so.objs)
      BY DEF SoKeepAlive, SoInvariant, SoMgrOK
    <2>2. Len(so.objs) \in Nat
      BY <1>2 DEF SoTables
    <2>3. o \in 1..Len(so.ids)
      BY <1>1, <1>2, <2>1, <2>2 DEF SoTables
    <2>4. Len(so.tasks[o]) \in Nat
      BY <1>2, <2>3 DEF SoTables
    <2>5. so' = so \/ (~(j > Len(so.tasks[o])) /\ so' = [so EXCEPT !.state[so.tasks[o][j]] = "running"])
      BY <1>1 DEF SoKeepAlive
    <2>6. ~(j > Len(so.tasks[o])) => j <= Len(so.tasks[o])
      BY <1>1, <2>1, <2>4
    <2> QED
      BY <2>5, <2>6, Zenon
  <1>4. CASE so' = so
    BY <1>4
  <1>5. CASE j <= Len(so.tasks[o]) /\ so' = [so EXCEPT !.state[so.tasks[o][j]] = "running"]
    <2>1. /\ soMgr.i \in Nat /\ soMgr.j \in Nat /\ soMgr.i >= 1 /\ soMgr.i <= Len(so.objs)
          /\ soMgr.j >= 1
      BY DEF SoKeepAlive, SoInvariant, SoMgrOK
    <2>2. Len(so.objs) \in Nat
      BY <1>2 DEF SoTables
    <2>3. o \in 1..Len(so.ids)
      BY <1>1, <1>2, <2>1, <2>2 DEF SoTables
    <2>4. j \in 1..Len(so.tasks[o])
      <3>1. Len(so.tasks[o]) \in Nat
        BY <1>2, <2>3 DEF SoTables
      <3> QED
        BY <1>1, <1>5, <2>1, <3>1
    <2>5. PICK t : t = so.tasks[o][j]
      OBVIOUS
    <2>6. t # k /\ t \in 1..Len(so.names)
      BY <1>2, <2>3, <2>4, <2>5 DEF SoStoppedOut, SoTables
    <2>7. so.state \in Seq(SoTaskState) /\ Len(so.state) = Len(so.names) /\ so \in SoRecord
      BY <1>2 DEF SoTables, SoInvariant
    <2>8. PICK c \in Seq(SoTaskState) : c = [so.state EXCEPT ![t] = "running"]
      BY <1>2, <2>6, SoStateSeq
    <2>9. so' = [so EXCEPT !.state = c]
      BY <1>5, <2>5, <2>8
    <2>10. so'.state = c
      BY <2>7, <2>9, SoStarted
    <2> QED
      BY <2>6, <2>7, <2>8, <2>10
  <1> QED
    BY <1>3, <1>4, <1>5

\* DelFromTaskQue leaves stopped what was.
LEMMA SoStoppedStaysOut ==
  ASSUME SoInvariant, NEW o \in 1..Len(so.ids), NEW at \in 1..Len(so.tasks[o]),
         NEW t, t = SoTaskStopped(so, o, at), NEW k \in 1..Len(so.names), so.state[k] = "stopped"
  PROVE  t.state[k] = "stopped"
  <1>1. so \in SoRecord /\ SoTables(so) /\ SoData(so)
    BY DEF SoInvariant, SoData
  <1>2. SoTaskTakenOut(so, t, o, at)
    BY <1>1, SoTaskIsTakenOut
  <1>3. t.state = [so.state EXCEPT ![so.tasks[o][at]] = "stopped"]
    BY <1>2 DEF SoTaskTakenOut
  <1>4. so.state \in Seq(SoTaskState) /\ Len(so.state) = Len(so.names)
    BY <1>1 DEF SoTables
  <1> QED
    BY <1>3, <1>4

\* The states of tasks grow at the end, and those that were there stay.
LEMMA SoNewTaskIsBehind ==
  ASSUME SoInvariant, NEW o \in 1..Len(so.ids), NEW name \in SoText, so' = SoNewTask(o, name),
         NEW k \in 1..Len(so.names)
  PROVE  so'.state[k] = so.state[k]
  <1>1. so \in SoRecord /\ SoTables(so)
    BY DEF SoInvariant, SoData
  <1>2. so'.state = Append(so.state, "new")
    BY <1>1, SoTaskIsAdded DEF SoTaskAdded
  <1>3. so.state \in Seq(SoTaskState) /\ Len(so.state) = Len(so.names) /\ "new" \in SoTaskState
    BY <1>1 DEF SoTables, SoTaskState
  <1> QED
    BY <1>2, <1>3

\* No step gives a stopped task another state.
LEMMA SoStoppedStep ==
  ASSUME SoInvariant, [SoNext]_soVars, NEW k \in DOMAIN so.state, so.state[k] = "stopped"
  PROVE  so'.state[k] = "stopped"
  <1>1. so \in SoRecord /\ SoTables(so) /\ SoData(so) /\ SoRestOK /\ SoHttpOK
    BY DEF SoInvariant, SoData
  <1>2. k \in 1..Len(so.names)
    <2>1. so.state \in Seq(SoTaskState) /\ Len(so.state) = Len(so.names)
      BY <1>1 DEF SoTables
    <2> QED
      BY <2>1
  <1>3. ASSUME NEW x, NEW y, so' = [so EXCEPT !.asked = x, !.output = y]
        PROVE  so'.state = so.state
    BY <1>1, <1>3, ZenonT(30) DEF SoRecord
  <1>4. CASE \E kind, id, name : SoRequest(kind, id, name)
    <2>1. PICK kind : \E id, name : SoRequest(kind, id, name)
      BY <1>4
    <2>2. PICK x, y : x = so.asked + 1 /\ y = (so.output \/ kind = "output")
      OBVIOUS
    <2>3. so' = [so EXCEPT !.asked = x, !.output = y]
      BY <2>1, <2>2, Zenon DEF SoRequest
    <2> QED
      BY <1>3, <2>3
  <1>5. CASE so' = so
    BY <1>5
  <1>6. CASE SoPutObj \/ SoHttpPuts
    <2>1. PICK id \in Int : so' = SoNewObj(id)
      <3>1. CASE SoPutObj
        <4>1. soRest.id \in SoId /\ so' = SoNewObj(soRest.id)
          BY <1>1, <3>1 DEF SoPutObj, SoRestOK
        <4>2. soRest.id \in Nat
          BY <4>1, SoAssumption, Zenon
        <4> QED
          BY <4>1, <4>2
      <3>2. CASE SoHttpPuts
        <4>1. soHttp.i \in Nat
          BY <1>1 DEF SoHttpOK
        <4> QED
          BY <3>2, <4>1 DEF SoHttpPuts, SoHttpId
      <3> QED
        BY <1>6, <3>1, <3>2
    <2> QED
      BY <1>1, <2>1, SoObjIsAdded DEF SoObjAdded
  <1>7. CASE SoPutTask
    <2>1. soRest.obj \in 1..Len(so.ids) /\ soRest.name \in SoText
      BY <1>1, <1>7 DEF SoPutTask, SoRestOK, SoRestRecord
    <2> QED
      BY <1>2, <1>7, <2>1, SoNewTaskIsBehind DEF SoPutTask
  <1>8. CASE SoHttpStarts
    <2>1. PICK name : name = SoHttp[soHttp.i]
      OBVIOUS
    <2>2. soHttp.obj \in 1..Len(so.ids) /\ soHttp.i \in 1..Len(SoHttp)
      <3>1. soHttp.at = "putTask"
        BY <1>8 DEF SoHttpStarts
      <3>2. SoHttp \in Seq(STRING)
        BY SoAssumption
      <3> QED
        BY <1>1, <3>1, <3>2 DEF SoHttpOK
    <2>3. name \in SoText
      <3>1. SoHttp[soHttp.i] \in STRING
        BY <2>2, SoAssumption
      <3> QED
        BY <2>1, <3>1 DEF SoText
    <2>4. so' = SoNewTask(soHttp.obj, name)
      BY <1>8, <2>1 DEF SoHttpStarts
    <2> QED
      BY <1>2, <2>2, <2>3, <2>4, SoNewTaskIsBehind
  <1>9. CASE SoDelTask
    <2>1. PICK o, at : o = soRest.obj /\ at = SoTaskAt(o, soRest.name)
      OBVIOUS
    <2>2. o \in 1..Len(so.ids)
      BY <1>1, <1>9, <2>1 DEF SoDelTask, SoRestOK
    <2>3. so.tasks[o] \in Seq(Nat)
      BY <1>1, <2>2 DEF SoTables
    <2>4. at = 0 \/ at \in 1..Len(so.tasks[o])
      BY <2>1, <2>3, SoTaskFound
    <2>5. so' = IF at = 0 THEN so ELSE SoTaskStopped(so, o, at)
      BY <1>9, <2>1 DEF SoDelTask
    <2> QED
      BY <1>2, <2>2, <2>4, <2>5, SoStoppedStaysOut
  <1>10. CASE SoDelObj
    <2>1. PICK at : at = SoObj(soRest.id)
      OBVIOUS
    <2>2. PICK o : o = so.objs[at]
      OBVIOUS
    <2>3. PICK t : t = SoDelAll(so, o)
      OBVIOUS
    <2>4. PICK rest : rest = {so.tasks[o][m] : m \in 2..Len(so.tasks[o])}
      OBVIOUS
    <2>5. so' = IF at = 0 THEN so
                ELSE [t EXCEPT !.objs = RemoveAt(t.objs, at), !.dropped = t.dropped \cup rest]
      BY <1>10, <2>1, <2>2, <2>3, <2>4 DEF SoDelObj
    <2>6. CASE at = 0
      BY <2>5, <2>6
    <2>7. CASE at # 0
      <3>1. o \in 1..Len(so.ids)
        <4>1. at \in 1..Len(so.objs)
          BY <1>1, <2>1, <2>7, SoObjFound DEF SoTables
        <4> QED
          BY <1>1, <2>2, <4>1 DEF SoTables
      <3>2. t \in SoRecord
        BY <1>1, <2>3, <3>1, SoDelAllKeeps
      <3>3. t.state[k] = "stopped"
        <4>1. CASE so.tasks[o] = <<>>
          BY <2>3, <4>1 DEF SoDelAll
        <4>2. CASE so.tasks[o] # <<>>
          <5>1. so.tasks[o] \in Seq(Nat)
            BY <1>1, <3>1 DEF SoTables
          <5>2. 1 \in 1..Len(so.tasks[o])
            BY <4>2, <5>1
          <5>3. t = SoTaskStopped(so, o, 1)
            BY <2>3, <4>2 DEF SoDelAll
          <5> QED
            BY <1>2, <3>1, <5>2, <5>3, SoStoppedStaysOut
        <4> QED
          BY <4>1, <4>2
      <3>4. PICK a, d : a = RemoveAt(t.objs, at) /\ d = t.dropped \cup rest
        OBVIOUS
      <3>5. so' = [t EXCEPT !.objs = a, !.dropped = d]
        BY <2>5, <2>7, <3>4
      <3>6. so'.state = t.state
        BY <3>2, <3>5, ZenonT(30) DEF SoRecord
      <3> QED
        BY <3>3, <3>6
    <2> QED
      BY <2>6, <2>7
  <1>11. CASE SoKeepAlive
    BY <1>2, <1>11, SoStoppedIsNotStarted
  <1>12. CASE \E l \in DOMAIN so.state : SoDies(l)
    <2>1. PICK l \in DOMAIN so.state : SoDies(l)
      BY <1>12
    <2>2. l \in 1..Len(so.names) /\ so.state[l] = "running"
      <3>1. so.state \in Seq(SoTaskState) /\ Len(so.state) = Len(so.names)
        BY <1>1 DEF SoTables
      <3> QED
        BY <2>1, <3>1 DEF SoDies
    <2>3. PICK d \in Nat : d = so.died + 1
      BY <1>1 DEF SoRecord
    <2>4. PICK c \in Seq(SoTaskState) : c = [so.state EXCEPT ![l] = "silent"]
      BY <1>1, <2>2, SoStateSeq
    <2>5. so' = [so EXCEPT !.state = c, !.died = d]
      BY <2>1, <2>3, <2>4 DEF SoDies
    <2>6. so'.state = c
      BY <1>1, <2>5, SoDied
    <2>7. l # k
      BY <2>2
    <2> QED
      BY <2>4, <2>6, <2>7
  <1>13. CASE SoAlgLoaded
    <2>1. so' = [so EXCEPT !.alg = TRUE]
      BY <1>13 DEF SoAlgLoaded
    <2>2. so'.state = so.state
      BY <1>1, <2>1, ZenonT(30) DEF SoRecord
    <2> QED
      BY <2>2
  <1>14. SoNext => \/ \E kind, id, name : SoRequest(kind, id, name)
                   \/ SoRestThread \/ SoManager \/ SoHttpThread
                   \/ \E l \in DOMAIN so.state : SoDies(l)
                   \/ SoAlgLoaded
    BY Zenon DEF SoNext
  <1>15. SoRestThread => so' = so \/ SoPutObj \/ SoPutTask \/ SoDelTask \/ SoDelObj
    BY DEF SoRestThread, SoGetObj, SoGetTask
  <1>16. SoManager => so' = so \/ SoKeepAlive
    BY DEF SoManager, SoPass, SoTraverse
  <1>17. SoHttpThread => so' = so \/ SoHttpPuts \/ SoHttpStarts
    BY DEF SoHttpThread, SoOutputSet, SoHttpWaits
  <1>18. UNCHANGED soVars => so' = so
    BY DEF soVars
  <1> QED
    BY <1>4, <1>5, <1>6, <1>7, <1>8, <1>9, <1>10, <1>11, <1>12, <1>13, <1>14, <1>15, <1>16,
       <1>17, <1>18

\* What a user has stopped stays stopped, although ObjManager restarts whatever is
\* not alive: the task is in no list any more, and in no second one
\* (Object::TraverseTaskQue, Object::DelFromTaskQue).
THEOREM SoStoppedStaysHolds == SoSpec => SoStoppedStays
  <1>1. SoInvariant /\ [SoNext]_soVars =>
          [\A k \in DOMAIN so.state : so.state[k] = "stopped" => so'.state[k] = "stopped"]_soVars
    BY SoStoppedStep
  <1> QED
    BY <1>1, SoInvariantHolds, PTL DEF SoSpec, SoStoppedStays
=============================================================================
