----------------------------- MODULE WebClient ------------------------------
(***************************************************************************)
(* What the master shows and what the browser makes of it.                 *)
(*                                                                         *)
(* "pages":   the device page of the web client (rtsp.vue), whose calls    *)
(*            are answered in any order, over request_obj_status;          *)
(* "query":   the paged search of captures, request_query_data and         *)
(*            DBQuery;                                                     *)
(* "support": request_task_support, which walks through the slaves while   *)
(*            SlaveThread changes them.                                    *)
(*                                                                         *)
(* The REST server of the master is one thread: a request is one step,     *)
(* except for what it reads without the lock of the thread that writes it. *)
(***************************************************************************)
EXTENDS Integers, Sequences, FiniteSets, SequencesExt, FiniteSetsExt, SeqFilter

CONSTANTS
  WcId,         \* ids of the objects
  WcType,       \* id -> its type
  WcLimit,      \* rows of a page
  WcCalls,      \* bound: calls of the page
  WcOther,      \* bound: changes by other clients
  WcTime,       \* timestamps of captures
  WcDocs,       \* bound: captures
  WcSlave,      \* number of slaves
  WcTaskList    \* what a slave may report as its http file tasks

\* A page has rows, and the table of the slaves is an array.
ASSUME WcAssumption == WcLimit \in Nat \ {0} /\ WcSlave \in Nat

VARIABLE wc

WcPart == {"off", "pages", "query", "support"}

\* A page of the browser is created: initData calls getObjs at once.
WcInitial(on) ==
  wc = [at |-> on,
        objs |-> <<>>,                          \* m_obj_vec
        page |-> 1, count |-> 0, table |-> <<>>, \* currentPage, count, tableData
        calls |-> {[n |-> 1, kind |-> "list", arg |-> 0, row |-> <<>>, ans |-> <<>>]},
        made |-> 1, other |-> 0,
        disturbed |-> FALSE, unseen |-> {},      \* history: see WcQuietTableTrue
        docs |-> <<>>,
        alive |-> [s \in 1..WcSlave |-> FALSE], httpf |-> [s \in 1..WcSlave |-> <<>>],
        writing |-> 0, read |-> 0, urls |-> <<>>]

WcInit == \E on \in WcPart : WcInitial(on)

-----------------------------------------------------------------------------
(* request_obj_status *)

\* Mutant: the page is one row longer than the limit.
WcSliceLong(s, offset) == SubSeq(s, offset + 1, Min({offset + WcLimit + 1, Len(s)}))

\* i = offset; i < offset + limit && i < m_obj_vec.size()
WcSlice(s, offset) == SubSeq(s, offset + 1, Min({offset + WcLimit, Len(s)}))

\* The page is cut out first, and the other types are left out of it then;
\* "total" counts the objects of every type.
WcOfType(type) == {o \in Range(wc.objs) : type = "all" \/ WcType[o.id] = type}
WcObjStatus(type, offset) ==
  [total |-> Len(wc.objs), obj |-> Kept(WcSlice(wc.objs, offset), WcOfType(type))]

\* request_obj_all_id
WcAllId == [i \in DOMAIN wc.objs |-> wc.objs[i].id]

WcIndex(id) == SelectInSeq(wc.objs, LAMBDA o : o.id = id)

-----------------------------------------------------------------------------
(* rtsp.vue *)

WcCall(kind, arg, row) ==
  /\ wc.at = "pages" /\ wc.made < WcCalls
  /\ wc' = [wc EXCEPT
       !.made = @ + 1,
       !.page = IF kind = "list" THEN arg \div WcLimit + 1 ELSE @,
       !.disturbed = @ \/ wc.calls # {},
       !.calls = @ \cup {[n |-> wc.made + 1, kind |-> kind, arg |-> arg, row |-> row, ans |-> <<>>]}]

\* handleCurrentChange: the offset is computed when the button is pressed;
\* updateRtsp loads the same page again.
WcTurn ==
  \E val \in {wc.page} \cup 1..((wc.count + WcLimit - 1) \div WcLimit) :
    WcCall("list", (val - 1) * WcLimit, <<>>)

\* handleStart, handleStop, handleDelete: the row and its place are those of
\* the moment of the click.
WcHandleStart == \E i \in DOMAIN wc.table : wc.table[i].status = 0 /\ WcCall("start", i, wc.table[i])
WcHandleStop == \E i \in DOMAIN wc.table : WcCall("stop", i, wc.table[i])
WcHandleDelete == \E i \in DOMAIN wc.table : WcCall("del", i, wc.table[i])

\* The call, with the answer of the master.
WcReply(c, ans) == (wc.calls \ {c}) \cup {[c EXCEPT !.ans = <<ans>>]}

WcListed(c) ==
  /\ c.kind = "list"
  /\ wc' = [wc EXCEPT !.calls = WcReply(c, WcObjStatus("rtsp", c.arg)), !.unseen = {}]

\* request_start_task: the answer is success for an object that is not there,
\* and for one that HttpStart found no living slave for (status = 0).
WcStarted(c) ==
  LET at == WcIndex(c.row.id)
  IN  /\ c.kind = "start"
      /\ \/ at = 0 /\ wc' = [wc EXCEPT !.calls = WcReply(c, TRUE)]
         \/ /\ at # 0
            /\ \E st \in {0, 1} :
                 wc' = [wc EXCEPT
                   !.calls = WcReply(c, TRUE),
                   !.objs = [@ EXCEPT ![at].status = st],
                   !.unseen = IF st = 1 THEN @ \ {c.row.id} ELSE @ \cup {c.row.id}]

\* request_stop_task: an error without the object, or without the task in its
\* list (which task the row names is left open).
WcStopped(c) ==
  LET at == WcIndex(c.row.id)
  IN  /\ c.kind = "stop"
      /\ \/ wc' = [wc EXCEPT !.calls = WcReply(c, FALSE)]
         \/ /\ at # 0
            /\ wc' = [wc EXCEPT
                 !.calls = WcReply(c, TRUE),
                 !.objs = [@ EXCEPT ![at].status = 0],
                 !.unseen = @ \ {c.row.id}]

\* request_del_obj: success also for an object that is not there.
WcDeleted(c) ==
  LET at == WcIndex(c.row.id)
  IN  /\ c.kind = "del"
      /\ wc' = [wc EXCEPT
           !.calls = WcReply(c, TRUE),
           !.objs = IF at # 0 THEN RemoveAt(@, at) ELSE @]

\* The request reaches the master.
WcServed(c) ==
  /\ wc.at = "pages" /\ c.ans = <<>>
  /\ WcListed(c) \/ WcStarted(c) \/ WcStopped(c) \/ WcDeleted(c)

\* Mutant: the rows of an answer are pushed without emptying the table, as if
\* it had been emptied before the await.
WcRowsPushed(c) ==
  wc.table \o [i \in DOMAIN c.ans[1].obj |->
     [id |-> c.ans[1].obj[i].id, status |-> c.ans[1].obj[i].status, load |-> c.n]]

\* getObjs, behind its await: tableData is a new array of new rows.
WcRows(c) ==
  [i \in DOMAIN c.ans[1].obj |->
     [id |-> c.ans[1].obj[i].id, status |-> c.ans[1].obj[i].status, load |-> c.n]]

\* row.status = ..: the row that was clicked, shown or not.
WcRowSet(c, status) ==
  [i \in DOMAIN wc.table |->
     IF wc.table[i].id = c.row.id /\ wc.table[i].load = c.row.load
     THEN [wc.table[i] EXCEPT !.status = status] ELSE wc.table[i]]

\* tableData.splice(index, 1)
WcSplice(t, i) == IF i \in DOMAIN t THEN RemoveAt(t, i) ELSE t

\* The answer reaches the browser, where the await goes on.
WcApply(c) ==
  /\ wc.at = "pages" /\ c.ans # <<>>
  /\ wc' = [wc EXCEPT
       !.calls = @ \ {c},
       !.count = IF c.kind = "list" THEN c.ans[1].total ELSE @,
       !.table = CASE c.kind = "list" -> WcRows(c)
                   [] c.kind = "start" /\ c.ans[1] -> WcRowSet(c, 1)
                   [] c.kind = "stop" /\ c.ans[1] -> WcRowSet(c, 0)
                   [] c.kind = "del" /\ c.ans[1] -> WcSplice(@, c.arg)
                   [] OTHER -> @]

\* fetch fails, before or after the master has carried out the request.
WcFails(c) ==
  /\ wc.at = "pages"
  /\ wc' = [wc EXCEPT !.calls = @ \ {c}, !.disturbed = TRUE]

\* Another client adds or deletes an object.
WcOtherAdds(id) ==
  /\ wc.at = "pages" /\ wc.other < WcOther
  /\ WcIndex(id) = 0
  /\ wc' = [wc EXCEPT !.objs = Append(@, [id |-> id, status |-> 0]), !.other = @ + 1]

WcOtherDels(id) ==
  /\ wc.at = "pages" /\ wc.other < WcOther
  /\ WcIndex(id) # 0
  /\ wc' = [wc EXCEPT !.objs = RemoveAt(@, WcIndex(id)), !.other = @ + 1, !.disturbed = TRUE]

\* Another client starts or stops a task of the object, or ObjThread moves it:
\* UpdateObjTask finds a slave (HttpStart: 1) or none (0).
WcOtherStatus(id) ==
  /\ wc.at = "pages" /\ wc.other < WcOther
  /\ WcIndex(id) # 0
  /\ \E st \in {0, 1} :
       wc' = [wc EXCEPT
         !.objs = [@ EXCEPT ![WcIndex(id)].status = st],
         !.unseen = @ \cup {id}, !.other = @ + 1]

WcPages ==
  \/ WcTurn \/ WcHandleStart \/ WcHandleStop \/ WcHandleDelete
  \/ \E c \in wc.calls : WcServed(c) \/ WcApply(c) \/ WcFails(c)
  \/ \E id \in WcId : WcOtherAdds(id) \/ WcOtherDels(id) \/ WcOtherStatus(id)

-----------------------------------------------------------------------------
(* request_query_data *)

WcSelected(from, to, ids) ==
  Kept(wc.docs, {d \in Range(wc.docs) : d.time >= from /\ d.time <= to /\ d.id \in ids})

\* DBQuery: skip and limit count only when both are given; a missing one is -1.
WcDBQuery(sel, skip, limit) ==
  IF skip < 0 \/ limit < 0 THEN sel
  ELSE SubSeq(sel, skip + 1, Min({skip + limit, Len(sel)}))

\* A capture is stored by the receiver of the messages.
WcCapture ==
  /\ wc.at = "query" /\ Len(wc.docs) < WcDocs
  /\ \E id \in WcId, t \in WcTime : wc' = [wc EXCEPT !.docs = Append(@, [id |-> id, time |-> t])]

-----------------------------------------------------------------------------
(* request_task_support, of one http file task, against SlaveThread *)

WcTaskName == "task"

\* SlaveThread, UpdateSlaveStatus: the slave answers or does not.
WcProbe(s) ==
  /\ wc.at = "support" /\ wc.writing = 0
  /\ wc' = [wc EXCEPT !.alive[s] = ~@]

\* SetHttpfileTask: httpf_task.clear(), and then the pushes.
WcClear(s) ==
  /\ wc.at = "support" /\ wc.writing = 0
  /\ wc' = [wc EXCEPT !.writing = s, !.httpf[s] = <<>>]

WcPush(s, list) ==
  /\ wc.at = "support" /\ wc.writing = s
  /\ wc' = [wc EXCEPT !.writing = 0, !.httpf[s] = list, !.alive[s] = TRUE]

\* The entries that are written to _url: the first one with that name.
WcUrlsOf(list) == IF WcTaskName \in Range(list) THEN <<WcTaskName>> ELSE <<>>

\* for j over m_slave_vec, without m_slave_mtx: a list that is being written
\* may be seen at any stage.
WcReadSlave ==
  /\ wc.at = "support" /\ wc.read < WcSlave
  /\ LET s == wc.read + 1
     IN  \E list \in {wc.httpf[s]} \cup (IF wc.writing = s THEN WcTaskList ELSE {}) :
           wc' = [wc EXCEPT
             !.read = s,
             !.urls = IF wc.alive[s] THEN @ \o [i \in DOMAIN WcUrlsOf(list) |-> s] ELSE @]

\* The next request.
WcAnswered ==
  /\ wc.at = "support" /\ wc.read = WcSlave
  /\ wc' = [wc EXCEPT !.read = 0, !.urls = <<>>]

WcSupport ==
  \/ \E s \in 1..WcSlave : WcProbe(s) \/ WcClear(s) \/ \E list \in WcTaskList : WcPush(s, list)
  \/ WcReadSlave \/ WcAnswered

WcNext == WcPages \/ WcCapture \/ WcSupport

WcSpec == WcInit /\ [][WcNext]_wc

-----------------------------------------------------------------------------
(* Properties *)

\* What is shown are the rows of one answer, however many calls overtook each
\* other: no device twice and no more rows than a page has (getObjs replaces
\* tableData behind its await).
WcRowsOfOneLoad ==
  /\ Len(wc.table) <= WcLimit
  /\ \A i, j \in DOMAIN wc.table :
       /\ wc.table[i].load = wc.table[j].load
       /\ wc.table[i].id = wc.table[j].id => i = j

\* A user who waits for every answer, and whom nobody disturbs by deleting,
\* sees what is there, although handleStart, handleStop and handleDelete only
\* edit the table they clicked on: every row is a device of the master, and
\* has its status, unless the master changed that by itself, for another
\* client or in a start that failed (unseen), after the page, or a start or
\* stop of that row, was last answered (rtsp.vue, request_obj_status).
WcQuietTableTrue ==
  wc.at = "pages" /\ wc.calls = {} /\ ~wc.disturbed =>
    \A i \in DOMAIN wc.table :
      LET at == WcIndex(wc.table[i].id)
      IN  /\ at # 0
          /\ wc.table[i].id \notin wc.unseen => wc.objs[at].status = wc.table[i].status

\* Turning the pages up to "total" shows every object of the type once, in
\* the order of m_obj_vec, though a page may be short or empty; the ids of
\* request_obj_all_id are the same objects.
WcPagesComplete ==
  wc.at = "pages" =>
    \A type \in {WcType[id] : id \in WcId} \cup {"all"} :
      LET last == (WcObjStatus(type, 0).total + WcLimit - 1) \div WcLimit
      IN  FlattenSeq([p \in 1..last |-> WcObjStatus(type, (p - 1) * WcLimit).obj])
            = Kept([i \in DOMAIN wc.objs |-> wc.objs[WcIndex(WcAllId[i])]], WcOfType(type))

\* The pages of a search are the captures selected, each once, for as many
\* pages as the count of the same selection says; without skip and limit the
\* answer is the whole of it (DBQuery).
WcQueryComplete ==
  wc.at = "query" =>
    \A from, to \in WcTime, ids \in SUBSET WcId :
      LET sel == WcSelected(from, to, ids)
          last == (Len(sel) + WcLimit - 1) \div WcLimit
      IN  /\ FlattenSeq([p \in 1..last |-> WcDBQuery(sel, (p - 1) * WcLimit, WcLimit)]) = sel
          /\ WcDBQuery(sel, -1, WcLimit) = sel

\* request_task_support never writes more urls than the array on its stack
\* has places, one for each slave, whatever SlaveThread does meanwhile.
WcUrlsFit ==
  /\ Len(wc.urls) <= WcSlave
  /\ \A i, j \in DOMAIN wc.urls : wc.urls[i] = wc.urls[j] => i = j

\* What the page shows is one answer, and true as long as nobody disturbs it.
WcTableTrue == WcRowsOfOneLoad /\ WcQuietTableTrue

\* The pages of a query are the whole of what it selects, and no answer is larger
\* than the memory for it (master.cpp, db.cpp).
WcAnswersComplete == WcPagesComplete /\ WcQueryComplete /\ WcUrlsFit
=============================================================================
