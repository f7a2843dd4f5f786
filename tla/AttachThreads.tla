--------------------------- MODULE AttachThreads ---------------------------
(***************************************************************************)
(* AlgTask::AssignToThreads (src/pipeline.cpp): how the elements of a      *)
(* pipeline are dealt to the threads of a task.  An element feeds every    *)
(* element one of whose inputs has the name of its first output; the walk  *)
(* starts at the element with the input "entry".  AttachToThread calls     *)
(* itself for each of several consumers and follows a single one in a      *)
(* loop; nothing is left to do after such a call returns, so the calls     *)
(* still to make are a list.                                               *)
(*                                                                         *)
(* Elements are numbered along the data flow: the configured pipelines     *)
(* have no cycle.  A cycle would never end the loop.                       *)
(***************************************************************************)
EXTENDS Naturals, FiniteSets, Sequences, SequencesExt, SeqFilter

CONSTANT AtElements   \* bound: the number of elements of a pipeline

ASSUME AtElementsAssumption == AtElements \in Nat \ {0}

VARIABLE
  walk   \* the pipeline and the walk over it

AtEle == 1..AtElements

\* Element 1 is the one with the input "entry" (SearchEntry finds the first).
AtEntry == 1

AtInitial(on) ==
  walk \in [edges : SUBSET {e \in AtEle \X AtEle : on /\ e[1] < e[2]},
          queue : SetToSeqs({e \in AtEle : on}),  \* ele_vec, in the order of the file
          async : SUBSET {e \in AtEle \ {AtEntry} : on},
          flags : {{}},                         \* attach_to_thread is set
          threads : {<<>>},                     \* thread_vec of the task
          cur : {0},                            \* the element the loop stands at
          calls : {IF on THEN <<AtEntry>> ELSE <<>>}]

\* The elements that one feeds.
AtConsumers(ele) == {j \in AtEle : <<ele, j>> \in walk.edges}

\* GetNextEle: in the order of ele_vec.
GetNextEle(ele) == Kept(walk.queue, AtConsumers(ele))

\* Mutant: a call does not look whether its element has a thread already.
AtAttached(ele) == FALSE

\* The early return of AttachToThread.
AtHasThread(ele) == ele \in walk.flags

\* A call for an element that has a thread returns; any other opens a thread.
AtCall ==
  /\ walk.cur = 0 /\ walk.calls # <<>>
  /\ LET first == Head(walk.calls)
     IN  walk' = IF AtHasThread(first)
               THEN [walk EXCEPT !.calls = Tail(@)]
               ELSE [walk EXCEPT !.calls = Tail(@), !.cur = first,
                               !.flags = @ \cup {first},
                               !.threads = Append(@, <<first>>)]

\* tt is the thread opened last: an asynchronous element gets one of its own.
AtPlaced(threads, ele) ==
  IF ele \in walk.async THEN Append(threads, <<ele>>)
  ELSE [threads EXCEPT ![Len(threads)] = Append(@, ele)]

\* The only consumer is attached, whether it has a thread or not.
AtFollow ==
  /\ walk.cur # 0
  /\ Len(GetNextEle(walk.cur)) = 1
  /\ LET ele == GetNextEle(walk.cur)[1]
     IN  walk' = [walk EXCEPT !.cur = ele, !.flags = @ \cup {ele},
                          !.threads = AtPlaced(@, ele)]

\* Several consumers: one call for each; none: the loop ends.
AtBranch ==
  /\ walk.cur # 0
  /\ Len(GetNextEle(walk.cur)) # 1
  /\ walk' = [walk EXCEPT !.cur = 0, !.calls = GetNextEle(walk.cur) \o @]

AtNext == AtCall \/ AtFollow \/ AtBranch

AtSpec == (\E on \in BOOLEAN : AtInitial(on)) /\ [][AtNext]_walk

-----------------------------------------------------------------------------
(* Properties *)

AtDone == walk.cur = 0 /\ walk.calls = <<>>

AtProducers(e) == {p \in AtEle : <<p, e>> \in walk.edges}

\* The elements some thread holds, once for each time they were attached.
AtPlaces(e) ==
  {p \in (DOMAIN walk.threads) \X AtEle :
     p[2] \in DOMAIN walk.threads[p[1]] /\ walk.threads[p[1]][p[2]] = e}

\* Whatever the order of the elements in the configuration, every element
\* that gets data is given to a thread and no other is, and an element whose
\* producers run once runs once when it has one producer or shares all of them
\* with other consumers.  (An element that is the only consumer of one of its
\* several producers may be attached twice, see README.)
AtEveryElementRuns ==
  AtDone /\ walk.threads # <<>> =>
    \A e \in AtEle :
      /\ (AtPlaces(e) # {}) <=>
           (e = AtEntry \/ \E p \in AtProducers(e) : AtPlaces(p) # {})
      /\ /\ \A p \in AtProducers(e) : Cardinality(AtPlaces(p)) <= 1
         /\ \/ Cardinality(AtProducers(e)) = 1
            \/ \A p \in AtProducers(e) : Cardinality(AtConsumers(p)) > 1
         => Cardinality(AtPlaces(e)) <= 1

\* A thread runs a chain: each element is the only consumer of the one before
\* it and is not asynchronous, and an asynchronous one starts a thread, so
\* that an element never waits on its own thread for its input.
AtThreadsAreChains ==
  \A i \in DOMAIN walk.threads : \A j \in 2..Len(walk.threads[i]) :
    LET t == walk.threads[i]
    IN  AtConsumers(t[j - 1]) = {t[j]} /\ t[j] \notin walk.async

\* The threads that AssignToThreads makes hold every element that gets data, each
\* thread as one chain.
AtThreadsRight == AtEveryElementRuns /\ AtThreadsAreChains
=============================================================================
