---------------------------- MODULE HttpFileSource ----------------------------
(***************************************************************************)
(* The http file plugin (httpfile.cpp): server threads put the files that  *)
(* clients post into the queue of the element, whose thread waits for them *)
(* with wait_for and no predicate. HttpStop does nothing, and so a task    *)
(* that is started again finds its port taken.                             *)
(*                                                                         *)
(* http.threads   the server threads that StartServer has got to run       *)
(* http.server[t] what such a thread does, with the frame number it read   *)
(* http.frameId, http.queue   of the HttpServer those threads belong to    *)
(* http.element   where the element's thread is; out is the last frame it  *)
(*                was given; moved tells that it has been given another    *)
(*                HttpServer by a second HttpStart                         *)
(* httpOn         whether a pipeline has such an element at all            *)
(***************************************************************************)
EXTENDS Integers, Sequences, SequencesExt

CONSTANTS
  HttpThreads,    \* the configured number of threads
  HttpQueueLen,   \* queue_len of img
  HttpRequests    \* bound on the files that are posted

VARIABLES http, httpOn
httpVars == <<http, httpOn>>

HttpIdle == [at |-> "idle", frame |-> 0]

HttpInitial ==
  /\ http = [threads |-> 0, server |-> [t \in 1..HttpThreads |-> HttpIdle],
             asked |-> 0, frameId |-> 0, queue |-> <<>>,
             element |-> "none", out |-> 0, moved |-> FALSE]
  /\ httpOn \in BOOLEAN

\* HttpStart: incomplete parameters fail the element. A server that could not bind
\* its port, or start all of its threads, does not.
HttpStart ==
  /\ http.element = "none"
  /\ \/ http' = [http EXCEPT !.element = "null"]
     \/ \E n \in 0..HttpThreads : http' = [http EXCEPT !.threads = n, !.element = "process"]

\* The task ends and is started again: HttpStop leaves server and port as they
\* are, the new HttpServer cannot bind the port and gets no threads.
HttpRestart ==
  /\ http.element = "process" /\ http.threads > 0
  /\ http' = [http EXCEPT !.moved = TRUE]

-----------------------------------------------------------------------------
(* A server thread.                                                        *)

\* HttpRequest: a request that is no multipart post with a head and a file is
\* answered with an error, and nothing else happens.
HttpRequest(t) ==
  /\ t <= http.threads /\ http.server[t].at = "idle" /\ http.asked < HttpRequests
  /\ \E to \in {"idle", "number"} :
       http' = [http EXCEPT !.asked = @ + 1, !.server[t].at = to]

\* ++http->frame_id without a lock: read, then written.
HttpNumber(t) ==
  \/ /\ http.server[t].at = "number"
     /\ http' = [http EXCEPT !.server[t] = [at |-> "write", frame |-> http.frameId + 1]]
  \/ /\ http.server[t].at = "write"
     /\ http' = [http EXCEPT !.frameId = http.server[t].frame, !.server[t].at = "store"]

\* Copy2Queue under the mutex: a file that finds the queue full is dropped, and
\* answered like the others.
HttpStore(t) ==
  /\ http.server[t].at = "store"
  /\ http' = [http EXCEPT
       !.queue = IF Len(@) < HttpQueueLen THEN Append(@, http.server[t].frame) ELSE @,
       !.element = IF @ = "wait" /\ ~http.moved THEN "woken" ELSE @,
       !.server[t] = HttpIdle]

HttpServerThread(t) == HttpNumber(t) \/ HttpStore(t)

-----------------------------------------------------------------------------
(* The element's thread.                                                   *)

\* HttpProcess goes to sleep whether or not there is a packet.
HttpWait ==
  /\ http.element = "process"
  /\ http' = [http EXCEPT !.element = "wait"]

\* Mutant of HttpTimeout: condition.wait.
HttpNoTimeout == http.element = "wait" /\ http' = [http EXCEPT !.element = "wait"]

HttpTimeout ==
  /\ http.element = "wait"
  /\ http' = [http EXCEPT !.element = "woken"]

\* One packet at most; the queue of a second HttpServer is always empty.
HttpTake ==
  /\ http.element = "woken"
  /\ http' = IF http.queue # <<>> /\ ~http.moved
               THEN [http EXCEPT !.element = "process", !.out = Head(http.queue), !.queue = Tail(@)]
               ELSE [http EXCEPT !.element = "process"]

HttpElement == HttpWait \/ HttpTimeout \/ HttpTake

HttpNext ==
  /\ httpOn
  /\ \/ HttpStart \/ HttpRestart \/ HttpElement
     \/ \E t \in 1..HttpThreads : HttpRequest(t) \/ HttpServerThread(t)
  /\ UNCHANGED httpOn

HttpSpec == HttpInitial /\ [][HttpNext]_httpVars

\* Clients post what they like; the threads of the process run, and time passes.
HttpFairness ==
  /\ WF_httpVars(httpOn /\ HttpElement /\ UNCHANGED httpOn)
  /\ \A t \in 1..HttpThreads : WF_httpVars(httpOn /\ HttpServerThread(t) /\ UNCHANGED httpOn)

-----------------------------------------------------------------------------
(* Properties.                                                             *)

\* A file that was queued is processed, although its notification may have come
\* while the element was not waiting: wait_for returns in any case. After a second
\* HttpStart it never is.
HttpServed ==
  \A f \in 1..HttpRequests :
    f \in ToSet(http.queue) ~> (f \notin ToSet(http.queue) \/ http.moved)

\* A step in which the element takes a packet.
HttpGiven == Len(http'.queue) < Len(http.queue)

\* One server thread numbers and queues its files in order: what the element gets
\* is newer than what it got before. Two may give two files one number, and queue
\* them the wrong way round.
HttpInOrder == [][http.threads <= 1 /\ HttpGiven => http'.out > http.out]_httpVars

\* Every file that was queued is processed, and one server thread's in order.
HttpServesInOrder == HttpServed /\ HttpInOrder
==============================================================================
