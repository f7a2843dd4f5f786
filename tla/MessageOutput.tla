----------------------------- MODULE MessageOutput -----------------------------
(***************************************************************************)
(* The message output plugin (rabbitmq.cpp). All elements of this type in  *)
(* a process share one connection, mq.conn, under one mutex, mq.mtx, which *)
(* the first MqInit initialises. A message that could not be sent is sent  *)
(* once more over a new connection.                                        *)
(*                                                                         *)
(* mqThread[t]  the thread of an element: where it is, the message it      *)
(*              sends (they are numbered) and whether it is the second try *)
(* mq           Rabbitmq: init, params (set by the first MqInit), conn     *)
(*              ("null" or "open"), mtx (its holder); broker is "up",      *)
(*              "away" (a call fails) or "hung" (it takes connections and  *)
(*              does not answer), received what it got; broken tells that  *)
(*              the mutex was initialised while a thread held it           *)
(***************************************************************************)
EXTENDS Integers, Sequences

CONSTANTS
  MqThread,     \* the threads with such an element
  MqMessages,   \* bound on the messages of each
  MqOutages     \* bound on the failures of the broker or the network

\* "free" is nobody: the value of the mutex that no thread holds.
ASSUME MqAssumption == "free" \notin MqThread /\ MqMessages \in Nat /\ MqOutages \in Nat

VARIABLES mq, mqThread
mqVars == <<mq, mqThread>>

MqInitial ==
  /\ \E on \in BOOLEAN :
       mq = [on |-> on, init |-> FALSE, params |-> FALSE, conn |-> "null", mtx |-> "free",
             broken |-> FALSE, broker |-> "up", outages |-> 0, received |-> <<>>]
  /\ mqThread = [t \in MqThread |-> [at |-> "none", msg |-> 0, again |-> FALSE]]

MqGo(t, to) == mqThread' = [mqThread EXCEPT ![t].at = to]

-----------------------------------------------------------------------------

\* MqInit: the first one counts itself before it has read its parameters, and the
\* others take that for all they need. When it fails and the task is started again,
\* its next MqInit is one of the others, and there are no parameters ever.
MqInit(t) ==
  /\ mqThread[t].at \in {"none", "failed"}
  /\ mq' = [mq EXCEPT !.init = TRUE]
  /\ MqGo(t, IF ~mq.init THEN "params" ELSE "idle")

\* Its parameters are copied, or refused, which fails the element.
MqParams(t) ==
  /\ mqThread[t].at = "params"
  /\ \/ mq' = [mq EXCEPT !.params = TRUE] /\ MqGo(t, "mutex")
     \/ UNCHANGED mq /\ MqGo(t, "failed")

\* pthread_mutex_init, whoever holds the mutex.
MqMutexInit(t) ==
  /\ mqThread[t].at = "mutex"
  /\ mq' = [mq EXCEPT !.mtx = "free", !.broken = @ \/ mq.mtx # "free"]
  /\ MqGo(t, "idle")

\* MqProcess is called with a packet.
MqProcess(t) ==
  /\ mqThread[t].at = "idle" /\ mqThread[t].msg < MqMessages
  /\ mqThread' = [mqThread EXCEPT ![t] = [at |-> "lock", msg |-> @.msg + 1, again |-> FALSE]]
  /\ UNCHANGED mq

\* It takes the mutex; MqSend opens a connection first if there is none.
MqLock(t) ==
  /\ mqThread[t].at = "lock" /\ mq.mtx = "free"
  /\ mq' = [mq EXCEPT !.mtx = t]
  /\ MqGo(t, IF mq.conn = "null" THEN "open" ELSE "publish")

\* MqOpenConnect succeeds with a broker that answers and parameters that are set.
\* A failure loses the message; on the second try MqSend looks at mq.conn. Only
\* amqp_socket_open_noblock has a timeout: the login waits for a broker that hangs.
MqOpen(t) ==
  /\ mqThread[t].at = "open"
  /\ \/ /\ mq.broker = "up" /\ mq.params
        /\ mq' = [mq EXCEPT !.conn = "open"]
        /\ MqGo(t, "publish")
     \/ /\ mq.broker = "away" \/ ~mq.params
        /\ UNCHANGED mq
        /\ MqGo(t, IF mqThread[t].again /\ mq.conn # "null" THEN "publish" ELSE "unlock")

\* amqp_basic_publish: the broker gets the message, or it is lost in a buffer of a
\* connection that is broken, or the call fails, with or without the message
\* having arrived. A broker that hangs may get it later or not, and the call may
\* not return before the broker reads again.
MqPublish(t) ==
  /\ mqThread[t].at = "publish"
  /\ \/ mq.broker # "away" /\ mq' = [mq EXCEPT !.received = Append(@, [from |-> t, msg |-> mqThread[t].msg])]
     \/ mq.broker # "up" /\ UNCHANGED mq
  /\ MqGo(t, "unlock")

MqPublishFails(t) ==
  /\ mqThread[t].at = "publish" /\ mq.outages < MqOutages
  /\ \E arrived \in BOOLEAN :
       /\ arrived => mq.broker # "away"
       /\ mq' = [mq EXCEPT
            !.outages = @ + 1,
            !.received = IF arrived THEN Append(@, [from |-> t, msg |-> mqThread[t].msg]) ELSE @]
  /\ MqGo(t, IF mqThread[t].again THEN "unlock" ELSE "close")

\* Mutant of MqClose: mq.conn is not set to NULL.
MqCloseNot(t) ==
  /\ mqThread[t].at = "close" /\ mq.broker # "hung"
  /\ mq' = [mq EXCEPT !.conn = "destroyed"]
  /\ mqThread' = [mqThread EXCEPT ![t].at = "open", ![t].again = TRUE]

\* MqCloseConnect, which waits for the answers to its two calls, and a second
\* connection.
MqClose(t) ==
  /\ mqThread[t].at = "close" /\ mq.broker # "hung"
  /\ mq' = [mq EXCEPT !.conn = "null"]
  /\ mqThread' = [mqThread EXCEPT ![t].at = "open", ![t].again = TRUE]

\* Mutant of MqUnlock: a failed send returns with the mutex held.
MqUnlockSent(t) ==
  /\ mqThread[t].at = "unlock"
  /\ mq' = [mq EXCEPT !.mtx = IF mq.conn = "open" THEN "free" ELSE @]
  /\ MqGo(t, "idle")

MqUnlock(t) ==
  /\ mqThread[t].at = "unlock"
  /\ mq' = [mq EXCEPT !.mtx = "free"]
  /\ MqGo(t, "idle")

\* The broker, or the way to it, goes away or hangs, and comes back.
MqBroker ==
  \/ /\ mq.broker = "up" /\ mq.outages < MqOutages
     /\ \E to \in {"away", "hung"} :
          mq' = [mq EXCEPT !.broker = to, !.outages = @ + 1]
     /\ UNCHANGED mqThread
  \/ /\ mq.broker # "up"
     /\ mq' = [mq EXCEPT !.broker = "up"]
     /\ UNCHANGED mqThread

MqSend(t) ==
  \/ MqParams(t) \/ MqMutexInit(t) \/ MqOpen(t) \/ MqPublish(t) \/ MqPublishFails(t)
  \/ MqClose(t) \/ MqUnlock(t)

MqNext ==
  /\ mq.on
  /\ MqBroker \/ \E t \in MqThread : MqInit(t) \/ MqProcess(t) \/ MqLock(t) \/ MqSend(t)

MqSpec == MqInitial /\ [][MqNext]_mqVars

\* The threads run, and a call of the library returns unless the broker hangs. A mutex
\* that is free again and again is got at last.
MqReturning(t) ==
  MqSend(t) /\ (mqThread[t].at \in {"open", "publish", "close"} => mq.broker # "hung")

MqFairness ==
  \A t \in MqThread : /\ WF_mqVars(mq.on /\ MqReturning(t))
                      /\ SF_mqVars(mq.on /\ MqLock(t))

-----------------------------------------------------------------------------
(* Properties.                                                             *)

MqSending(t) == mqThread[t].at \in {"open", "publish", "close", "unlock"}

\* The shared connection is used by one element at a time, unless another element
\* sent before the first MqInit had come to its pthread_mutex_init.
MqOneSender ==
  ~mq.broken => \A t, u \in MqThread : MqSending(t) /\ MqSending(u) => t = u

\* No message is published over a connection that was destroyed or never made,
\* also not by the next element after one that could not connect again.
MqPublishConnected ==
  ~mq.broken => \A t \in MqThread : mqThread[t].at = "publish" => mq.conn = "open"

\* The results of an element arrive in order, over reconnections and repetitions;
\* a message arrives twice at most, next to itself.
MqReceivedInOrder ==
  \A i, j \in 1..Len(mq.received) :
    i < j /\ mq.received[i].from = mq.received[j].from =>
      /\ mq.received[i].msg <= mq.received[j].msg
      /\ mq.received[i].msg = mq.received[j].msg => j = i + 1 \/ mq.broken

\* An element is not stuck in its output unless the broker hangs for ever: MqProcess
\* gets the mutex and returns however often the broker goes, hangs and comes back, and
\* whether or not the element before it could send.
MqReturns ==
  []<>(mq.broker # "hung") =>
    \A t \in MqThread : (mqThread[t].at = "lock" \/ MqSending(t)) ~> mqThread[t].at = "idle"

\* One sender at a time, over a connection that is open, and results in order
\* (MqProcess, over all its reconnections).
MqSafe == MqOneSender /\ MqPublishConnected /\ MqReceivedInOrder
==============================================================================
