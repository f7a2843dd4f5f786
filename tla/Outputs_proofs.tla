--------------------------- MODULE Outputs_proofs ----------------------------
(***************************************************************************)
(* The two outputs of a task: the shared connection of the message output  *)
(* elements (MessageOutput), for any threads, any number of messages and   *)
(* any outages, and the segments of a preview (Preview); and the pictures  *)
(* on their way to and from an encoder, of every even size: the conversion *)
(* of their colours (Pixels), and what is drawn into them (Overlay).       *)
(***************************************************************************)
EXTENDS MessageOutput, Preview, Pixels, Overlay, FiniteSetTheorems, TLAPS

-----------------------------------------------------------------------------
(* The message output.                                                     *)
(*                                                                         *)
(* One sender at a time because who sends holds the mutex (MqHeld).  A     *)
(* message arrives twice at most, next to itself, because a thread sends   *)
(* a message that has arrived only in its second try (MqArrived), and      *)
(* between its two tries it does not let go of the mutex.                  *)

MqPlace ==
  {"none", "failed", "params", "mutex", "idle", "lock", "open", "publish", "close", "unlock"}
MqBrokerState == {"up", "away", "hung"}
MqEntry == [from : MqThread, msg : Nat]

MqTypeOK ==
  /\ mq \in [on : BOOLEAN, init : BOOLEAN, params : BOOLEAN, conn : {"null", "open"},
             mtx : MqThread \cup {"free"}, broken : BOOLEAN, broker : MqBrokerState, outages : Nat,
             received : Seq(MqEntry)]
  /\ mqThread \in [MqThread -> [at : MqPlace, msg : Nat, again : BOOLEAN]]

\* Who sends holds the mutex.
MqHeld == ~mq.broken => \A t \in MqThread : MqSending(t) => mq.mtx = t

\* A thread that waits for the mutex is in its first try.
MqFirstTry == \A t \in MqThread : mqThread[t].at = "lock" => ~mqThread[t].again

\* The message of t has not arrived: it is in its first try and has not published.
MqFresh(t) ==
  \/ mqThread[t].at = "lock"
  \/ mqThread[t].at \in {"open", "publish"} /\ ~mqThread[t].again

\* The message of t may have arrived once: its first try has failed.
MqOnce(t) ==
  \/ mqThread[t].at = "close"
  \/ mqThread[t].at \in {"open", "publish"} /\ mqThread[t].again

\* What has arrived from a thread is not newer than its message, older than one it
\* has not published, and the last of all when it is to be published again.
MqArrived ==
  \A t \in MqThread, i \in 1..Len(mq.received) :
    mq.received[i].from = t =>
      /\ mq.received[i].msg <= mqThread[t].msg
      /\ MqFresh(t) => mq.received[i].msg < mqThread[t].msg
      /\ MqOnce(t) /\ mq.received[i].msg = mqThread[t].msg
           => i = Len(mq.received) \/ mq.broken

MqInvariant ==
  /\ MqTypeOK /\ MqHeld /\ MqFirstTry
  /\ MqPublishConnected /\ MqArrived /\ MqReceivedInOrder

-----------------------------------------------------------------------------
(* The records: what an assignment to some of their fields leaves alone *)

MqRecord ==
  [on : BOOLEAN, init : BOOLEAN, params : BOOLEAN, conn : {"null", "open"},
   mtx : MqThread \cup {"free"}, broken : BOOLEAN, broker : MqBrokerState, outages : Nat,
   received : Seq(MqEntry)]
MqThreadRecord == [at : MqPlace, msg : Nat, again : BOOLEAN]

\* A thread goes on with the same message.
LEMMA MqGoes ==
  ASSUME MqTypeOK, NEW t \in MqThread, NEW to \in MqPlace, MqGo(t, to)
  PROVE  /\ mqThread' \in [MqThread -> MqThreadRecord]
         /\ mqThread[t]'.at = to
         /\ \A u \in MqThread : u # t => mqThread[u]' = mqThread[u]
         /\ \A u \in MqThread :
              mqThread[u]'.msg = mqThread[u].msg /\ mqThread[u]'.again = mqThread[u].again
  BY ZenonT(30) DEF MqTypeOK, MqGo, MqThreadRecord

\* The mutex changes hands.
LEMMA MqMutexSet ==
  ASSUME NEW m \in MqRecord, NEW x \in MqThread \cup {"free"}
  PROVE  LET n == [m EXCEPT !.mtx = x]
         IN n \in MqRecord /\ n.mtx = x /\ n.broken = m.broken /\ n.conn = m.conn
              /\ n.received = m.received
  BY ZenonT(30) DEF MqRecord

\* The connection is made or destroyed.
LEMMA MqConnSet ==
  ASSUME NEW m \in MqRecord, NEW x \in {"null", "open"}
  PROVE  LET n == [m EXCEPT !.conn = x]
         IN n \in MqRecord /\ n.mtx = m.mtx /\ n.broken = m.broken /\ n.conn = x
              /\ n.received = m.received
  BY ZenonT(30) DEF MqRecord

\* The broker gets a message.
LEMMA MqReceivedSet ==
  ASSUME NEW m \in MqRecord, NEW x \in Seq(MqEntry), NEW k \in Nat
  PROVE  LET n == [m EXCEPT !.outages = k, !.received = x]
             p == [m EXCEPT !.received = x]
         IN /\ n \in MqRecord /\ n.mtx = m.mtx /\ n.broken = m.broken /\ n.conn = m.conn
            /\ n.received = x
            /\ p \in MqRecord /\ p.mtx = m.mtx /\ p.broken = m.broken /\ p.conn = m.conn
            /\ p.received = x
  BY ZenonT(30) DEF MqRecord

\* What the mutex, the connection and the messages have nothing to do with.
LEMMA MqOtherSet ==
  ASSUME NEW m \in MqRecord, NEW n,
         \/ n = m
         \/ n = [m EXCEPT !.init = TRUE]
         \/ n = [m EXCEPT !.params = TRUE]
         \/ n = [m EXCEPT !.broker = "up"]
         \/ \E k \in Nat, to \in MqBrokerState : n = [m EXCEPT !.broker = to, !.outages = k]
  PROVE  n \in MqRecord /\ n.mtx = m.mtx /\ n.broken = m.broken /\ n.conn = m.conn
           /\ n.received = m.received
  <1>1. CASE n = [m EXCEPT !.init = TRUE]
    BY <1>1, ZenonT(30) DEF MqRecord
  <1>2. CASE n = [m EXCEPT !.params = TRUE]
    BY <1>2, ZenonT(30) DEF MqRecord
  <1>3. CASE n = [m EXCEPT !.broker = "up"]
    <2>1. "up" \in MqBrokerState
      BY DEF MqBrokerState
    <2> QED
      BY <1>3, <2>1, ZenonT(30) DEF MqRecord
  <1>4. ASSUME NEW k \in Nat, NEW to \in MqBrokerState, n = [m EXCEPT !.broker = to, !.outages = k]
        PROVE  n \in MqRecord /\ n.mtx = m.mtx /\ n.broken = m.broken /\ n.conn = m.conn
                 /\ n.received = m.received
    BY <1>4, ZenonT(30) DEF MqRecord
  <1> QED
    BY <1>1, <1>2, <1>3, <1>4

-----------------------------------------------------------------------------
(* The messages that have arrived *)

\* No message arrives, and no thread is where its message may have arrived, or must
\* not have arrived, that was not there before.
LEMMA MqArrivedStays ==
  ASSUME MqTypeOK, MqArrived, MqReceivedInOrder,
         mq'.received = mq.received, mq.broken => mq'.broken,
         \A u \in MqThread : /\ mqThread[u]'.msg = mqThread[u].msg
                             /\ MqFresh(u)' => MqFresh(u)
                             /\ MqOnce(u)' => MqOnce(u)
  PROVE  MqArrived' /\ MqReceivedInOrder'
  <1>1. MqReceivedInOrder'
    BY DEF MqReceivedInOrder
  <1>2. MqArrived'
    BY DEF MqArrived
  <1> QED
    BY <1>1, <1>2

\* Messages are numbered.
LEMMA MqNumbers ==
  ASSUME MqTypeOK, NEW i \in 1..Len(mq.received)
  PROVE  mq.received[i].msg \in Nat
  <1>1. mq.received \in Seq(MqEntry)
    BY DEF MqTypeOK
  <1>2. mq.received[i] \in MqEntry
    BY <1>1
  <1> QED
    BY <1>2 DEF MqEntry

\* The broker gets the message of t, which is at its second try or was not published
\* yet, while t holds the mutex.  What t does next is no third try.
LEMMA MqArrivedNext ==
  ASSUME MqTypeOK, MqHeld, MqArrived, MqReceivedInOrder,
         NEW t \in MqThread, mqThread[t].at = "publish",
         mq'.received = Append(mq.received, [from |-> t, msg |-> mqThread[t].msg]),
         mq'.broken = mq.broken,
         \A u \in MqThread : u # t => mqThread[u]' = mqThread[u],
         mqThread[t]'.msg = mqThread[t].msg, ~MqFresh(t)',
         MqOnce(t)' => ~mqThread[t].again
  PROVE  MqArrived' /\ MqReceivedInOrder'
  <1> DEFINE n == Len(mq.received)
             now == [from |-> t, msg |-> mqThread[t].msg]
  <1>1. mq.received \in Seq(MqEntry) /\ n \in Nat /\ mqThread[t].msg \in Nat
    BY DEF MqTypeOK
  <1>2. now \in MqEntry
    BY <1>1 DEF MqEntry
  <1>3. Len(mq'.received) = n + 1 /\ mq'.received[n + 1] = now
    BY <1>1, <1>2
  <1>4. \A i \in 1..n : mq'.received[i] = mq.received[i] /\ mq.received[i] \in MqEntry
    BY <1>1, <1>2
  <1>5. \A i \in 1..n + 1 : i \in 1..n \/ i = n + 1
    BY <1>1
  <1>6. ASSUME NEW u \in MqThread, u # t
        PROVE  /\ mqThread[u]'.msg = mqThread[u].msg
               /\ MqFresh(u)' => MqFresh(u)
               /\ MqOnce(u)' => mq.broken
    <2>1. MqOnce(u)' => MqSending(u)
      BY <1>6 DEF MqOnce, MqSending
    <2>2. MqSending(t)
      BY DEF MqSending
    <2>3. MqSending(u) => mq.broken
      BY <1>6, <2>2 DEF MqHeld
    <2> QED
      BY <1>6, <2>1, <2>3 DEF MqFresh
  <1>7. ASSUME NEW i \in 1..n, mq.received[i].from = t
        PROVE  /\ mq.received[i].msg <= now.msg
               /\ ~mqThread[t].again => mq.received[i].msg < now.msg
               /\ mq.received[i].msg = now.msg => i = n \/ mq.broken
    <2>1. mq.received[i].msg <= mqThread[t].msg
      BY <1>7 DEF MqArrived
    <2>2. ~mqThread[t].again => mq.received[i].msg < mqThread[t].msg
      BY <1>7 DEF MqArrived, MqFresh
    <2>3. mqThread[t].again /\ mq.received[i].msg = mqThread[t].msg => i = n \/ mq.broken
      BY <1>7 DEF MqArrived, MqOnce
    <2>4. mq.received[i].msg \in Nat /\ now.msg = mqThread[t].msg
      BY <1>4 DEF MqEntry
    <2>5. mq.received[i].msg = mqThread[t].msg => i = n \/ mq.broken
      BY <1>1, <2>2, <2>3, <2>4
    <2> QED
      BY <2>1, <2>2, <2>4, <2>5
  <1>8. MqArrived'
    <2> DEFINE Good(u, i) ==
           /\ mq'.received[i].msg <= mqThread[u]'.msg
           /\ MqFresh(u)' => mq'.received[i].msg < mqThread[u]'.msg
           /\ MqOnce(u)' /\ mq'.received[i].msg = mqThread[u]'.msg => i = n + 1 \/ mq'.broken
    <2>1. ASSUME NEW u \in MqThread, NEW i \in 1..n, mq.received[i].from = u PROVE Good(u, i)
      <3>1. CASE u = t
        <4>1. ~MqFresh(u)' /\ mq.received[i].msg <= mqThread[u]'.msg
          BY <1>7, <2>1, <3>1
        <4>2. MqOnce(u)' => mq.received[i].msg < mqThread[u]'.msg
          BY <1>7, <2>1, <3>1
        <4>3. mq.received[i].msg \in Nat /\ mqThread[u]'.msg \in Nat
          BY <1>1, <1>4, <3>1 DEF MqEntry
        <4> QED
          BY <1>4, <4>1, <4>2, <4>3
      <3>2. CASE u # t
        <4>1. mq.received[i].msg <= mqThread[u].msg
              /\ (MqFresh(u) => mq.received[i].msg < mqThread[u].msg)
          BY <2>1 DEF MqArrived
        <4> QED
          BY <1>4, <1>6, <3>2, <4>1
      <3> QED
        BY <3>1, <3>2
    <2>2. ASSUME NEW u \in MqThread, u = t PROVE Good(u, n + 1)
      BY <1>1, <1>3, <2>2
    <2>3. ASSUME NEW u \in MqThread, NEW i \in 1..n + 1, mq'.received[i].from = u
          PROVE  Good(u, i)
      BY <1>3, <1>4, <1>5, <2>1, <2>2, <2>3
    <2> HIDE DEF n
    <2> QED
      BY <1>3, <2>3 DEF MqArrived
  <1>9. MqReceivedInOrder'
    <2> SUFFICES ASSUME NEW i \in 1..n + 1, NEW j \in 1..n + 1, i < j,
                        mq'.received[i].from = mq'.received[j].from
                 PROVE  /\ mq'.received[i].msg <= mq'.received[j].msg
                        /\ mq'.received[i].msg = mq'.received[j].msg => j = i + 1 \/ mq'.broken
      BY <1>3 DEF MqReceivedInOrder
    <2>1. i \in 1..n
      BY <1>1
    <2>2. CASE j \in 1..n
      <3>1. mq.received[i].from = mq.received[j].from
        BY <1>4, <2>1, <2>2
      <3>2. /\ mq.received[i].msg <= mq.received[j].msg
            /\ mq.received[i].msg = mq.received[j].msg => j = i + 1 \/ mq.broken
        BY <2>1, <2>2, <3>1 DEF MqReceivedInOrder
      <3> QED
        BY <1>4, <2>1, <2>2, <3>2
    <2>3. CASE j = n + 1
      <3>1. mq.received[i].from = t
        BY <1>3, <1>4, <2>1, <2>3
      <3> QED
        BY <1>3, <1>4, <1>7, <2>1, <2>3, <3>1
    <2> QED
      BY <1>5, <2>2, <2>3
  <1> QED
    BY <1>8, <1>9

-----------------------------------------------------------------------------
(* The mutex *)

\* The mutex and who sends stay, or t, which has the mutex or is not sending then,
\* is the only one that goes on.
LEMMA MqHeldStays ==
  ASSUME MqHeld, mq.broken => mq'.broken, NEW t \in MqThread,
         \A u \in MqThread : u # t => mqThread[u]' = mqThread[u],
         \/ mq'.mtx = mq.mtx /\ (MqSending(t)' => MqSending(t))
         \/ mq.mtx \notin MqThread /\ mq'.mtx = t
         \/ ~MqSending(t)' /\ (mq.mtx = t \/ mq.mtx \notin MqThread \/ mq'.broken)
  PROVE  MqHeld'
  <1>1. ASSUME NEW u \in MqThread, u # t PROVE MqSending(u)' => MqSending(u)
    BY <1>1 DEF MqSending
  <1> SUFFICES ASSUME ~mq'.broken, NEW u \in MqThread, MqSending(u)'
               PROVE  mq'.mtx = u
    BY DEF MqHeld
  <1>2. CASE u = t
    BY <1>2 DEF MqHeld
  <1>3. CASE u # t
    <2>1. MqSending(u) /\ mq.mtx = u
      BY <1>1, <1>3 DEF MqHeld
    <2> QED
      BY <1>3, <2>1
  <1> QED
    BY <1>2, <1>3

-----------------------------------------------------------------------------
(* The steps *)

\* A step in which no message arrives and no thread changes its message.
LEMMA MqQuietStep ==
  ASSUME MqInvariant, NEW t \in MqThread, NEW to \in MqPlace, MqGo(t, to),
         mq' \in MqRecord, mq'.received = mq.received, mq.broken => mq'.broken,
         to # "lock",
         to \in {"open", "publish"} => mqThread[t].at \in {"lock", "open", "publish"},
         to = "close" => mqThread[t].at = "close",
         \/ mq'.mtx = mq.mtx /\ (MqSending(t)' => MqSending(t))
         \/ mq.mtx \notin MqThread /\ mq'.mtx = t
         \/ ~MqSending(t)' /\ (mq.mtx = t \/ mq.mtx \notin MqThread \/ mq'.broken),
         to = "publish" => mq'.conn = "open",
         mq'.conn = mq.conn \/ mq'.conn = "open"
  PROVE  MqInvariant'
  <1>1. /\ mqThread' \in [MqThread -> MqThreadRecord]
        /\ mqThread[t]'.at = to
        /\ \A u \in MqThread : u # t => mqThread[u]' = mqThread[u]
        /\ \A u \in MqThread :
             mqThread[u]'.msg = mqThread[u].msg /\ mqThread[u]'.again = mqThread[u].again
    BY MqGoes DEF MqInvariant
  <1>2. MqTypeOK'
    BY <1>1 DEF MqTypeOK, MqRecord, MqThreadRecord
  <1>3. MqHeld'
    BY <1>1, MqHeldStays DEF MqInvariant
  <1>4. MqFirstTry'
    BY <1>1 DEF MqInvariant, MqFirstTry
  <1>5. MqPublishConnected'
    BY <1>1 DEF MqInvariant, MqPublishConnected
  <1>6. ASSUME NEW u \in MqThread
        PROVE  (MqFresh(u)' => MqFresh(u)) /\ (MqOnce(u)' => MqOnce(u))
    <2>1. CASE u = t
      <3>1. MqFresh(u)' => mqThread[t].at \in {"lock", "open", "publish"} /\ ~mqThread[t].again
        BY <1>1, <2>1 DEF MqFresh
      <3>2. MqOnce(u)' =>
              \/ mqThread[t].at = "close"
              \/ mqThread[t].at \in {"lock", "open", "publish"} /\ mqThread[t].again
        BY <1>1, <2>1 DEF MqOnce
      <3>3. mqThread[t].at = "lock" => ~mqThread[t].again
        BY DEF MqInvariant, MqFirstTry
      <3> QED
        BY <2>1, <3>1, <3>2, <3>3 DEF MqFresh, MqOnce
    <2>2. CASE u # t
      BY <1>1, <2>2 DEF MqFresh, MqOnce
    <2> QED
      BY <2>1, <2>2
  <1>7. MqArrived' /\ MqReceivedInOrder'
    BY <1>1, <1>6, MqArrivedStays DEF MqInvariant
  <1> QED
    BY <1>2, <1>3, <1>4, <1>5, <1>7 DEF MqInvariant

\* MqInit, its parameters, the mutex and the connection.
LEMMA MqQuietSteps ==
  ASSUME MqInvariant, NEW t \in MqThread,
         MqInit(t) \/ MqParams(t) \/ MqMutexInit(t) \/ MqLock(t) \/ MqOpen(t) \/ MqUnlock(t)
  PROVE  MqInvariant'
  <1> USE DEF MqPlace
  <1>1. /\ mq \in MqRecord /\ mq.conn \in {"null", "open"} /\ mq.mtx \in MqThread \cup {"free"}
        /\ mq.broken \in BOOLEAN
    BY DEF MqInvariant, MqTypeOK, MqRecord
  <1>2. CASE MqInit(t)
    <2>1. PICK to \in {"params", "idle"} : MqGo(t, to)
      BY <1>2 DEF MqInit
    <2>2. mq' \in MqRecord /\ mq'.mtx = mq.mtx /\ mq'.broken = mq.broken
          /\ mq'.conn = mq.conn /\ mq'.received = mq.received
      BY <1>1, <1>2, MqOtherSet, Zenon DEF MqInit
    <2>3. mqThread[t]'.at = to
      BY <2>1, MqGoes DEF MqInvariant
    <2> QED
      BY <2>1, <2>2, <2>3, MqQuietStep DEF MqSending
  <1>3. CASE MqParams(t)
    <2>1. PICK to \in {"mutex", "failed"} : MqGo(t, to)
      BY <1>3 DEF MqParams
    <2>2. mq' \in MqRecord /\ mq'.mtx = mq.mtx /\ mq'.broken = mq.broken
          /\ mq'.conn = mq.conn /\ mq'.received = mq.received
      BY <1>1, <1>3, MqOtherSet, Zenon DEF MqParams
    <2>3. mqThread[t]'.at = to
      BY <2>1, MqGoes DEF MqInvariant
    <2> QED
      BY <2>1, <2>2, <2>3, MqQuietStep DEF MqSending
  <1>4. CASE MqMutexInit(t)
    <2>1. MqGo(t, "idle") /\ "free" \notin MqThread
      BY <1>4, MqAssumption DEF MqMutexInit
    <2>2. PICK b \in BOOLEAN : /\ b <=> mq.broken \/ mq.mtx # "free"
                               /\ mq' = [mq EXCEPT !.mtx = "free", !.broken = b]
      <3>1. mq' = [mq EXCEPT !.mtx = "free", !.broken = mq.broken \/ mq.mtx # "free"]
        BY <1>4 DEF MqMutexInit
      <3> WITNESS (mq.broken \/ mq.mtx # "free") \in BOOLEAN
      <3> QED
        BY <3>1, Zenon
    <2>3. mq' \in MqRecord /\ mq'.mtx = "free" /\ mq'.broken = b
          /\ mq'.conn = mq.conn /\ mq'.received = mq.received
      <3>1. "free" \in MqThread \cup {"free"}
        OBVIOUS
      <3> QED
        BY <1>1, <2>2, <3>1, ZenonT(30) DEF MqRecord
    <2>4. mqThread[t]'.at = "idle"
      BY <2>1, MqGoes DEF MqInvariant
    <2> QED
      BY <2>1, <2>2, <2>3, <2>4, MqQuietStep DEF MqSending
  <1>5. CASE MqLock(t)
    <2>1. PICK to \in {"open", "publish"} : MqGo(t, to) /\ (to = "publish" => mq.conn # "null")
      BY <1>5 DEF MqLock
    <2>2. mqThread[t].at = "lock" /\ mq.mtx \notin MqThread
      BY <1>5, MqAssumption DEF MqLock
    <2>3. mq' \in MqRecord /\ mq'.mtx = t /\ mq'.broken = mq.broken
          /\ mq'.conn = mq.conn /\ mq'.received = mq.received
      BY <1>1, <1>5, MqMutexSet DEF MqLock
    <2> QED
      BY <1>1, <2>1, <2>2, <2>3, MqQuietStep
  <1>6. CASE MqOpen(t)
    <2>1. mqThread[t].at = "open"
      BY <1>6 DEF MqOpen
    <2>2. PICK to \in {"publish", "unlock"} : MqGo(t, to)
      BY <1>6 DEF MqOpen
    <2>3. /\ mq' \in MqRecord /\ mq'.mtx = mq.mtx /\ mq'.broken = mq.broken
          /\ mq'.received = mq.received /\ (mq'.conn = "open" \/ mq'.conn = mq.conn)
      BY <1>1, <1>6, MqConnSet DEF MqOpen
    <2>4. mqThread[t]'.at = to
      BY <2>2, MqGoes DEF MqInvariant
    <2>5. to = "publish" => mq'.conn = "open"
      <3>1. CASE mq' = [mq EXCEPT !.conn = "open"]
        BY <1>1, <3>1, MqConnSet
      <3>2. CASE /\ mq' = mq
                 /\ MqGo(t, IF mqThread[t].again /\ mq.conn # "null" THEN "publish" ELSE "unlock")
        <4>1. PICK x \in MqPlace :
                 x = IF mqThread[t].again /\ mq.conn # "null" THEN "publish" ELSE "unlock"
          OBVIOUS
        <4>2. mqThread[t]'.at = x
          BY <3>2, <4>1, MqGoes DEF MqInvariant
        <4> QED
          BY <1>1, <2>4, <3>2, <4>1, <4>2
      <3> QED
        BY <1>6, <3>1, <3>2 DEF MqOpen
    <2>6. MqSending(t)
      BY <2>1 DEF MqSending
    <2> QED
      BY <2>1, <2>2, <2>3, <2>5, <2>6, MqQuietStep
  <1>7. CASE MqUnlock(t)
    <2>1. MqGo(t, "idle") /\ mqThread[t].at = "unlock" /\ mq' = [mq EXCEPT !.mtx = "free"]
      BY <1>7 DEF MqUnlock
    <2>2. mq' \in MqRecord /\ mq'.mtx = "free" /\ mq'.broken = mq.broken
          /\ mq'.conn = mq.conn /\ mq'.received = mq.received
      BY <1>1, <2>1, MqMutexSet
    <2>3. mqThread[t]'.at = "idle"
      BY <2>1, MqGoes DEF MqInvariant
    <2>4. mq.mtx = t \/ mq'.broken
      BY <2>1, <2>2 DEF MqInvariant, MqHeld, MqSending
    <2> QED
      BY <2>1, <2>2, <2>3, <2>4, MqQuietStep DEF MqSending
  <1> QED
    BY <1>2, <1>3, <1>4, <1>5, <1>6, <1>7

\* MqProcess is called with the next message.
LEMMA MqProcessStep ==
  ASSUME MqInvariant, NEW t \in MqThread, MqProcess(t)
  PROVE  MqInvariant'
  <1>1. /\ mqThread' = [mqThread EXCEPT ![t] = [at |-> "lock", msg |-> @.msg + 1, again |-> FALSE]]
        /\ mqThread[t].at = "idle" /\ mq' = mq
    BY DEF MqProcess
  <1>2. mqThread \in [MqThread -> MqThreadRecord] /\ mqThread[t].msg \in Nat
    BY DEF MqInvariant, MqTypeOK, MqThreadRecord
  <1>3. /\ mqThread[t]' = [at |-> "lock", msg |-> mqThread[t].msg + 1, again |-> FALSE]
        /\ \A u \in MqThread : u # t => mqThread[u]' = mqThread[u]
    BY <1>1, <1>2
  <1>4. [at |-> "lock", msg |-> mqThread[t].msg + 1, again |-> FALSE] \in MqThreadRecord
    BY <1>2 DEF MqThreadRecord, MqPlace
  <1>5. MqTypeOK'
    BY <1>1, <1>2, <1>4 DEF MqInvariant, MqTypeOK, MqThreadRecord
  <1>6. mqThread[t]'.at = "lock" /\ ~mqThread[t]'.again /\ mqThread[t]'.msg = mqThread[t].msg + 1
    BY <1>3
  <1>7. MqHeld'
    BY <1>1, <1>3, <1>6 DEF MqInvariant, MqHeld, MqSending
  <1>8. MqFirstTry'
    BY <1>3, <1>6 DEF MqInvariant, MqFirstTry
  <1>9. MqPublishConnected'
    BY <1>1, <1>3, <1>6 DEF MqInvariant, MqPublishConnected
  <1>10. ASSUME NEW u \in MqThread, NEW i \in 1..Len(mq.received), mq.received[i].from = u
         PROVE  /\ mq.received[i].msg <= mqThread[u]'.msg
                /\ MqFresh(u)' => mq.received[i].msg < mqThread[u]'.msg
                /\ MqOnce(u)' /\ mq.received[i].msg = mqThread[u]'.msg
                     => i = Len(mq.received) \/ mq.broken
    <2>1. mq.received[i].msg <= mqThread[u].msg
      BY <1>10 DEF MqInvariant, MqArrived
    <2>2. CASE u = t
      <3>1. mq.received[i].msg \in Nat
        BY MqNumbers DEF MqInvariant
      <3>2. mq.received[i].msg < mqThread[u]'.msg
        BY <1>2, <1>6, <2>1, <2>2, <3>1
      <3>3. ~MqOnce(u)'
        BY <1>6, <2>2 DEF MqOnce
      <3> QED
        BY <1>2, <1>6, <2>2, <3>1, <3>2, <3>3
    <2>3. CASE u # t
      BY <1>3, <1>10, <2>1, <2>3 DEF MqInvariant, MqArrived, MqFresh, MqOnce
    <2> QED
      BY <2>2, <2>3
  <1>11. MqArrived' /\ MqReceivedInOrder'
    BY <1>1, <1>10 DEF MqInvariant, MqArrived, MqReceivedInOrder
  <1> QED
    BY <1>5, <1>7, <1>8, <1>9, <1>11 DEF MqInvariant

\* The broker gets the message, or the call fails after that or before.
LEMMA MqPublishStep ==
  ASSUME MqInvariant, NEW t \in MqThread, MqPublish(t) \/ MqPublishFails(t)
  PROVE  MqInvariant'
  <1> DEFINE now == [from |-> t, msg |-> mqThread[t].msg]
  <1>1. mqThread[t].at = "publish"
    BY DEF MqPublish, MqPublishFails
  <1>2. PICK to \in {"unlock", "close"} : MqGo(t, to) /\ (to = "close" => ~mqThread[t].again)
    BY DEF MqPublish, MqPublishFails
  <1>3. /\ mqThread' \in [MqThread -> MqThreadRecord]
        /\ mqThread[t]'.at = to
        /\ \A u \in MqThread : u # t => mqThread[u]' = mqThread[u]
        /\ \A u \in MqThread :
             mqThread[u]'.msg = mqThread[u].msg /\ mqThread[u]'.again = mqThread[u].again
    BY <1>2, MqGoes DEF MqInvariant, MqPlace
  <1>4. /\ mq \in MqRecord /\ mq.received \in Seq(MqEntry) /\ mq.outages \in Nat
        /\ Append(mq.received, now) \in Seq(MqEntry)
    <2>1. mq \in MqRecord /\ mq.received \in Seq(MqEntry) /\ mq.outages \in Nat
      BY DEF MqInvariant, MqTypeOK, MqRecord
    <2>2. now \in MqEntry
      BY DEF MqInvariant, MqTypeOK, MqEntry
    <2> QED
      BY <2>1, <2>2
  <1>5. /\ mq' \in MqRecord /\ mq'.mtx = mq.mtx /\ mq'.broken = mq.broken /\ mq'.conn = mq.conn
        /\ \/ mq'.received = mq.received
           \/ mq'.received = Append(mq.received, now)
    <2>1. CASE mq' = mq
      BY <1>4, <2>1
    <2>2. CASE mq' = [mq EXCEPT !.received = Append(@, now)]
      BY <1>4, <2>2, MqReceivedSet
    <2>3. ASSUME NEW x \in {mq.received, Append(mq.received, now)},
                 mq' = [mq EXCEPT !.outages = @ + 1, !.received = x]
          PROVE  /\ mq' \in MqRecord /\ mq'.mtx = mq.mtx /\ mq'.broken = mq.broken
                 /\ mq'.conn = mq.conn /\ mq'.received = x
      <3>1. x \in Seq(MqEntry) /\ mq.outages + 1 \in Nat
        <4>1. mq.outages + 1 \in Nat
          BY <1>4
        <4> HIDE DEF now
        <4> QED
          BY <1>4, <4>1, Zenon
      <3>2. mq' = [mq EXCEPT !.outages = mq.outages + 1, !.received = x]
        BY <2>3
      <3>3. mq \in MqRecord
        BY <1>4
      <3> QED
        BY <3>1, <3>2, <3>3, ZenonT(60) DEF MqRecord
    <2>4. MqPublishFails(t) =>
            \E x \in {mq.received, Append(mq.received, now)} :
              mq' = [mq EXCEPT !.outages = @ + 1, !.received = x]
      BY DEF MqPublishFails
    <2> QED
      BY <2>1, <2>2, <2>3, <2>4 DEF MqPublish
  <1>6. MqTypeOK'
    BY <1>3, <1>5 DEF MqTypeOK, MqRecord, MqThreadRecord
  <1>7. MqSending(t)
    BY <1>1 DEF MqSending
  <1>8. MqHeld'
    BY <1>3, <1>5, <1>7, MqHeldStays DEF MqInvariant
  <1>9. MqFirstTry'
    BY <1>3 DEF MqInvariant, MqFirstTry
  <1>10. MqPublishConnected'
    BY <1>3, <1>5 DEF MqInvariant, MqPublishConnected
  <1>11. ~MqFresh(t)' /\ (MqOnce(t)' => ~mqThread[t].again)
    BY <1>2, <1>3 DEF MqFresh, MqOnce
  <1>12. CASE mq'.received = Append(mq.received, now)
    BY <1>1, <1>3, <1>5, <1>6, <1>8, <1>9, <1>10, <1>11, <1>12, MqArrivedNext DEF MqInvariant
  <1>13. CASE mq'.received = mq.received
    <2>1. ASSUME NEW u \in MqThread, NEW i \in 1..Len(mq.received), mq.received[i].from = u
          PROVE  /\ mq.received[i].msg <= mqThread[u]'.msg
                 /\ MqFresh(u)' => mq.received[i].msg < mqThread[u]'.msg
                 /\ MqOnce(u)' /\ mq.received[i].msg = mqThread[u]'.msg
                      => i = Len(mq.received) \/ mq.broken
      <3>1. CASE u = t
        <4>1. mq.received[i].msg <= mqThread[t].msg
          BY <2>1, <3>1 DEF MqInvariant, MqArrived
        <4>2. ~mqThread[t].again => mq.received[i].msg < mqThread[t].msg
          BY <1>1, <2>1, <3>1 DEF MqInvariant, MqArrived, MqFresh
        <4>3. mq.received[i].msg \in Nat /\ mqThread[t].msg \in Nat
          BY MqNumbers DEF MqInvariant, MqTypeOK
        <4> QED
          BY <1>3, <1>11, <3>1, <4>1, <4>2, <4>3
      <3>2. CASE u # t
        BY <1>3, <2>1, <3>2 DEF MqInvariant, MqArrived, MqFresh, MqOnce
      <3> QED
        BY <3>1, <3>2
    <2>2. MqArrived' /\ MqReceivedInOrder'
      BY <1>5, <1>13, <2>1 DEF MqInvariant, MqArrived, MqReceivedInOrder
    <2> QED
      BY <1>6, <1>8, <1>9, <1>10, <2>2 DEF MqInvariant
  <1> QED
    BY <1>5, <1>12, <1>13

\* The connection is destroyed, and the second try begins.
LEMMA MqCloseStep ==
  ASSUME MqInvariant, NEW t \in MqThread, MqClose(t)
  PROVE  MqInvariant'
  <1>1. /\ mqThread[t].at = "close" /\ mq' = [mq EXCEPT !.conn = "null"]
        /\ mqThread' = [mqThread EXCEPT ![t].at = "open", ![t].again = TRUE]
    BY DEF MqClose
  <1>2. mq \in MqRecord /\ mqThread \in [MqThread -> MqThreadRecord]
    BY DEF MqInvariant, MqTypeOK, MqRecord, MqThreadRecord
  <1>3. /\ mq' \in MqRecord /\ mq'.mtx = mq.mtx /\ mq'.broken = mq.broken
        /\ mq'.received = mq.received
    BY <1>1, <1>2, MqConnSet
  <1>4. /\ mqThread' \in [MqThread -> MqThreadRecord]
        /\ mqThread[t]'.at = "open" /\ mqThread[t]'.again /\ mqThread[t]'.msg = mqThread[t].msg
        /\ \A u \in MqThread : u # t => mqThread[u]' = mqThread[u]
    BY <1>1, <1>2, ZenonT(30) DEF MqThreadRecord, MqPlace
  <1>5. MqTypeOK'
    BY <1>3, <1>4 DEF MqTypeOK, MqRecord, MqThreadRecord
  <1>6. MqSending(t)
    BY <1>1 DEF MqSending
  <1>7. MqHeld'
    BY <1>3, <1>4, <1>6, MqHeldStays DEF MqInvariant
  <1>8. MqFirstTry'
    BY <1>4 DEF MqInvariant, MqFirstTry
  <1>9. MqPublishConnected'
    <2> SUFFICES ASSUME ~mq'.broken, NEW u \in MqThread, mqThread[u]'.at = "publish"
                 PROVE  FALSE
      BY DEF MqPublishConnected
    <2>1. u # t
      BY <1>4
    <2>2. MqSending(u)
      BY <1>4, <2>1 DEF MqSending
    <2> QED
      BY <1>3, <1>6, <2>1, <2>2 DEF MqInvariant, MqHeld
  <1>10. ASSUME NEW u \in MqThread
         PROVE  /\ mqThread[u]'.msg = mqThread[u].msg
                /\ MqFresh(u)' => MqFresh(u)
                /\ MqOnce(u)' => MqOnce(u)
    <2>1. CASE u = t
      BY <1>1, <1>4, <2>1 DEF MqFresh, MqOnce
    <2>2. CASE u # t
      BY <1>4, <2>2 DEF MqFresh, MqOnce
    <2> QED
      BY <2>1, <2>2
  <1>11. MqArrived' /\ MqReceivedInOrder'
    BY <1>3, <1>10, MqArrivedStays DEF MqInvariant
  <1> QED
    BY <1>5, <1>7, <1>8, <1>9, <1>11 DEF MqInvariant

\* The broker goes away and comes back, which nobody notices by itself.
LEMMA MqOtherStep ==
  ASSUME MqInvariant, MqBroker \/ UNCHANGED mqVars
  PROVE  MqInvariant'
  <1>1. mqThread' = mqThread
    BY DEF MqBroker, mqVars
  <1>2. mq \in MqRecord /\ mq.outages + 1 \in Nat
    BY DEF MqInvariant, MqTypeOK, MqRecord
  <1>3. \/ mq' = mq
        \/ mq' = [mq EXCEPT !.broker = "up"]
        \/ \E k \in Nat, to \in MqBrokerState : mq' = [mq EXCEPT !.broker = to, !.outages = k]
    <2>1. "away" \in MqBrokerState /\ "hung" \in MqBrokerState
      BY DEF MqBrokerState
    <2>2. CASE \E to \in {"away", "hung"} :
                 mq' = [mq EXCEPT !.broker = to, !.outages = mq.outages + 1]
      <3>1. PICK to \in {"away", "hung"} :
              mq' = [mq EXCEPT !.broker = to, !.outages = mq.outages + 1]
        BY <2>2
      <3>2. to \in MqBrokerState
        BY <2>1, <3>1
      <3> QED
        BY <1>2, <3>1, <3>2, Zenon
    <2> QED
      BY <2>2, Zenon DEF MqBroker, mqVars
  <1>4. /\ mq' \in MqRecord /\ mq'.mtx = mq.mtx /\ mq'.broken = mq.broken
        /\ mq'.conn = mq.conn /\ mq'.received = mq.received
    BY <1>2, <1>3, MqOtherSet, Zenon
  <1>5. MqTypeOK'
    BY <1>1, <1>4 DEF MqInvariant, MqTypeOK, MqRecord
  <1>6. MqHeld' /\ MqFirstTry' /\ MqPublishConnected'
    BY <1>1, <1>4 DEF MqInvariant, MqHeld, MqFirstTry, MqPublishConnected, MqSending
  <1>7. MqArrived' /\ MqReceivedInOrder'
    BY <1>1, <1>4 DEF MqInvariant, MqArrived, MqReceivedInOrder, MqFresh, MqOnce
  <1> QED
    BY <1>5, <1>6, <1>7 DEF MqInvariant

-----------------------------------------------------------------------------
(* The theorem *)

\* Nobody has the connection, and nothing is sent.
LEMMA MqInitialOK == MqInitial => MqInvariant
  <1> SUFFICES ASSUME MqInitial PROVE MqInvariant
    OBVIOUS
  <1>1. PICK on \in BOOLEAN :
          mq = [on |-> on, init |-> FALSE, params |-> FALSE, conn |-> "null", mtx |-> "free",
                broken |-> FALSE, broker |-> "up", outages |-> 0, received |-> <<>>]
    BY DEF MqInitial
  <1>2. mqThread = [t \in MqThread |-> [at |-> "none", msg |-> 0, again |-> FALSE]]
    BY DEF MqInitial
  <1>3. <<>> \in Seq(MqEntry) /\ mq.received = <<>> /\ Len(mq.received) = 0
    BY <1>1
  <1>4. mq \in MqRecord
    <2>1. "up" \in MqBrokerState
      BY DEF MqBrokerState
    <2> QED
      BY <1>1, <1>3, <2>1, ZenonT(30) DEF MqRecord
  <1>5. MqTypeOK
    BY <1>2, <1>4 DEF MqTypeOK, MqRecord, MqPlace
  <1>6. MqHeld /\ MqFirstTry /\ MqPublishConnected
    BY <1>2 DEF MqHeld, MqFirstTry, MqPublishConnected, MqSending
  <1>7. MqArrived /\ MqReceivedInOrder
    BY <1>3 DEF MqArrived, MqReceivedInOrder
  <1> QED
    BY <1>5, <1>6, <1>7 DEF MqInvariant

\* One step per action.
LEMMA MqStep == MqInvariant /\ [MqNext]_mqVars => MqInvariant'
  <1> SUFFICES ASSUME MqInvariant, [MqNext]_mqVars PROVE MqInvariant'
    OBVIOUS
  <1>1. CASE MqBroker \/ UNCHANGED mqVars
    BY <1>1, MqOtherStep
  <1>2. ASSUME NEW t \in MqThread, MqInit(t) \/ MqProcess(t) \/ MqLock(t) \/ MqSend(t)
        PROVE  MqInvariant'
    BY <1>2, MqQuietSteps, MqProcessStep, MqPublishStep, MqCloseStep DEF MqSend
  <1> QED
    BY <1>1, <1>2 DEF MqNext

\* The shared connection has one user at a time, who publishes only over one that is
\* open, and the results of an element arrive in order, a repeated one next to itself:
\* MqProcess and MqSend over all their reconnections, with the one exception that
\* the code has, a mutex that is initialised while it is held.
THEOREM MqSafeHolds == MqSpec => []MqSafe
  <1>1. MqInvariant => MqSafe
    <2> SUFFICES ASSUME MqInvariant PROVE MqOneSender
      BY DEF MqInvariant, MqSafe
    <2> QED
      BY DEF MqInvariant, MqHeld, MqOneSender
  <1> QED
    BY <1>1, MqInitialOK, MqStep, PTL DEF MqSpec

-----------------------------------------------------------------------------
(* The preview: PvFilesKept, for every number of elements and segments.    *)
(*                                                                         *)
(* The daemon goes by a reading of the playlist that may be old when it    *)
(* removes segments.  The invariant says how old: between the reading and  *)
(* the removal the thread can have ended PvPerPass segments (PvSeenAt),    *)
(* and cannot have been started anew, because only the daemon does that.   *)
(* A playlist of an element that was deleted may be left in the directory, *)
(* but the daemon never gets as far in its list as its successor.          *)

PvAlive(g) == pv[g].pc \notin {"none", "freed"}
PvUnlisted(g) == pv[g].pc \in {"none", "config", "init", "started"}
PvUnopened(g) == pv[g].thread \in {"none", "new", "wait", "open"}
PvHasPlaylist(g) == pv[g].thread \in {"write", "read", "destroy"}
PvInPass(d) == pvMod.daemon[d] \notin {"none", "idle"}
PvAtObj(d) == PvInPass(d) /\ pvMod.daemon[d] # "look"

\* Segments that may end without the daemon seeing them: those of a playlist that
\* it took away when it had just been renewed, and those since its last look.
PvSlack == IF PvPerPass <= 2 THEN PvPerPass ELSE 0
PvWindow == PvSlack + PvPerPass
PvLeft == IF PvWindow >= 2 THEN PvWindow - 2 ELSE 0

\* The daemon keeps up with the muxer: few segments end between two passes, and
\* more than two only where no playlist stays the same for so long that it is
\* taken away.
PvKeepsUp == PvPerPass <= 2 \/ (PvPerPass <= 5 /\ \A g \in PvGen : pv[g].same # PvSame)

-----------------------------------------------------------------------------
(* The inductive invariant.                                                *)

PvTyped ==
  /\ DOMAIN pv = PvGen
  /\ \A g \in PvGen :
       /\ DOMAIN pv[g] = {"pc", "thread", "running", "active", "queue", "last", "same"}
       /\ pv[g].last \in Nat
  /\ DOMAIN pvDir = PvIds
  /\ \A c \in PvIds : DOMAIN pvDir[c] = {"files", "m3u8", "next", "big", "fresh"}
  /\ DOMAIN pvMod = {"queueLen", "objs", "daemon", "i", "seen"}
  /\ DOMAIN pvMod.daemon = PvGen
  /\ pvMod.objs \in Seq(PvGen)
  /\ pvMod.i \in Nat \ {0}
  /\ pvMod.seen \in Int

\* A directory: the last segment ended is the one of the playlist, and it and the
\* one before it have not been removed.
PvDirAt(c) ==
  /\ pvDir[c].next \in Nat
  /\ pvDir[c].fresh \in 0..PvPerPass
  /\ pvDir[c].m3u8 \in {-1, pvDir[c].next - 1}
  /\ pvDir[c].files \subseteq 0..pvDir[c].next
  /\ \A k \in Nat : k \in {pvDir[c].next - 1, pvDir[c].next - 2} =>
       k \in pvDir[c].files \cup {pvDir[c].big}
PvDirs == \A c \in PvIds : PvDirAt(c)

PvInList(g) == \E i \in DOMAIN pvMod.objs : pvMod.objs[i] = g

\* An element of the same directory that was deleted stands before g in the list.
PvFreedBefore(g) ==
  \E i \in DOMAIN pvMod.objs :
    /\ PvChannel[pvMod.objs[i]] = PvChannel[g]
    /\ pv[pvMod.objs[i]].pc = "freed"
    /\ \A j \in DOMAIN pvMod.objs : pvMod.objs[j] = g => i < j

\* The list, and the elements that are on it.
PvListAt(g) ==
  /\ PvUnlisted(g) => ~PvInList(g)
  /\ pv[g].thread # "none" /\ pv[g].pc # "started" => PvInList(g)
  /\ pv[g].pc \in {"none", "config", "init"} => pv[g].thread = "none"
  /\ pv[g].thread = "none" => ~pv[g].active /\ pv[g].pc # "join"
  /\ pv[g].pc \in {"none", "config"} => pvMod.daemon[g] = "none"
PvList == \A g \in PvGen : PvListAt(g)

\* One daemon is in a pass; what it has passed was not deleted.
PvPassAt(d) ==
  PvInPass(d) =>
    /\ PvAtObj(d) => pvMod.i \in DOMAIN pvMod.objs
    /\ \A j \in DOMAIN pvMod.objs :
         j < pvMod.i \/ (j = pvMod.i /\ PvAtObj(d)) => pv[pvMod.objs[j]].pc # "freed"
    /\ pvMod.daemon[d] = "create" => pv[PvObj].thread = "joined"
PvPass ==
  /\ \A d \in PvGen : PvPassAt(d)
  /\ \A d, e \in PvGen : PvInPass(d) /\ PvInPass(e) => d = e

\* The element that has a directory now.
PvOwnerAt(g) ==
  /\ PvUnopened(g) => pv[g].last = 0
  /\ PvAlive(g) /\ ~PvHasPlaylist(g) => pvDir[PvChannel[g]].m3u8 = -1 \/ PvFreedBefore(g)
  /\ PvAlive(g) /\ pv[g].thread \in {"wait", "open"} =>
       /\ pvDir[PvChannel[g]].files = {}
       /\ pvDir[PvChannel[g]].next = 0
PvOwners == \A g \in PvGen : PvOwnerAt(g)

\* A directory that no element has.
PvFreeAt(c) ==
  (\A g \in PvGen : PvChannel[g] = c => ~PvAlive(g)) =>
    \/ pvDir[c].m3u8 = -1
    \/ \E g \in PvGen : PvChannel[g] = c /\ pv[g].pc = "freed" /\ PvInList(g)
PvFree == \A c \in PvIds : PvFreeAt(c)

\* What the daemon has read of the playlist of g.
PvSeenBy(g) ==
  /\ pvMod.seen \in Nat
  /\ ~PvUnopened(g)
  /\ pvMod.seen < pvDir[PvChannel[g]].next
  /\ pvDir[PvChannel[g]].next - 1 <= pvMod.seen + pvDir[PvChannel[g]].fresh
  /\ PvHasPlaylist(g) => pvDir[PvChannel[g]].m3u8 # -1
  /\ pv[g].last <= pvMod.seen /\ pvMod.seen <= pv[g].last + PvWindow
PvSeen ==
  \A d \in PvGen : pvMod.daemon[d] = "remove" => pvMod.seen = -1 \/ PvSeenBy(PvObj)

PvRemoves(g) == \E d \in PvGen : pvMod.daemon[d] = "remove" /\ PvObj = g /\ pvMod.seen # -1

\* What the daemon has removed, and how far the muxer is ahead of it.
PvAheadAt(g) ==
  PvAlive(g) /\ PvHasPlaylist(g) =>
    /\ pv[g].last < pvDir[PvChannel[g]].next \/ pv[g].last = 0
    /\ pv[g].last > 5 =>
         \A k \in pvDir[PvChannel[g]].files : ~(PvLeft <= k /\ k <= pv[g].last - 3)
    /\ ~PvRemoves(g) =>
         /\ pvDir[PvChannel[g]].next - 1
              <= pv[g].last + PvSlack + pvDir[PvChannel[g]].fresh
         /\ pvDir[PvChannel[g]].m3u8 = -1 =>
              pvDir[PvChannel[g]].next - 1 <= pv[g].last + PvSlack
PvAhead == \A g \in PvGen : PvAheadAt(g)

PvInvariant ==
  /\ PvTyped /\ PvDirs /\ PvList /\ PvPass /\ PvOwners /\ PvFree /\ PvSeen /\ PvAhead
  /\ PvFilesBounded

-----------------------------------------------------------------------------
(* Steps of an element or of its thread that leave the directory alone.    *)

\* What such a step of g may change.
PvQuiet(g) ==
  /\ pvDir' = pvDir /\ pvMod' = pvMod
  /\ DOMAIN pv' = PvGen
  /\ DOMAIN pv'[g] = DOMAIN pv[g]
  /\ \A h \in PvGen : h # g => pv'[h] = pv[h]
  /\ pv'[g].last = pv[g].last
  /\ PvUnopened(g)' => PvUnopened(g)
  /\ pv'[g].thread \in {"wait", "open"} => pv[g].thread \in {"wait", "open"}
  /\ PvHasPlaylist(g)' <=> PvHasPlaylist(g)
  /\ pv[g].thread = "joined" => pv'[g].thread = "joined"
  /\ PvAlive(g) /\ PvAlive(g)'
  /\ PvListAt(g)'

\* The steps of an element's thread that are quiet.
LEMMA PvElementQuiet ==
  ASSUME PvInvariant, NEW g \in PvGen,
         PvStart(g) \/ PvProcess(g) \/ PvStop(g) \/ PvCheck(g) \/ PvJoin(g)
  PROVE  PvQuiet(g)
  <1>1. /\ DOMAIN pv = PvGen
        /\ DOMAIN pv[g] = {"pc", "thread", "running", "active", "queue", "last", "same"}
        /\ PvListAt(g)
    BY DEF PvInvariant, PvTyped, PvList
  <1>2. pvMod' = pvMod => (PvInList(g)' <=> PvInList(g))
    BY DEF PvInList
  <1>3. CASE PvStart(g)
    BY <1>1, <1>2, <1>3 DEF PvStart, PvGo, PvQuiet, PvListAt, PvAlive, PvUnlisted, PvUnopened,
       PvHasPlaylist
  <1>4. CASE PvProcess(g)
    BY <1>1, <1>2, <1>4 DEF PvProcess, PvQuiet, PvListAt, PvAlive, PvUnlisted, PvUnopened,
       PvHasPlaylist
  <1>5. CASE PvStop(g)
    BY <1>1, <1>2, <1>5 DEF PvStop, PvQuiet, PvListAt, PvAlive, PvUnlisted, PvUnopened,
       PvHasPlaylist
  <1>6. CASE PvCheck(g)
    BY <1>1, <1>2, <1>6 DEF PvCheck, PvQuiet, PvListAt, PvAlive, PvUnlisted, PvUnopened,
       PvHasPlaylist
  <1>7. CASE PvJoin(g)
    BY <1>1, <1>2, <1>7 DEF PvJoin, PvThreadLives, PvQuiet, PvListAt, PvAlive, PvUnlisted,
       PvUnopened, PvHasPlaylist
  <1> QED
    BY <1>3, <1>4, <1>5, <1>6, <1>7

\* The steps of PreviewThread that are quiet.
LEMMA PvThreadQuiet ==
  ASSUME PvInvariant, NEW g \in PvGen, pv[g].pc # "freed", UNCHANGED <<pvMod, pvDir>>,
         \/ PvWait(g) \/ PvOpen(g) \/ PvReadNothing(g) \/ PvWrite(g)
         \/ PvRead(g) \/ PvFailed(g) \/ PvEnds(g),
         PvHasPlaylist(g)' <=> PvHasPlaylist(g)
  PROVE  PvQuiet(g)
  <1>1. /\ DOMAIN pv = PvGen
        /\ DOMAIN pv[g] = {"pc", "thread", "running", "active", "queue", "last", "same"}
        /\ PvListAt(g)
    BY DEF PvInvariant, PvTyped, PvList
  <1>2. PvInList(g)' <=> PvInList(g)
    BY DEF PvInList
  <1>3. CASE PvWait(g)
    BY <1>1, <1>2, <1>3 DEF PvWait, PvThreadGo, PvQuiet, PvListAt, PvAlive, PvUnlisted,
       PvUnopened, PvHasPlaylist
  <1>4. CASE PvOpen(g)
    BY <1>1, <1>2, <1>4 DEF PvOpen, PvQuiet, PvListAt, PvAlive, PvUnlisted,
       PvUnopened, PvHasPlaylist
  <1>5. CASE PvReadNothing(g)
    BY <1>1, <1>2, <1>5 DEF PvReadNothing, PvThreadGo, PvQuiet, PvListAt, PvAlive, PvUnlisted,
       PvUnopened, PvHasPlaylist
  <1>6. CASE PvWrite(g)
    BY <1>1, <1>2, <1>6 DEF PvWrite, PvThreadGo, PvQuiet, PvListAt, PvAlive, PvUnlisted,
       PvUnopened, PvHasPlaylist
  <1>7. CASE PvRead(g)
    <2>1. PICK to \in {"write", "destroy"} :
            /\ pv[g].thread = "read"
            /\ pv' = [pv EXCEPT ![g].queue = @ - 1, ![g].thread = to]
      BY <1>7 DEF PvRead
    <2> QED
      BY <1>1, <1>2, <2>1 DEF PvQuiet, PvListAt, PvAlive, PvUnlisted, PvUnopened,
         PvHasPlaylist
  <1>8. CASE PvFailed(g)
    BY <1>1, <1>2, <1>8 DEF PvFailed, PvQuiet, PvListAt, PvAlive, PvUnlisted,
       PvUnopened, PvHasPlaylist
  <1>9. CASE PvEnds(g)
    BY <1>1, <1>2, <1>9 DEF PvEnds, PvThreadGo, PvQuiet, PvListAt, PvAlive, PvUnlisted,
       PvUnopened, PvHasPlaylist
  <1> QED
    BY <1>3, <1>4, <1>5, <1>6, <1>7, <1>8, <1>9

\* A quiet step keeps the invariant.
LEMMA PvQuietKeeps ==
  ASSUME PvInvariant, NEW g \in PvGen, PvQuiet(g)
  PROVE  PvInvariant'
  <1> USE DEF PvInvariant
  <1>1. /\ pvDir' = pvDir /\ pvMod' = pvMod
        /\ \A h \in PvGen : h # g => pv'[h] = pv[h]
    BY DEF PvQuiet
  <1>2. PvTyped'
    BY <1>1 DEF PvQuiet, PvTyped
  <1>3. PvDirs' /\ PvFilesBounded'
    BY <1>1 DEF PvDirs, PvDirAt, PvFilesBounded
  <1>4. \A h \in PvGen : PvInList(h)' <=> PvInList(h)
    BY <1>1 DEF PvInList
  <1>5. PvList'
    <2> SUFFICES ASSUME NEW h \in PvGen, h # g PROVE PvListAt(h)'
      BY DEF PvQuiet, PvList
    <2> QED
      BY <1>1, <1>4 DEF PvList, PvListAt, PvUnlisted
  <1>6. \A j \in DOMAIN pvMod.objs :
           /\ pvMod.objs[j] \in PvGen
           /\ pv'[pvMod.objs[j]].pc = "freed" <=> pv[pvMod.objs[j]].pc = "freed"
    BY <1>1 DEF PvQuiet, PvTyped, PvAlive
  <1>7. PvPass'
    <2> SUFFICES ASSUME NEW d \in PvGen PROVE PvPassAt(d)'
      BY <1>1 DEF PvPass, PvInPass
    <2> QED
      BY <1>1, <1>6 DEF PvPass, PvPassAt, PvInPass, PvAtObj, PvObj, PvQuiet
  <1>8. \A h \in PvGen : PvFreedBefore(h)' <=> PvFreedBefore(h)
    BY <1>1, <1>6 DEF PvFreedBefore
  <1>9. PvOwners'
    <2> SUFFICES ASSUME NEW h \in PvGen PROVE PvOwnerAt(h)'
      BY DEF PvOwners
    <2>1. PvOwnerAt(h)
      BY DEF PvOwners
    <2>2. CASE h # g
      BY <1>1, <1>8, <2>1, <2>2 DEF PvOwnerAt, PvUnopened, PvAlive, PvHasPlaylist
    <2>3. CASE h = g
      BY <1>1, <1>8, <2>1, <2>3 DEF PvOwnerAt, PvQuiet
    <2> QED
      BY <2>2, <2>3
  <1>10. PvFree'
    <2> SUFFICES ASSUME NEW c \in PvIds PROVE PvFreeAt(c)'
      BY DEF PvFree
    <2>1. /\ \A h \in PvGen : PvAlive(h)' <=> PvAlive(h)
          /\ \A h \in PvGen : pv'[h].pc = "freed" <=> pv[h].pc = "freed"
      BY <1>1 DEF PvQuiet, PvAlive
    <2> QED
      BY <1>1, <1>4, <2>1 DEF PvFree, PvFreeAt
  <1>11. PvSeen'
    <2> SUFFICES ASSUME NEW d \in PvGen, pvMod.daemon[d] = "remove", pvMod.seen # -1
                 PROVE  PvSeenBy(PvObj)'
      BY <1>1 DEF PvSeen
    <2>1. PvSeenBy(PvObj) /\ PvObj' = PvObj
      BY <1>1 DEF PvSeen, PvObj
    <2>2. PvObj \in PvGen
      BY DEF PvTyped, PvPass, PvPassAt, PvInPass, PvAtObj, PvObj
    <2>3. CASE PvObj # g
      BY <1>1, <2>1, <2>2, <2>3 DEF PvSeenBy, PvHasPlaylist, PvUnopened
    <2>4. CASE PvObj = g
      BY <1>1, <2>1, <2>2, <2>4 DEF PvSeenBy, PvQuiet
    <2> QED
      BY <2>3, <2>4
  <1>12. PvAhead'
    <2> SUFFICES ASSUME NEW h \in PvGen PROVE PvAheadAt(h)'
      BY DEF PvAhead
    <2>1. PvAheadAt(h) /\ (PvRemoves(h)' <=> PvRemoves(h))
      BY <1>1 DEF PvAhead, PvRemoves, PvObj
    <2>2. CASE h # g
      BY <1>1, <2>1, <2>2 DEF PvAheadAt, PvAlive, PvHasPlaylist
    <2>3. CASE h = g
      BY <1>1, <2>1, <2>3 DEF PvAheadAt, PvQuiet
    <2> QED
      BY <2>2, <2>3
  <1> QED
    BY <1>2, <1>3, <1>5, <1>7, <1>9, <1>10, <1>11, <1>12

-----------------------------------------------------------------------------
(* The other steps of an element.                                          *)

\* A new element: whatever is left in its directory is of one that was deleted.
LEMMA PvInitKeeps ==
  ASSUME PvInvariant, PvDistinct', NEW g \in PvGen, PvInit(g)
  PROVE  PvInvariant'
  <1> USE DEF PvInvariant
  <1>1. /\ pvDir' = pvDir /\ pvMod' = pvMod
        /\ pv[g].pc = "none" /\ pv'[g].pc \in {"config", "init"}
        /\ \A h \in PvGen : h # g => pv'[h] = pv[h]
        /\ DOMAIN pv' = PvGen /\ DOMAIN pv'[g] = DOMAIN pv[g]
        /\ pv'[g].last = pv[g].last /\ pv'[g].thread = pv[g].thread
        /\ pv'[g].active = pv[g].active
    BY DEF PvInit, PvGo, PvTyped
  <1>2. PvTyped'
    BY <1>1 DEF PvTyped
  <1>3. PvDirs' /\ PvFilesBounded'
    BY <1>1 DEF PvDirs, PvDirAt, PvFilesBounded
  <1>4. \A h \in PvGen : PvInList(h)' <=> PvInList(h)
    BY <1>1 DEF PvInList
  <1>5. PvList'
    <2> SUFFICES ASSUME NEW h \in PvGen PROVE PvListAt(h)'
      BY DEF PvList
    <2> QED
      BY <1>1, <1>4 DEF PvList, PvListAt, PvUnlisted
  <1>6. \A j \in DOMAIN pvMod.objs :
           /\ pvMod.objs[j] \in PvGen
           /\ pvMod.objs[j] # g
           /\ pv'[pvMod.objs[j]] = pv[pvMod.objs[j]]
    <2>1. ~PvInList(g)
      BY <1>1 DEF PvList, PvListAt, PvUnlisted
    <2> QED
      BY <1>1, <2>1 DEF PvTyped, PvInList
  <1>7. PvPass'
    <2> SUFFICES ASSUME NEW d \in PvGen PROVE PvPassAt(d)'
      BY <1>1 DEF PvPass, PvInPass
    <2> QED
      BY <1>1, <1>6 DEF PvPass, PvPassAt, PvInPass, PvAtObj, PvObj
  <1>8. \A h \in PvGen : PvFreedBefore(h)' <=> PvFreedBefore(h)
    BY <1>1, <1>6 DEF PvFreedBefore
  <1>9. PvOwners'
    <2> SUFFICES ASSUME NEW h \in PvGen PROVE PvOwnerAt(h)'
      BY DEF PvOwners
    <2>1. PvOwnerAt(h)
      BY DEF PvOwners
    <2>2. CASE h # g
      BY <1>1, <1>8, <2>1, <2>2 DEF PvOwnerAt, PvUnopened, PvAlive, PvHasPlaylist
    <2>3. CASE h = g
      <3>1. pv[g].thread = "none"
        BY <1>1 DEF PvList, PvListAt
      <3>2. pvDir[PvChannel[g]].m3u8 = -1 \/ PvFreedBefore(g)
        <4>1. \A x \in PvGen : PvChannel[x] = PvChannel[g] => ~PvAlive(x)
          BY <1>1 DEF PvDistinct, PvAlive
        <4>2. PvFreeAt(PvChannel[g])
          BY DEF PvFree, PvIds
        <4>3. SUFFICES ASSUME NEW x \in PvGen, PvChannel[x] = PvChannel[g], pv[x].pc = "freed",
                              PvInList(x)
                       PROVE  PvFreedBefore(g)
          BY <4>1, <4>2 DEF PvFreeAt
        <4> QED
          BY <4>3, <1>6 DEF PvInList, PvFreedBefore
      <3> QED
        BY <1>1, <1>8, <2>1, <2>3, <3>1, <3>2 DEF PvOwnerAt, PvUnopened, PvAlive, PvHasPlaylist
    <2> QED
      BY <2>2, <2>3
  <1>10. PvFree'
    <2> SUFFICES ASSUME NEW c \in PvIds PROVE PvFreeAt(c)'
      BY DEF PvFree
    <2>1. /\ \A h \in PvGen : PvAlive(h) => PvAlive(h)'
          /\ \A h \in PvGen : pv'[h].pc = "freed" <=> pv[h].pc = "freed"
      BY <1>1 DEF PvAlive
    <2> QED
      BY <1>1, <1>4, <2>1 DEF PvFree, PvFreeAt
  <1>11. PvSeen'
    <2> SUFFICES ASSUME NEW d \in PvGen, pvMod.daemon[d] = "remove", pvMod.seen # -1
                 PROVE  PvSeenBy(PvObj)'
      BY <1>1 DEF PvSeen
    <2>1. PvSeenBy(PvObj) /\ PvObj' = PvObj
      BY <1>1 DEF PvSeen, PvObj
    <2>2. pvMod.i \in DOMAIN pvMod.objs
      BY DEF PvPass, PvPassAt, PvInPass, PvAtObj
    <2> QED
      BY <1>1, <1>6, <2>1, <2>2 DEF PvSeenBy, PvHasPlaylist, PvUnopened, PvObj
  <1>12. PvAhead'
    <2> SUFFICES ASSUME NEW h \in PvGen PROVE PvAheadAt(h)'
      BY DEF PvAhead
    <2>1. PvAheadAt(h) /\ (PvRemoves(h)' <=> PvRemoves(h))
      BY <1>1 DEF PvAhead, PvRemoves, PvObj
    <2>2. h = g => pv'[h].thread = "none"
      BY <1>1 DEF PvList, PvListAt
    <2> QED
      BY <1>1, <2>1, <2>2 DEF PvAheadAt, PvAlive, PvHasPlaylist
  <1> QED
    BY <1>2, <1>3, <1>5, <1>7, <1>9, <1>10, <1>11, <1>12

\* An element that makes a daemon: the daemon sleeps.
LEMMA PvInitDaemonKeeps ==
  ASSUME PvInvariant, NEW g \in PvGen, PvInitDaemon(g)
  PROVE  PvInvariant'
  <1> USE DEF PvInvariant
  <1>1. /\ pvDir' = pvDir
        /\ pv[g].pc = "config" /\ pv'[g].pc = "init"
        /\ \A h \in PvGen : h # g => pv'[h] = pv[h]
        /\ DOMAIN pv' = PvGen /\ DOMAIN pv'[g] = DOMAIN pv[g]
        /\ pv'[g].last = pv[g].last /\ pv'[g].thread = pv[g].thread
        /\ pv'[g].active = pv[g].active
    BY DEF PvInitDaemon, PvGo, PvTyped
  <1>2. /\ DOMAIN pvMod' = DOMAIN pvMod /\ DOMAIN pvMod'.daemon = PvGen
        /\ pvMod'.objs = pvMod.objs /\ pvMod'.i = pvMod.i /\ pvMod'.seen = pvMod.seen
        /\ \A d \in PvGen : d # g => pvMod'.daemon[d] = pvMod.daemon[d]
        /\ pvMod'.daemon[g] = "idle"
    BY DEF PvInitDaemon, PvTyped
  <1>3. PvTyped'
    BY <1>1, <1>2 DEF PvTyped
  <1>4. PvDirs' /\ PvFilesBounded'
    BY <1>1 DEF PvDirs, PvDirAt, PvFilesBounded
  <1>5. \A h \in PvGen : PvInList(h)' <=> PvInList(h)
    BY <1>2 DEF PvInList
  <1>6. PvList'
    <2> SUFFICES ASSUME NEW h \in PvGen PROVE PvListAt(h)'
      BY DEF PvList
    <2> QED
      BY <1>1, <1>2, <1>5 DEF PvList, PvListAt, PvUnlisted
  <1>7. \A j \in DOMAIN pvMod.objs :
           /\ pvMod.objs[j] \in PvGen
           /\ pvMod.objs[j] # g
           /\ pv'[pvMod.objs[j]] = pv[pvMod.objs[j]]
    <2>1. ~PvInList(g)
      BY <1>1 DEF PvList, PvListAt, PvUnlisted
    <2> QED
      BY <1>1, <2>1 DEF PvTyped, PvInList
  <1>8. PvPass'
    <2>1. \A d \in PvGen : PvInPass(d)' => PvInPass(d) /\ d # g
      BY <1>2 DEF PvInPass
    <2> SUFFICES ASSUME NEW d \in PvGen PROVE PvPassAt(d)'
      BY <2>1 DEF PvPass
    <2> QED
      BY <1>2, <1>7, <2>1 DEF PvPass, PvPassAt, PvInPass, PvAtObj, PvObj
  <1>9. \A h \in PvGen : PvFreedBefore(h)' <=> PvFreedBefore(h)
    BY <1>2, <1>7 DEF PvFreedBefore
  <1>10. PvOwners' /\ PvFree'
    <2>1. \A h \in PvGen : /\ PvAlive(h)' <=> PvAlive(h)
                           /\ pv'[h].pc = "freed" <=> pv[h].pc = "freed"
                           /\ pv'[h].last = pv[h].last /\ pv'[h].thread = pv[h].thread
      BY <1>1 DEF PvAlive
    <2>2. PvOwners'
      <3> SUFFICES ASSUME NEW h \in PvGen PROVE PvOwnerAt(h)'
        BY DEF PvOwners
      <3> QED
        BY <1>1, <1>9, <2>1 DEF PvOwners, PvOwnerAt, PvUnopened, PvHasPlaylist
    <2>3. PvFree'
      BY <1>1, <1>5, <2>1 DEF PvFree, PvFreeAt
    <2> QED
      BY <2>2, <2>3
  <1>11. PvSeen'
    <2> SUFFICES ASSUME NEW d \in PvGen, pvMod'.daemon[d] = "remove", pvMod.seen # -1
                 PROVE  PvSeenBy(PvObj)'
      BY <1>2 DEF PvSeen
    <2>1. pvMod.daemon[d] = "remove" /\ PvSeenBy(PvObj) /\ PvObj' = PvObj
      BY <1>2 DEF PvSeen, PvObj
    <2>2. pvMod.i \in DOMAIN pvMod.objs
      BY <2>1 DEF PvPass, PvPassAt, PvInPass, PvAtObj
    <2> QED
      BY <1>1, <1>2, <1>7, <2>1, <2>2 DEF PvSeenBy, PvHasPlaylist, PvUnopened, PvObj
  <1>12. PvAhead'
    <2> SUFFICES ASSUME NEW h \in PvGen PROVE PvAheadAt(h)'
      BY DEF PvAhead
    <2>1. PvAheadAt(h)
      BY DEF PvAhead
    <2>2. h = g => pv'[h].thread = "none"
      BY <1>1 DEF PvList, PvListAt
    <2>3. PvRemoves(h) /\ h # g => PvRemoves(h)'
      <3> SUFFICES ASSUME NEW d \in PvGen, pvMod.daemon[d] = "remove", PvObj = h,
                          pvMod.seen # -1, h # g
                   PROVE  PvRemoves(h)'
        BY DEF PvRemoves
      <3>1. CASE d # g
        BY <1>2, <3>1 DEF PvRemoves, PvObj
      <3>2. CASE d = g
        BY <1>1, <3>2 DEF PvList, PvListAt
      <3> QED
        BY <3>1, <3>2
    <2> QED
      BY <1>1, <2>1, <2>2, <2>3 DEF PvAheadAt, PvAlive, PvHasPlaylist
  <1> QED
    BY <1>3, <1>4, <1>6, <1>8, <1>10, <1>11, <1>12

\* While obj_mtx is free no daemon is in a pass.
LEMMA PvMtxFreeNoPass ==
  ASSUME PvObjMtxFree, pvMod'.daemon = pvMod.daemon
  PROVE  /\ \A d \in PvGen : ~PvInPass(d)'
         /\ PvPass' /\ PvSeen' /\ \A g : ~PvRemoves(g)' /\ ~PvRemoves(g)
  BY DEF PvObjMtxFree, PvInPass, PvPass, PvPassAt, PvSeen, PvRemoves

\* PreviewStart puts its element at the end of obj_vec.
LEMMA PvListedKeeps ==
  ASSUME PvInvariant, NEW g \in PvGen, PvListed(g)
  PROVE  PvInvariant'
  <1> USE DEF PvInvariant
  <1>1. /\ pvDir' = pvDir
        /\ pv[g].pc = "started" /\ pv'[g].pc = "loop"
        /\ \A h \in PvGen : h # g => pv'[h] = pv[h]
        /\ DOMAIN pv' = PvGen /\ DOMAIN pv'[g] = DOMAIN pv[g]
        /\ pv'[g].last = pv[g].last /\ pv'[g].thread = pv[g].thread
        /\ pv'[g].active = pv[g].active
    BY DEF PvListed, PvGo, PvTyped
  <1>2. /\ DOMAIN pvMod' = DOMAIN pvMod /\ pvMod'.daemon = pvMod.daemon
        /\ pvMod'.i = pvMod.i /\ pvMod'.seen = pvMod.seen
        /\ pvMod'.objs = Append(pvMod.objs, g)
    BY DEF PvListed, PvTyped
  <1>3. /\ pvMod.objs \in Seq(PvGen) /\ Len(pvMod.objs) \in Nat
        /\ DOMAIN pvMod.objs = 1..Len(pvMod.objs)
    BY DEF PvTyped
  <1>4. /\ DOMAIN pvMod'.objs = 1..(Len(pvMod.objs) + 1)
        /\ pvMod'.objs[Len(pvMod.objs) + 1] = g
        /\ \A j \in DOMAIN pvMod.objs :
             /\ j \in DOMAIN pvMod'.objs
             /\ pvMod'.objs[j] = pvMod.objs[j]
             /\ pvMod.objs[j] \in PvGen
    BY <1>2, <1>3
  <1>5. PvTyped'
    <2>1. pvMod'.objs \in Seq(PvGen)
      BY <1>2, <1>3
    <2>2. \A h \in PvGen :
            /\ DOMAIN pv'[h]
                 = {"pc", "thread", "running", "active", "queue", "last", "same"}
            /\ pv'[h].last \in Nat
      BY <1>1 DEF PvTyped
    <2> QED
      BY <1>1, <1>2, <2>1, <2>2 DEF PvTyped
  <1>6. PvDirs' /\ PvFilesBounded'
    BY <1>1 DEF PvDirs, PvDirAt, PvFilesBounded
  <1>7. PvPass' /\ PvSeen' /\ \A h : ~PvRemoves(h)' /\ ~PvRemoves(h)
    BY <1>2, PvMtxFreeNoPass DEF PvListed
  <1>8. /\ PvInList(g)'
        /\ \A h \in PvGen : h # g => (PvInList(h)' <=> PvInList(h))
        /\ \A h \in PvGen : PvInList(h) => PvInList(h)'
    BY <1>3, <1>4 DEF PvInList
  <1>9. PvList'
    <2> SUFFICES ASSUME NEW h \in PvGen PROVE PvListAt(h)'
      BY DEF PvList
    <2> QED
      BY <1>1, <1>2, <1>8 DEF PvList, PvListAt, PvUnlisted
  <1>10. \A h \in PvGen : PvFreedBefore(h) => PvFreedBefore(h)'
    <2> SUFFICES ASSUME NEW h \in PvGen, NEW i \in DOMAIN pvMod.objs,
                        PvChannel[pvMod.objs[i]] = PvChannel[h],
                        pv[pvMod.objs[i]].pc = "freed",
                        \A j \in DOMAIN pvMod.objs : pvMod.objs[j] = h => i < j
                 PROVE  PvFreedBefore(h)'
      BY DEF PvFreedBefore
    <2>1. pv'[pvMod.objs[i]].pc = "freed"
      BY <1>1, <1>4
    <2>2. \A j \in DOMAIN pvMod'.objs : pvMod'.objs[j] = h => i < j
      BY <1>3, <1>4
    <2> QED
      BY <1>4, <2>1, <2>2 DEF PvFreedBefore
  <1>11. PvOwners' /\ PvFree'
    <2>1. \A h \in PvGen : /\ PvAlive(h)' <=> PvAlive(h)
                           /\ pv'[h].pc = "freed" <=> pv[h].pc = "freed"
                           /\ pv'[h].last = pv[h].last /\ pv'[h].thread = pv[h].thread
      BY <1>1 DEF PvAlive
    <2>2. PvOwners'
      <3> SUFFICES ASSUME NEW h \in PvGen PROVE PvOwnerAt(h)'
        BY DEF PvOwners
      <3> QED
        BY <1>1, <1>10, <2>1 DEF PvOwners, PvOwnerAt, PvUnopened, PvHasPlaylist
    <2>3. PvFree'
      BY <1>1, <1>8, <2>1 DEF PvFree, PvFreeAt
    <2> QED
      BY <2>2, <2>3
  <1>12. PvAhead'
    <2> SUFFICES ASSUME NEW h \in PvGen PROVE PvAheadAt(h)'
      BY DEF PvAhead
    <2>1. PvAheadAt(h) /\ ~PvRemoves(h)
      BY <1>7 DEF PvAhead
    <2> QED
      BY <1>1, <1>7, <2>1 DEF PvAheadAt, PvAlive, PvHasPlaylist
  <1> QED
    BY <1>5, <1>6, <1>7, <1>9, <1>11, <1>12

\* PreviewStop deletes the element, which stays on the list.
LEMMA PvEraseKeeps ==
  ASSUME PvInvariant, NEW g \in PvGen, PvErase(g)
  PROVE  PvInvariant'
  <1> USE DEF PvInvariant
  <1>1. /\ pvDir' = pvDir /\ pvMod' = pvMod
        /\ pv[g].pc = "erase" /\ pv'[g].pc = "freed"
        /\ \A h \in PvGen : h # g => pv'[h] = pv[h]
        /\ DOMAIN pv' = PvGen /\ DOMAIN pv'[g] = DOMAIN pv[g]
        /\ pv'[g].last = pv[g].last /\ pv'[g].thread = pv[g].thread
        /\ pv'[g].active = pv[g].active
    BY DEF PvErase, PvGo, PvTyped
  <1>2. PvTyped'
    BY <1>1 DEF PvTyped
  <1>3. PvDirs' /\ PvFilesBounded'
    BY <1>1 DEF PvDirs, PvDirAt, PvFilesBounded
  <1>4. PvPass' /\ PvSeen' /\ \A h : ~PvRemoves(h)' /\ ~PvRemoves(h)
    BY <1>1, PvMtxFreeNoPass DEF PvErase
  <1>5. \A h \in PvGen : PvInList(h)' <=> PvInList(h)
    BY <1>1 DEF PvInList
  <1>6. PvList'
    <2> SUFFICES ASSUME NEW h \in PvGen PROVE PvListAt(h)'
      BY DEF PvList
    <2> QED
      BY <1>1, <1>5 DEF PvList, PvListAt, PvUnlisted
  <1>7. /\ \A h \in PvGen : pv[h].pc = "freed" => pv'[h].pc = "freed"
        /\ \A j \in DOMAIN pvMod.objs : pvMod.objs[j] \in PvGen
    BY <1>1 DEF PvTyped
  <1>8. \A h \in PvGen : PvFreedBefore(h) => PvFreedBefore(h)'
    BY <1>1, <1>7 DEF PvFreedBefore
  <1>9. PvOwners'
    <2> SUFFICES ASSUME NEW h \in PvGen PROVE PvOwnerAt(h)'
      BY DEF PvOwners
    <2> QED
      BY <1>1, <1>8 DEF PvOwners, PvOwnerAt, PvUnopened, PvHasPlaylist, PvAlive
  <1>10. PvFree'
    <2> SUFFICES ASSUME NEW c \in PvIds, \A h \in PvGen : PvChannel[h] = c => ~PvAlive(h)'
                 PROVE  \/ pvDir[c].m3u8 = -1
                        \/ \E h \in PvGen : /\ PvChannel[h] = c /\ pv'[h].pc = "freed"
                                            /\ PvInList(h)
      BY <1>1, <1>5 DEF PvFree, PvFreeAt
    <2>1. CASE PvChannel[g] # c
      BY <1>1, <1>7, <2>1 DEF PvFree, PvFreeAt, PvAlive
    <2>2. CASE PvChannel[g] = c /\ pv[g].thread # "none"
      BY <1>1, <2>2 DEF PvList, PvListAt
    <2>3. CASE PvChannel[g] = c /\ pv[g].thread = "none"
      <3>1. pvDir[c].m3u8 = -1 \/ PvFreedBefore(g)
        BY <1>1, <2>3 DEF PvOwners, PvOwnerAt, PvAlive, PvHasPlaylist
      <3> QED
        BY <1>7, <2>3, <3>1 DEF PvFreedBefore, PvInList
    <2> QED
      BY <2>1, <2>2, <2>3
  <1>11. PvAhead'
    <2> SUFFICES ASSUME NEW h \in PvGen PROVE PvAheadAt(h)'
      BY DEF PvAhead
    <2>1. PvAheadAt(h) /\ ~PvRemoves(h)
      BY <1>4 DEF PvAhead
    <2> QED
      BY <1>1, <1>4, <2>1 DEF PvAheadAt, PvAlive, PvHasPlaylist
  <1> QED
    BY <1>2, <1>3, <1>4, <1>6, <1>9, <1>10, <1>11

-----------------------------------------------------------------------------
(* Steps of PreviewThread that change its directory.                       *)

\* The object a daemon works on was not deleted.
LEMMA PvObjAlive ==
  ASSUME PvInvariant, NEW d \in PvGen, PvAtObj(d)
  PROVE  /\ pvMod.i \in DOMAIN pvMod.objs /\ PvObj \in PvGen
         /\ PvAlive(PvObj) /\ ~PvUnlisted(PvObj) /\ PvInList(PvObj)
  <1>1. /\ pvMod.i \in DOMAIN pvMod.objs
        /\ pv[PvObj].pc # "freed"
    BY DEF PvInvariant, PvPass, PvPassAt, PvAtObj, PvInPass, PvObj
  <1>2. PvObj \in PvGen /\ PvInList(PvObj)
    BY <1>1 DEF PvInvariant, PvTyped, PvInList, PvObj
  <1>3. ~PvUnlisted(PvObj)
    BY <1>2 DEF PvInvariant, PvList, PvListAt
  <1> QED
    BY <1>1, <1>2, <1>3 DEF PvUnlisted, PvAlive

\* A step of the thread of g in its directory.
PvDirStep(g) ==
  /\ pvMod' = pvMod
  /\ PvAlive(g)
  /\ DOMAIN pv' = PvGen
  /\ DOMAIN pv'[g] = DOMAIN pv[g]
  /\ \A h \in PvGen : h # g => pv'[h] = pv[h]
  /\ pv'[g].pc = pv[g].pc /\ pv'[g].active = pv[g].active /\ pv'[g].last = pv[g].last
  /\ pv[g].thread \notin {"none", "joined"} /\ pv'[g].thread # "none"
  /\ DOMAIN pvDir' = PvIds
  /\ \A c \in PvIds : DOMAIN pvDir'[c] = DOMAIN pvDir[c]
  /\ \A c \in PvIds : c # PvChannel[g] => pvDir'[c] = pvDir[c]

\* Such a step keeps the invariant if it keeps what is said of g: no other element
\* has that directory.
LEMMA PvDirStepKeeps ==
  ASSUME PvInvariant, PvDistinct, NEW g \in PvGen, PvDirStep(g),
         PvDirAt(PvChannel[g])', PvOwnerAt(g)', PvAheadAt(g)',
         Cardinality(pvDir'[PvChannel[g]].files) <= 7 + 3 * PvPerPass,
         PvRemoves(g) => PvSeenBy(g)'
  PROVE  PvInvariant'
  <1> USE DEF PvInvariant
  <1>1. /\ pvMod' = pvMod
        /\ \A h \in PvGen : h # g => pv'[h] = pv[h]
        /\ pv'[g].pc = pv[g].pc /\ pv'[g].active = pv[g].active /\ pv'[g].last = pv[g].last
        /\ pv[g].thread \notin {"none", "joined"} /\ pv'[g].thread # "none"
        /\ \A c \in PvIds : c # PvChannel[g] => pvDir'[c] = pvDir[c]
        /\ PvAlive(g)
    BY DEF PvDirStep
  <1>2. PvTyped'
    BY DEF PvDirStep, PvTyped
  <1>3. PvDirs' /\ PvFilesBounded'
    BY <1>1 DEF PvDirs, PvDirAt, PvFilesBounded
  <1>4. \A h \in PvGen : PvInList(h)' <=> PvInList(h)
    BY <1>1 DEF PvInList
  <1>5. \A h \in PvGen : /\ PvAlive(h)' <=> PvAlive(h)
                         /\ pv'[h].pc = pv[h].pc
    BY <1>1 DEF PvAlive
  <1>6. PvList'
    <2> SUFFICES ASSUME NEW h \in PvGen PROVE PvListAt(h)'
      BY DEF PvList
    <2> QED
      BY <1>1, <1>4 DEF PvList, PvListAt, PvUnlisted
  <1>7. \A j \in DOMAIN pvMod.objs : pvMod.objs[j] \in PvGen
    BY DEF PvTyped
  <1>8. PvPass'
    <2> SUFFICES ASSUME NEW d \in PvGen PROVE PvPassAt(d)'
      BY <1>1 DEF PvPass, PvInPass
    <2> QED
      BY <1>1, <1>5, <1>7 DEF PvPass, PvPassAt, PvInPass, PvAtObj, PvObj
  <1>9. \A h \in PvGen : PvFreedBefore(h)' <=> PvFreedBefore(h)
    BY <1>1, <1>5, <1>7 DEF PvFreedBefore
  <1>10. \A h \in PvGen : PvAlive(h) /\ h # g => pvDir'[PvChannel[h]] = pvDir[PvChannel[h]]
    BY <1>1 DEF PvDistinct, PvAlive, PvIds
  <1>11. PvOwners'
    <2> SUFFICES ASSUME NEW h \in PvGen, h # g PROVE PvOwnerAt(h)'
      BY DEF PvOwners
    <2> QED
      BY <1>1, <1>5, <1>9, <1>10 DEF PvOwners, PvOwnerAt, PvUnopened, PvHasPlaylist
  <1>12. PvFree'
    BY <1>1, <1>4, <1>5 DEF PvFree, PvFreeAt
  <1>13. PvSeen'
    <2> SUFFICES ASSUME NEW d \in PvGen, pvMod.daemon[d] = "remove", pvMod.seen # -1
                 PROVE  PvSeenBy(PvObj)'
      BY <1>1 DEF PvSeen
    <2>1. PvSeenBy(PvObj) /\ PvObj' = PvObj
      BY <1>1 DEF PvSeen, PvObj
    <2>2. PvObj \in PvGen /\ PvAlive(PvObj)
      BY PvObjAlive DEF PvAtObj, PvInPass
    <2>3. CASE PvObj # g
      BY <1>1, <1>10, <2>1, <2>2, <2>3 DEF PvSeenBy, PvHasPlaylist, PvUnopened
    <2>4. CASE PvObj = g
      BY <2>1, <2>4 DEF PvRemoves
    <2> QED
      BY <2>3, <2>4
  <1>14. PvAhead'
    <2> SUFFICES ASSUME NEW h \in PvGen, h # g PROVE PvAheadAt(h)'
      BY DEF PvAhead
    <2>1. PvAheadAt(h) /\ (PvRemoves(h)' <=> PvRemoves(h))
      BY <1>1 DEF PvAhead, PvRemoves, PvObj
    <2> QED
      BY <1>1, <1>5, <1>10, <2>1 DEF PvAheadAt, PvHasPlaylist
  <1> QED
    BY <1>2, <1>3, <1>6, <1>8, <1>11, <1>12, <1>13, <1>14

\* CreatePreview: an empty directory.
LEMMA PvCreateKeeps ==
  ASSUME PvInvariant, PvDistinct, NEW g \in PvGen, pv[g].pc # "freed", UNCHANGED pvMod, PvCreate(g)
  PROVE  PvInvariant'
  <1> USE DEF PvInvariant
  <1> DEFINE c == PvChannel[g]
  <1>1. /\ DOMAIN pv = PvGen /\ DOMAIN pvDir = PvIds /\ c \in PvIds
        /\ DOMAIN pv[g] = {"pc", "thread", "running", "active", "queue", "last", "same"}
        /\ \A x \in PvIds : DOMAIN pvDir[x] = {"files", "m3u8", "next", "big", "fresh"}
    BY DEF PvTyped, PvIds
  <1>2. PvListAt(g) /\ PvOwnerAt(g)
    BY DEF PvList, PvOwners
  <1>3. /\ PvDirStep(g) /\ pv[g].thread = "new" /\ pv'[g].thread = "wait"
        /\ pvDir'[c] = [files |-> {}, m3u8 |-> -1, next |-> 0, big |-> -1, fresh |-> 0]
    BY <1>1, <1>2 DEF PvCreate, PvThreadGo, PvDirStep, PvListAt, PvAlive
  <1>4. PvDirAt(c)'
    BY <1>3, PvPerPassAssumption DEF PvDirAt
  <1>5. PvOwnerAt(g)'
    BY <1>2, <1>3 DEF PvOwnerAt, PvUnopened, PvDirStep
  <1>6. PvAheadAt(g)'
    BY <1>3 DEF PvAheadAt, PvHasPlaylist
  <1>7. Cardinality(pvDir'[c].files) <= 7 + 3 * PvPerPass
    BY <1>3, FS_EmptySet, PvPerPassAssumption
  <1>8. ~PvRemoves(g)
    BY <1>3 DEF PvRemoves, PvSeen, PvSeenBy, PvUnopened
  <1> QED
    BY <1>3, <1>4, <1>5, <1>6, <1>7, <1>8, PvDirStepKeeps

\* The muxer opens the first segment.
LEMMA PvOpenKeeps ==
  ASSUME PvInvariant, PvDistinct, NEW g \in PvGen, pv[g].pc # "freed", UNCHANGED pvMod, PvOpen(g),
         pv'[g].thread = "write"
  PROVE  PvInvariant'
  <1> USE DEF PvInvariant
  <1> DEFINE c == PvChannel[g]
  <1>1. /\ DOMAIN pv = PvGen /\ DOMAIN pvDir = PvIds /\ c \in PvIds
        /\ DOMAIN pv[g] = {"pc", "thread", "running", "active", "queue", "last", "same"}
        /\ \A x \in PvIds : DOMAIN pvDir[x] = {"files", "m3u8", "next", "big", "fresh"}
    BY DEF PvTyped, PvIds
  <1>2. PvListAt(g) /\ PvOwnerAt(g) /\ PvDirAt(c)
    BY <1>1 DEF PvList, PvOwners, PvDirs
  <1>3. pvDir' = [pvDir EXCEPT ![c].files = @ \cup {0}]
    BY <1>1 DEF PvOpen
  <1>4. /\ PvDirStep(g) /\ pv[g].thread = "open"
        /\ pvDir'[c].files = pvDir[c].files \cup {0}
        /\ pvDir'[c].m3u8 = pvDir[c].m3u8 /\ pvDir'[c].next = pvDir[c].next
        /\ pvDir'[c].big = pvDir[c].big /\ pvDir'[c].fresh = pvDir[c].fresh
    BY <1>1, <1>2, <1>3 DEF PvOpen, PvDirStep, PvListAt, PvAlive
  <1>5. pvDir[c].files = {} /\ pvDir[c].next = 0 /\ pv[g].last = 0
    BY <1>2, <1>4 DEF PvOwnerAt, PvUnopened, PvDirStep
  <1>6. PvDirAt(c)'
    BY <1>2, <1>4, <1>5 DEF PvDirAt
  <1>7. PvOwnerAt(g)'
    BY <1>2, <1>4 DEF PvOwnerAt, PvUnopened, PvHasPlaylist, PvDirStep
  <1>8. PvAheadAt(g)'
    <2>1. PvSlack \in Nat /\ pvDir[c].fresh \in Nat
      BY <1>2, PvPerPassAssumption DEF PvDirAt, PvSlack
    <2> QED
      BY <1>4, <1>5, <2>1 DEF PvAheadAt, PvDirStep
  <1>9. Cardinality(pvDir'[c].files) <= 7 + 3 * PvPerPass
    <2>1. pvDir'[c].files = {0}
      BY <1>4, <1>5
    <2>2. Cardinality({0}) = 1
      BY FS_Singleton
    <2> QED
      BY <2>1, <2>2, PvPerPassAssumption
  <1>10. ~PvRemoves(g)
    BY <1>4 DEF PvRemoves, PvSeen, PvSeenBy, PvUnopened
  <1> QED
    BY <1>4, <1>6, <1>7, <1>8, <1>9, <1>10, PvDirStepKeeps

\* The end of the loop: there is no playlist any more.
LEMMA PvDestroyKeeps ==
  ASSUME PvInvariant, PvDistinct, NEW g \in PvGen, pv[g].pc # "freed", UNCHANGED pvMod,
         PvDestroy(g)
  PROVE  PvInvariant'
  <1> USE DEF PvInvariant
  <1> DEFINE c == PvChannel[g]
  <1>1. /\ DOMAIN pv = PvGen /\ DOMAIN pvDir = PvIds /\ c \in PvIds
        /\ DOMAIN pv[g] = {"pc", "thread", "running", "active", "queue", "last", "same"}
        /\ \A x \in PvIds : DOMAIN pvDir[x] = {"files", "m3u8", "next", "big", "fresh"}
    BY DEF PvTyped, PvIds
  <1>2. PvListAt(g) /\ PvOwnerAt(g) /\ PvDirAt(c)
    BY <1>1 DEF PvList, PvOwners, PvDirs
  <1>3. /\ PvDirStep(g) /\ pv[g].thread = "destroy" /\ pv'[g].thread = "destroyed"
        /\ pvDir'[c].m3u8 = -1
        /\ pvDir'[c].files = pvDir[c].files /\ pvDir'[c].next = pvDir[c].next
        /\ pvDir'[c].big = pvDir[c].big /\ pvDir'[c].fresh = pvDir[c].fresh
    BY <1>1, <1>2 DEF PvDestroy, PvThreadGo, PvDirStep, PvListAt, PvAlive
  <1>4. PvDirAt(c)'
    BY <1>2, <1>3 DEF PvDirAt
  <1>5. PvOwnerAt(g)'
    BY <1>3 DEF PvOwnerAt, PvUnopened, PvDirStep
  <1>6. PvAheadAt(g)'
    BY <1>3 DEF PvAheadAt, PvHasPlaylist
  <1>7. Cardinality(pvDir'[c].files) <= 7 + 3 * PvPerPass
    BY <1>1, <1>3 DEF PvFilesBounded
  <1>8. PvRemoves(g) => PvSeenBy(g)'
    <2> SUFFICES ASSUME PvRemoves(g) PROVE PvSeenBy(g)'
      OBVIOUS
    <2>1. PvSeenBy(g)
      BY DEF PvSeen, PvRemoves
    <2> QED
      BY <1>3, <2>1 DEF PvSeenBy, PvHasPlaylist, PvUnopened, PvDirStep
  <1> QED
    BY <1>3, <1>4, <1>5, <1>6, <1>7, <1>8, PvDirStepKeeps

\* So many segments are in two intervals at most.
LEMMA PvTwoIntervals ==
  ASSUME NEW a \in Nat, NEW b \in Int, NEW n \in Nat, b <= n + 1,
         NEW F, \A k \in F : k \in Int /\ ((0 <= k /\ k < a) \/ (b <= k /\ k <= n))
  PROVE  IsFiniteSet(F) /\ Cardinality(F) <= a + (n + 1 - b)
  <1>1. F \subseteq (0..(a - 1)) \cup (b..n)
    OBVIOUS
  <1>2. /\ IsFiniteSet(0..(a - 1)) /\ Cardinality(0..(a - 1)) = a
        /\ IsFiniteSet(b..n) /\ Cardinality(b..n) = n + 1 - b
    <2>1. /\ IsFiniteSet(0..(a - 1))
          /\ Cardinality(0..(a - 1)) = IF 0 > a - 1 THEN 0 ELSE a - 1 - 0 + 1
      BY FS_Interval
    <2>2. IsFiniteSet(b..n) /\ Cardinality(b..n) = IF b > n THEN 0 ELSE n - b + 1
      BY FS_Interval
    <2> QED
      BY <2>1, <2>2
  <1>3. /\ IsFiniteSet((0..(a - 1)) \cup (b..n))
        /\ IsFiniteSet((0..(a - 1)) \cap (b..n))
        /\ Cardinality((0..(a - 1)) \cup (b..n))
             = Cardinality(0..(a - 1)) + Cardinality(b..n)
               - Cardinality((0..(a - 1)) \cap (b..n))
    BY <1>2, FS_Union, FS_Intersection
  <1>4. Cardinality((0..(a - 1)) \cap (b..n)) \in Nat
    BY <1>3, FS_CardinalityType
  <1>5. IsFiniteSet(F) /\ Cardinality(F) <= Cardinality((0..(a - 1)) \cup (b..n))
    BY <1>1, <1>3, FS_Subset
  <1>6. Cardinality(F) \in Nat /\ Cardinality((0..(a - 1)) \cup (b..n)) \in Nat
    BY <1>3, <1>5, FS_CardinalityType
  <1> QED
    BY <1>2, <1>3, <1>4, <1>5, <1>6

\* A segment ends, and the next one is opened.
LEMMA PvSegmentKeeps ==
  ASSUME PvInvariant, PvDistinct, PvKeepsUp, NEW g \in PvGen, pv[g].pc # "freed",
         UNCHANGED pvMod, PvRead(g), pvDir' # pvDir
  PROVE  PvInvariant'
  <1> USE DEF PvInvariant
  <1> DEFINE c == PvChannel[g]
             n == pvDir[c].next
  <1>1. /\ DOMAIN pv = PvGen /\ DOMAIN pvDir = PvIds /\ c \in PvIds
        /\ DOMAIN pv[g] = {"pc", "thread", "running", "active", "queue", "last", "same"}
        /\ \A x \in PvIds : DOMAIN pvDir[x] = {"files", "m3u8", "next", "big", "fresh"}
        /\ pv[g].last \in Nat
    BY DEF PvTyped, PvIds
  <1>2. PvListAt(g) /\ PvOwnerAt(g) /\ PvDirAt(c) /\ PvAheadAt(g)
    BY <1>1 DEF PvList, PvOwners, PvDirs, PvAhead
  <1>3. PICK big \in IF pvDir[c].big = -1 THEN {-1, n} ELSE {pvDir[c].big} :
          pvDir' = [pvDir EXCEPT
               ![c].m3u8 = n, ![c].next = @ + 1, ![c].fresh = @ + 1,
               ![c].files = @ \cup {n, n + 1}, ![c].big = big]
    BY DEF PvRead
  <1>4. /\ PvDirStep(g) /\ pv[g].thread = "read" /\ pv'[g].thread = "write"
        /\ pvDir[c].fresh < PvPerPass
    <2>1. /\ pv[g].thread = "read" /\ pvDir[c].fresh < PvPerPass
          /\ pv' = [pv EXCEPT ![g].queue = @ - 1, ![g].thread = "write"]
      BY DEF PvRead
    <2> QED
      BY <1>1, <1>2, <1>3, <2>1 DEF PvDirStep, PvListAt, PvAlive
  <1>5. /\ pvDir'[c].m3u8 = n /\ pvDir'[c].next = n + 1
        /\ pvDir'[c].fresh = pvDir[c].fresh + 1
        /\ pvDir'[c].files = pvDir[c].files \cup {n, n + 1}
        /\ pvDir'[c].big = big
    <2>1. DOMAIN pvDir[c] = {"files", "m3u8", "next", "big", "fresh"}
      BY <1>1
    <2>2. pvDir'[c] = [pvDir[c] EXCEPT !.m3u8 = n, !.next = @ + 1, !.fresh = @ + 1,
                                      !.files = @ \cup {n, n + 1}, !.big = big]
      BY <1>1, <1>3
    <2> QED
      BY <2>1, <2>2
  <1>6. /\ n \in Nat /\ PvPerPass \in Nat /\ PvPerPass <= 5
        /\ pvDir[c].fresh \in 0..PvPerPass
        /\ PvSlack \in Nat /\ PvWindow \in Nat /\ PvLeft \in Nat
        /\ pv[g].last <= n
        /\ PvAlive(g) /\ PvHasPlaylist(g)
    BY <1>1, <1>2, <1>4, PvPerPassAssumption
       DEF PvKeepsUp, PvDirAt, PvSlack, PvWindow, PvLeft, PvAheadAt, PvDirStep,
           PvHasPlaylist
  <1>7. PvDirAt(c)'
    <2>1. pvDir[c].files \cup {n, n + 1} \subseteq 0..(n + 1)
      BY <1>2, <1>6 DEF PvDirAt
    <2>2. \A k \in Nat : k \in {n, n - 1} => k \in pvDir[c].files \cup {n, n + 1, big}
      BY <1>2, <1>6 DEF PvDirAt
    <2> QED
      BY <1>4, <1>5, <1>6, <2>1, <2>2 DEF PvDirAt
  <1>8. PvOwnerAt(g)'
    BY <1>4 DEF PvOwnerAt, PvUnopened, PvHasPlaylist
  <1>9. PvRemoves(g) => /\ PvSeenBy(g)' /\ pvMod.seen \in Nat
                        /\ pvMod.seen <= pv[g].last + PvWindow
                        /\ n - 1 <= pvMod.seen + pvDir[c].fresh
    <2> SUFFICES ASSUME PvRemoves(g)
                 PROVE  /\ PvSeenBy(g)' /\ pvMod.seen \in Nat
                        /\ pvMod.seen <= pv[g].last + PvWindow
                        /\ n - 1 <= pvMod.seen + pvDir[c].fresh
      OBVIOUS
    <2>1. PvSeenBy(g)
      BY DEF PvSeen, PvRemoves
    <2> QED
      BY <1>4, <1>5, <1>6, <2>1 DEF PvSeenBy, PvHasPlaylist, PvUnopened, PvDirStep
  <1>10. PvAheadAt(g)'
    <2>1. pv'[g].last = pv[g].last /\ pvMod' = pvMod
      BY <1>4 DEF PvDirStep
    <2>2. pv'[g].last < pvDir'[c].next
      BY <1>1, <1>5, <1>6, <2>1
    <2>3. pv'[g].last > 5 =>
            \A k \in pvDir'[c].files : ~(PvLeft <= k /\ k <= pv'[g].last - 3)
      BY <1>1, <1>2, <1>5, <1>6, <2>1 DEF PvAheadAt
    <2>4. ~PvRemoves(g)' =>
            pvDir'[c].next - 1 <= pv'[g].last + PvSlack + pvDir'[c].fresh
      <3>1. PvRemoves(g)' <=> PvRemoves(g)
        BY <2>1 DEF PvRemoves, PvObj
      <3> QED
        BY <1>1, <1>2, <1>5, <1>6, <2>1, <3>1 DEF PvAheadAt
    <2>5. pvDir'[c].m3u8 # -1
      BY <1>5, <1>6
    <2> QED
      BY <2>2, <2>3, <2>4, <2>5 DEF PvAheadAt
  <1>11. Cardinality(pvDir'[c].files) <= 7 + 3 * PvPerPass
    <2>1. /\ n - 1 <= pv[g].last + PvWindow + PvPerPass - 1
          /\ pvDir[c].files \subseteq 0..n
      BY <1>1, <1>2, <1>4, <1>6, <1>9 DEF PvAheadAt, PvDirAt, PvWindow
    <2>2. PICK F : F = pvDir'[c].files
      OBVIOUS
    <2>3. n + 1 \in Nat /\ pv[g].last - 2 \in Int
      BY <1>1, <1>6
    <2>4. CASE pv[g].last <= 5
      <3>1. \A k \in F : k \in Int /\ ((0 <= k /\ k < 0) \/ (0 <= k /\ k <= n + 1))
        BY <1>5, <1>6, <2>1, <2>2
      <3>2. IsFiniteSet(F) /\ Cardinality(F) <= 0 + ((n + 1) + 1 - 0)
        <4>1. 0 \in Nat /\ 0 \in Int /\ 0 <= (n + 1) + 1
          BY <2>3
        <4> QED
          BY <2>3, <3>1, <4>1, PvTwoIntervals
      <3>3. Cardinality(F) \in Nat
        BY <3>2, FS_CardinalityType
      <3> QED
        BY <1>1, <1>6, <2>1, <2>2, <2>4, <3>2, <3>3 DEF PvWindow, PvSlack
    <2>5. CASE pv[g].last > 5
      <3>1. \A k \in F :
              k \in Int /\ ((0 <= k /\ k < PvLeft) \/ (pv[g].last - 2 <= k /\ k <= n + 1))
        BY <1>1, <1>2, <1>5, <1>6, <2>1, <2>2, <2>5 DEF PvAheadAt
      <3>2. PvLeft \in Nat /\ pv[g].last - 2 <= (n + 1) + 1
        BY <1>1, <1>6
      <3>3. /\ IsFiniteSet(F)
            /\ Cardinality(F) <= PvLeft + ((n + 1) + 1 - (pv[g].last - 2))
        BY <2>3, <3>1, <3>2, PvTwoIntervals
      <3>4. Cardinality(F) \in Nat
        BY <3>3, FS_CardinalityType
      <3> QED
        BY <1>1, <1>6, <2>1, <2>2, <2>5, <3>3, <3>4 DEF PvWindow, PvSlack, PvLeft
    <2> QED
      BY <1>1, <2>4, <2>5
  <1> QED
    BY <1>4, <1>7, <1>8, <1>9, <1>10, <1>11, PvDirStepKeeps

\* A step that only uses a freed object, or none.
LEMMA PvStutterKeeps ==
  ASSUME PvInvariant, UNCHANGED <<pv, pvDir, pvMod>>
  PROVE  PvInvariant'
  <1> USE DEF PvInvariant
  <1>1. PvTyped' /\ PvDirs' /\ PvFilesBounded'
    BY DEF PvTyped, PvDirs, PvDirAt, PvFilesBounded
  <1>2. \A h \in PvGen : /\ PvInList(h)' <=> PvInList(h)
                         /\ PvFreedBefore(h)' <=> PvFreedBefore(h)
                         /\ PvRemoves(h)' <=> PvRemoves(h)
                         /\ PvAlive(h)' <=> PvAlive(h)
    BY DEF PvInList, PvFreedBefore, PvRemoves, PvObj, PvAlive
  <1>3. PvList'
    BY <1>2 DEF PvList, PvListAt, PvUnlisted
  <1>4. PvPass'
    BY DEF PvPass, PvPassAt, PvInPass, PvAtObj, PvObj
  <1>5. PvOwners'
    BY <1>2 DEF PvOwners, PvOwnerAt, PvUnopened, PvHasPlaylist
  <1>6. PvFree'
    BY <1>2 DEF PvFree, PvFreeAt
  <1>7. PvSeen'
    BY DEF PvSeen, PvSeenBy, PvObj, PvUnopened, PvHasPlaylist
  <1>8. PvAhead'
    BY <1>2 DEF PvAhead, PvAheadAt, PvHasPlaylist
  <1> QED
    BY <1>1, <1>3, <1>4, <1>5, <1>6, <1>7, <1>8

\* Every step of PreviewThread.
LEMMA PvThreadKeeps ==
  ASSUME PvInvariant, PvDistinct, PvKeepsUp, NEW g \in PvGen, PvThread(g)
  PROVE  PvInvariant'
  <1>1. CASE pv[g].pc = "freed"
    BY <1>1, PvStutterKeeps DEF PvThread
  <1>2. CASE pv[g].pc # "freed"
    <2>1. /\ UNCHANGED pvMod
          /\ \/ PvCreate(g) \/ PvWait(g) \/ PvOpen(g) \/ PvReadNothing(g) \/ PvWrite(g)
             \/ PvRead(g) \/ PvDestroy(g) \/ PvFailed(g) \/ PvEnds(g)
      BY <1>2 DEF PvThread
    <2>2. /\ DOMAIN pv = PvGen
          /\ DOMAIN pv[g] = {"pc", "thread", "running", "active", "queue", "last", "same"}
      BY DEF PvInvariant, PvTyped
    <2>3. CASE PvCreate(g)
      BY <1>2, <2>1, <2>3, PvCreateKeeps
    <2>4. CASE PvDestroy(g)
      BY <1>2, <2>1, <2>4, PvDestroyKeeps
    <2>5. CASE PvOpen(g)
      <3>1. CASE pv'[g].thread = "write"
        BY <1>2, <2>1, <2>5, <3>1, PvOpenKeeps
      <3>2. CASE pv'[g].thread # "write"
        <4>1. UNCHANGED pvDir /\ (PvHasPlaylist(g)' <=> PvHasPlaylist(g))
          BY <2>2, <2>5, <3>2 DEF PvOpen, PvHasPlaylist
        <4> QED
          BY <1>2, <2>1, <2>5, <4>1, PvThreadQuiet, PvQuietKeeps
      <3> QED
        BY <3>1, <3>2
    <2>6. CASE PvRead(g)
      <3>1. CASE pvDir' # pvDir
        BY <1>2, <2>1, <2>6, <3>1, PvSegmentKeeps
      <3>2. CASE pvDir' = pvDir
        <4>1. PvHasPlaylist(g)' <=> PvHasPlaylist(g)
          BY <2>2, <2>6 DEF PvRead, PvHasPlaylist
        <4> QED
          BY <1>2, <2>1, <2>6, <3>2, <4>1, PvThreadQuiet, PvQuietKeeps
      <3> QED
        BY <3>1, <3>2
    <2>7. CASE PvWait(g) \/ PvReadNothing(g) \/ PvWrite(g) \/ PvFailed(g) \/ PvEnds(g)
      <3>1. UNCHANGED pvDir /\ (PvHasPlaylist(g)' <=> PvHasPlaylist(g))
        BY <2>2, <2>7 DEF PvWait, PvReadNothing, PvWrite, PvFailed, PvEnds, PvThreadGo,
           PvHasPlaylist
      <3> QED
        BY <1>2, <2>1, <2>7, <3>1, PvThreadQuiet, PvQuietKeeps
    <2> QED
      BY <2>1, <2>3, <2>4, <2>5, <2>6, <2>7
  <1> QED
    BY <1>1, <1>2

-----------------------------------------------------------------------------
(* The daemon.                                                             *)

\* A step of daemon d: no other is in a pass.
PvDaemonStep(d) ==
  /\ DOMAIN pvMod' = DOMAIN pvMod /\ DOMAIN pvMod'.daemon = PvGen
  /\ pvMod'.objs = pvMod.objs
  /\ pvMod'.i \in Nat \ {0} /\ pvMod'.seen \in Int
  /\ pvMod.daemon[d] # "none" /\ pvMod'.daemon[d] # "none"
  /\ \A e \in PvGen : e # d => pvMod'.daemon[e] = pvMod.daemon[e] /\ ~PvInPass(e)
  /\ PvPassAt(d)'

\* What every step of the daemon keeps.
LEMMA PvDaemonStepKeeps ==
  ASSUME PvInvariant, NEW d \in PvGen, PvDaemonStep(d)
  PROVE  /\ DOMAIN pvMod' = {"queueLen", "objs", "daemon", "i", "seen"}
         /\ \A h \in PvGen : PvInList(h)' <=> PvInList(h)
         /\ PvPass'
         /\ pvMod'.daemon[d] # "remove" => PvSeen' /\ \A h \in PvGen : ~PvRemoves(h)'
         /\ pvMod.daemon[d] # "remove" => \A h \in PvGen : ~PvRemoves(h)
  <1> USE DEF PvInvariant
  <1>1. /\ DOMAIN pvMod' = DOMAIN pvMod
        /\ pvMod'.objs = pvMod.objs
        /\ \A e \in PvGen : e # d => pvMod'.daemon[e] = pvMod.daemon[e] /\ ~PvInPass(e)
        /\ PvPassAt(d)'
    BY DEF PvDaemonStep
  <1>2. \A e \in PvGen : e # d => ~PvInPass(e)'
    BY <1>1 DEF PvInPass
  <1>3. PvPass'
    BY <1>1, <1>2 DEF PvPass, PvPassAt
  <1>4. pvMod'.daemon[d] # "remove" => PvSeen' /\ \A h \in PvGen : ~PvRemoves(h)'
    BY <1>2 DEF PvSeen, PvRemoves, PvInPass
  <1>5. pvMod.daemon[d] # "remove" => \A h \in PvGen : ~PvRemoves(h)
    BY <1>1 DEF PvRemoves, PvInPass
  <1> QED
    BY <1>1, <1>3, <1>4, <1>5 DEF PvTyped, PvInList

\* A pass begins or ends, or the daemon goes on.
LEMMA PvDaemonGoesOn ==
  ASSUME PvInvariant, NEW d \in PvGen, UNCHANGED <<pv, pvDir>>,
         \/ PvDaemonPass(d) \/ PvDaemonSleeps(d) \/ PvDaemonRunning(d) \/ PvDaemonActive(d)
  PROVE  PvInvariant'
  <1> USE DEF PvInvariant
  <1>1. /\ DOMAIN pvMod = {"queueLen", "objs", "daemon", "i", "seen"}
        /\ DOMAIN pvMod.daemon = PvGen /\ pvMod.i \in Nat \ {0} /\ pvMod.seen \in Int
        /\ Len(pvMod.objs) \in Nat /\ DOMAIN pvMod.objs = 1..Len(pvMod.objs)
    BY DEF PvTyped
  <1>2. pvMod.daemon[d] # "remove" /\ pvMod'.daemon[d] # "remove"
    BY <1>1 DEF PvDaemonPass, PvDaemonSleeps, PvDaemonRunning, PvDaemonActive, PvDaemonGo,
       PvDaemonNext
  <1>3. PvDaemonStep(d)
    <2>1. \A e \in PvGen : e # d => ~PvInPass(e)
      BY DEF PvPass, PvInPass, PvObjMtxFree, PvDaemonPass, PvDaemonSleeps, PvDaemonRunning,
         PvDaemonActive
    <2>2. CASE PvDaemonPass(d)
      BY <1>1, <2>1, <2>2 DEF PvDaemonPass, PvDaemonStep, PvPassAt, PvInPass, PvAtObj
    <2>3. CASE PvDaemonSleeps(d)
      BY <1>1, <2>1, <2>3 DEF PvDaemonSleeps, PvDaemonGo, PvDaemonStep, PvPassAt, PvInPass
    <2>4. CASE PvDaemonRunning(d) \/ PvDaemonActive(d)
      <3>1. /\ pvMod.daemon[d] \in {"running", "active"}
            /\ \/ PvDaemonGo(d, "active") \/ PvDaemonGo(d, "join") \/ PvDaemonNext(d)
        BY <2>4 DEF PvDaemonRunning, PvDaemonActive
      <3>2. /\ DOMAIN pvMod' = DOMAIN pvMod /\ DOMAIN pvMod'.daemon = PvGen
            /\ pvMod'.objs = pvMod.objs /\ pvMod'.seen = pvMod.seen
            /\ \A e \in PvGen : e # d => pvMod'.daemon[e] = pvMod.daemon[e]
            /\ \/ pvMod'.daemon[d] \in {"active", "join"} /\ pvMod'.i = pvMod.i
               \/ pvMod'.daemon[d] = "look" /\ pvMod'.i = pvMod.i + 1
        <4>1. CASE PvDaemonGo(d, "active")
          BY <1>1, <4>1 DEF PvDaemonGo
        <4>2. CASE PvDaemonGo(d, "join")
          BY <1>1, <4>2 DEF PvDaemonGo
        <4>3. CASE PvDaemonNext(d)
          BY <1>1, <4>3 DEF PvDaemonNext
        <4> QED
          BY <3>1, <4>1, <4>2, <4>3
      <3>3. /\ pvMod.i \in DOMAIN pvMod.objs
            /\ \A j \in DOMAIN pvMod.objs : j <= pvMod.i => pv[pvMod.objs[j]].pc # "freed"
        BY <1>1, <3>1 DEF PvPass, PvPassAt, PvInPass, PvAtObj
      <3>4. PvPassAt(d)'
        <4>1. \A j \in DOMAIN pvMod.objs :
                j < pvMod'.i \/ (j = pvMod'.i /\ PvAtObj(d)') => j <= pvMod.i
          BY <1>1, <3>1, <3>2 DEF PvAtObj, PvInPass
        <4>2. PvAtObj(d)' => pvMod'.i \in DOMAIN pvMod.objs
          BY <3>2, <3>3 DEF PvAtObj
        <4> QED
          BY <3>1, <3>2, <3>3, <4>1, <4>2 DEF PvPassAt
      <3> QED
        BY <1>1, <2>1, <3>1, <3>2, <3>4 DEF PvDaemonStep
    <2> QED
      BY <2>2, <2>3, <2>4
  <1>4. /\ DOMAIN pvMod' = {"queueLen", "objs", "daemon", "i", "seen"}
        /\ \A h \in PvGen : PvInList(h)' <=> PvInList(h)
        /\ PvPass' /\ PvSeen'
        /\ \A h \in PvGen : ~PvRemoves(h)' /\ ~PvRemoves(h)
    BY <1>2, <1>3, PvDaemonStepKeeps
  <1>5. PvTyped'
    BY <1>3, <1>4 DEF PvTyped, PvDaemonStep
  <1>6. PvDirs' /\ PvFilesBounded'
    BY DEF PvDirs, PvDirAt, PvFilesBounded
  <1>7. PvList'
    <2> SUFFICES ASSUME NEW h \in PvGen PROVE PvListAt(h)'
      BY DEF PvList
    <2> QED
      BY <1>3, <1>4 DEF PvList, PvListAt, PvUnlisted, PvDaemonStep
  <1>8. \A h \in PvGen : PvFreedBefore(h)' <=> PvFreedBefore(h)
    BY <1>3 DEF PvFreedBefore, PvDaemonStep
  <1>9. PvOwners' /\ PvFree'
    BY <1>4, <1>8 DEF PvOwners, PvOwnerAt, PvUnopened, PvAlive, PvHasPlaylist, PvFree, PvFreeAt
  <1>10. PvAhead'
    BY <1>4 DEF PvAhead, PvAheadAt, PvAlive, PvHasPlaylist
  <1> QED
    BY <1>4, <1>5, <1>6, <1>7, <1>9, <1>10

\* The object that a daemon is at, and the directory of it.
LEMMA PvAtTheObject ==
  ASSUME PvInvariant, NEW d \in PvGen, PvInPass(d), pvMod.i \in DOMAIN pvMod.objs,
         pv[PvObj].pc # "freed"
  PROVE  /\ PvObj \in PvGen /\ PvInList(PvObj) /\ PvAlive(PvObj) /\ ~PvFreedBefore(PvObj)
         /\ ~PvUnlisted(PvObj)
         /\ PvChannel[PvObj] \in PvIds
         /\ pvDir[PvChannel[PvObj]].m3u8 # -1 => PvHasPlaylist(PvObj)
  <1> USE DEF PvInvariant
  <1>1. PvObj \in PvGen /\ PvInList(PvObj) /\ PvObj = pvMod.objs[pvMod.i]
    BY DEF PvTyped, PvObj, PvInList
  <1>2. PvAlive(PvObj) /\ ~PvUnlisted(PvObj)
    BY <1>1 DEF PvList, PvListAt, PvUnlisted, PvAlive
  <1>3. ~PvFreedBefore(PvObj)
    BY <1>1 DEF PvPass, PvPassAt, PvFreedBefore
  <1> QED
    BY <1>1, <1>2, <1>3 DEF PvIds, PvOwners, PvOwnerAt

\* The daemon reads a playlist.
LEMMA PvLookKeeps ==
  ASSUME PvInvariant, PvDistinct, NEW d \in PvGen, PvDaemonLook(d), pv[PvObj].pc # "freed"
  PROVE  PvInvariant'
  <1> USE DEF PvInvariant
  <1>1. /\ DOMAIN pvMod = {"queueLen", "objs", "daemon", "i", "seen"}
        /\ DOMAIN pvMod.daemon = PvGen /\ pvMod.i \in Nat \ {0}
        /\ Len(pvMod.objs) \in Nat /\ DOMAIN pvMod.objs = 1..Len(pvMod.objs)
        /\ DOMAIN pvDir = PvIds
        /\ \A c \in PvIds : DOMAIN pvDir[c] = {"files", "m3u8", "next", "big", "fresh"}
    BY DEF PvTyped
  <1>2. /\ pvMod.daemon[d] = "look" /\ PvInPass(d) /\ pvMod.i \in DOMAIN pvMod.objs
        /\ pv' = pv
        /\ pvMod' = [pvMod EXCEPT !.daemon[d] = "remove",
                                  !.seen = pvDir[PvChannel[PvObj]].m3u8]
        /\ pvDir' = [pvDir EXCEPT ![PvChannel[PvObj]].fresh = 0]
    BY <1>1 DEF PvDaemonLook, PvInPass
  <1>3. PICK g \in PvGen : g = PvObj
    BY <1>2, PvAtTheObject
  <1>4. PICK c \in PvIds : c = PvChannel[g]
    BY <1>3 DEF PvIds
  <1>5. /\ PvInList(g) /\ PvAlive(g) /\ ~PvFreedBefore(g)
        /\ pvDir[c].m3u8 # -1 => PvHasPlaylist(g)
    BY <1>2, <1>3, <1>4, PvAtTheObject
  <1>6. /\ DOMAIN pvMod' = DOMAIN pvMod /\ DOMAIN pvMod'.daemon = PvGen
        /\ pvMod'.objs = pvMod.objs /\ pvMod'.i = pvMod.i
        /\ pvMod'.seen = pvDir[c].m3u8
        /\ pvMod'.daemon[d] = "remove"
        /\ \A e \in PvGen : e # d => pvMod'.daemon[e] = pvMod.daemon[e]
        /\ PvObj' = g
    BY <1>1, <1>2, <1>3, <1>4 DEF PvObj
  <1>7. /\ DOMAIN pvDir' = PvIds
        /\ \A x \in PvIds : /\ DOMAIN pvDir'[x] = DOMAIN pvDir[x]
                            /\ pvDir'[x].files = pvDir[x].files
                            /\ pvDir'[x].m3u8 = pvDir[x].m3u8
                            /\ pvDir'[x].next = pvDir[x].next
                            /\ pvDir'[x].big = pvDir[x].big
                            /\ x # c => pvDir'[x] = pvDir[x]
        /\ pvDir'[c].fresh = 0
    BY <1>1, <1>2, <1>3, <1>4
  <1>8. PvDirAt(c) /\ PvPerPass \in Nat
    BY PvPerPassAssumption DEF PvDirs
  <1>9. PvDaemonStep(d)
    <2>1. \A e \in PvGen : e # d => ~PvInPass(e)
      BY <1>2 DEF PvPass
    <2>2. PvPassAt(d)'
      <3>1. \A j \in DOMAIN pvMod.objs : j < pvMod.i => pv[pvMod.objs[j]].pc # "freed"
        BY <1>2 DEF PvPass, PvPassAt
      <3>2. pv[pvMod.objs[pvMod.i]].pc # "freed"
        BY <1>3, <1>5 DEF PvObj, PvAlive
      <3> QED
        BY <1>2, <1>6, <3>1, <3>2 DEF PvPassAt, PvInPass, PvAtObj
    <2>3. pvMod'.seen \in Int
      BY <1>6, <1>8 DEF PvDirAt
    <2> QED
      BY <1>1, <1>2, <1>6, <2>1, <2>2, <2>3 DEF PvDaemonStep
  <1>10. /\ DOMAIN pvMod' = {"queueLen", "objs", "daemon", "i", "seen"}
         /\ \A h \in PvGen : PvInList(h)' <=> PvInList(h)
         /\ PvPass'
         /\ \A h \in PvGen : ~PvRemoves(h)
    BY <1>2, <1>9, PvDaemonStepKeeps
  <1>11. PvTyped'
    BY <1>2, <1>7, <1>9, <1>10 DEF PvTyped, PvDaemonStep
  <1>12. PvDirs' /\ PvFilesBounded'
    <2>1. PvFilesBounded'
      BY <1>7 DEF PvFilesBounded
    <2>2. ASSUME NEW x \in PvIds PROVE PvDirAt(x)'
      <3>1. pvDir'[x].fresh \in 0..PvPerPass
        BY <1>7, <1>8 DEF PvDirs, PvDirAt
      <3> QED
        BY <1>7, <3>1 DEF PvDirs, PvDirAt
    <2> QED
      BY <2>1, <2>2 DEF PvDirs
  <1>13. PvList'
    <2> SUFFICES ASSUME NEW h \in PvGen PROVE PvListAt(h)'
      BY DEF PvList
    <2> QED
      BY <1>2, <1>9, <1>10 DEF PvList, PvListAt, PvUnlisted, PvDaemonStep
  <1>14. \A h \in PvGen : PvFreedBefore(h)' <=> PvFreedBefore(h)
    BY <1>2, <1>6 DEF PvFreedBefore
  <1>15. \A h \in PvGen : PvChannel[h] \in PvIds
    BY DEF PvIds
  <1>16. PvOwners' /\ PvFree'
    BY <1>2, <1>7, <1>10, <1>14, <1>15 DEF PvOwners, PvOwnerAt, PvUnopened, PvAlive,
       PvHasPlaylist, PvFree, PvFreeAt
  <1>17. /\ PvSlack \in Nat /\ PvWindow = PvSlack + PvPerPass
         /\ pvDir[c].next \in Nat /\ pvDir[c].m3u8 \in {-1, pvDir[c].next - 1}
         /\ pvDir[c].fresh \in Nat /\ pvDir[c].fresh <= PvPerPass
         /\ pv[g].last \in Nat /\ PvAheadAt(g)
    BY <1>8 DEF PvSlack, PvWindow, PvDirAt, PvTyped, PvAhead
  <1>18. pvMod'.seen = -1 \/ PvSeenBy(g)'
    <2> SUFFICES ASSUME pvDir[c].m3u8 # -1 PROVE PvSeenBy(g)'
      BY <1>6
    <2>1. /\ pv[g].last <= pvDir[c].next - 1 /\ pvDir[c].next - 1 >= 0
          /\ pvDir[c].next - 1 <= pv[g].last + PvSlack + pvDir[c].fresh
      BY <1>4, <1>5, <1>10, <1>17 DEF PvAheadAt
    <2>2. PvHasPlaylist(g)' /\ ~PvUnopened(g)'
      BY <1>2, <1>5 DEF PvHasPlaylist, PvUnopened
    <2> QED
      <3>1. /\ pvMod'.seen = pvDir[c].next - 1 /\ pvDir'[c].next = pvDir[c].next
            /\ pvDir'[c].m3u8 # -1 /\ pvDir'[c].fresh = 0 /\ pv'[g].last = pv[g].last
        BY <1>2, <1>6, <1>7, <1>17
      <3>2. /\ pvMod'.seen \in Nat
            /\ pvMod'.seen < pvDir'[c].next
            /\ pvDir'[c].next - 1 <= pvMod'.seen + pvDir'[c].fresh
            /\ pv'[g].last <= pvMod'.seen /\ pvMod'.seen <= pv'[g].last + PvWindow
        BY <1>8, <1>17, <2>1, <3>1
      <3> QED
        BY <1>4, <2>2, <3>1, <3>2 DEF PvSeenBy
  <1>19. PvSeen'
    BY <1>6, <1>9, <1>18 DEF PvSeen, PvDaemonStep, PvInPass
  <1>20. PvAhead'
    <2> SUFFICES ASSUME NEW h \in PvGen, PvAlive(h)', PvHasPlaylist(h)' PROVE PvAheadAt(h)'
      BY DEF PvAhead, PvAheadAt
    <2>1. PvAheadAt(h) /\ PvAlive(h) /\ PvHasPlaylist(h)
      BY <1>2 DEF PvAhead, PvAlive, PvHasPlaylist
    <2>2. CASE h = g
      <3>1. ~PvRemoves(h)' => pvDir[c].m3u8 = -1
        BY <1>2, <1>6, <2>2 DEF PvRemoves
      <3>2. ~PvRemoves(h)' => pvDir[c].next - 1 <= pv[h].last + PvSlack
        BY <1>4, <1>10, <2>1, <2>2, <3>1 DEF PvAheadAt
      <3>3. /\ pv[h].last < pvDir[c].next \/ pv[h].last = 0
            /\ pv[h].last > 5 =>
                 \A k \in pvDir[c].files : ~(PvLeft <= k /\ k <= pv[h].last - 3)
        BY <1>4, <2>1, <2>2 DEF PvAheadAt
      <3> QED
        BY <1>2, <1>4, <1>7, <1>17, <2>2, <3>2, <3>3 DEF PvAheadAt
    <2>3. CASE h # g
      <3>1. PvChannel[h] # c
        BY <1>4, <1>5, <2>1, <2>3 DEF PvDistinct, PvAlive
      <3> QED
        BY <1>2, <1>7, <1>10, <1>15, <2>1, <3>1 DEF PvAheadAt
    <2> QED
      BY <2>2, <2>3
  <1> QED
    BY <1>10, <1>11, <1>12, <1>13, <1>16, <1>19, <1>20

\* The daemon removes the segments before those it has read of.
LEMMA PvDelOldKeeps ==
  ASSUME PvInvariant, PvDistinct, PvKeepsUp, NEW d \in PvGen, PvDelOldTsFile(d)
  PROVE  PvInvariant'
  <1> USE DEF PvInvariant
  <1>1. /\ DOMAIN pvMod = {"queueLen", "objs", "daemon", "i", "seen"}
        /\ DOMAIN pvMod.daemon = PvGen /\ pvMod.i \in Nat \ {0} /\ pvMod.seen \in Int
        /\ DOMAIN pvDir = PvIds /\ DOMAIN pv = PvGen
        /\ \A c \in PvIds : DOMAIN pvDir[c] = {"files", "m3u8", "next", "big", "fresh"}
        /\ \A h \in PvGen :
             /\ DOMAIN pv[h] = {"pc", "thread", "running", "active", "queue", "last", "same"}
             /\ pv[h].last \in Nat
    BY DEF PvTyped
  <1>2. /\ pvMod.daemon[d] = "remove" /\ PvInPass(d) /\ pvMod.i \in DOMAIN pvMod.objs
        /\ pv[PvObj].pc # "freed"
        /\ pvMod' = [pvMod EXCEPT !.daemon[d] = "running"]
    BY DEF PvDelOldTsFile, PvDaemonGo, PvInPass, PvPass, PvPassAt, PvAtObj, PvObj
  <1>3. PICK g \in PvGen : g = PvObj
    BY <1>2, PvAtTheObject
  <1>4. PICK c \in PvIds : c = PvChannel[g]
    BY <1>3 DEF PvIds
  <1>5. PvInList(g) /\ PvAlive(g)
    BY <1>2, <1>3, PvAtTheObject
  <1>6. PICK n \in Int : n = pvMod.seen
    BY <1>1
  <1>7. PICK stuck \in BOOLEAN :
          /\ stuck <=> n # -1 /\ n = pv[g].last /\ pv[g].same = PvSame
          /\ pvDir' = [pvDir EXCEPT
               ![c].files = (@ \ PvOld(n)) \ ({pvDir[c].big} \cap PvLooksAt(n)),
               ![c].m3u8 = IF stuck THEN -1 ELSE @]
          /\ pv' = [pv EXCEPT
               ![g].last = IF n = -1 THEN @ ELSE n,
               ![g].same = IF n = -1 THEN @ ELSE IF n # pv[g].last \/ stuck THEN 0 ELSE @ + 1]
    BY <1>3, <1>4, <1>6 DEF PvDelOldTsFile
  <1>8. /\ DOMAIN pvMod' = DOMAIN pvMod /\ DOMAIN pvMod'.daemon = PvGen
        /\ pvMod'.objs = pvMod.objs /\ pvMod'.i = pvMod.i /\ pvMod'.seen = n
        /\ pvMod'.daemon[d] = "running"
        /\ \A e \in PvGen : e # d => pvMod'.daemon[e] = pvMod.daemon[e]
    BY <1>1, <1>2, <1>6
  <1>9. /\ DOMAIN pvDir' = PvIds
        /\ \A x \in PvIds : /\ DOMAIN pvDir'[x] = DOMAIN pvDir[x]
                            /\ x # c => pvDir'[x] = pvDir[x]
        /\ pvDir'[c].files = (pvDir[c].files \ PvOld(n)) \ ({pvDir[c].big} \cap PvLooksAt(n))
        /\ pvDir'[c].m3u8 = IF stuck THEN -1 ELSE pvDir[c].m3u8
        /\ pvDir'[c].next = pvDir[c].next
        /\ pvDir'[c].big = pvDir[c].big
        /\ pvDir'[c].fresh = pvDir[c].fresh
    BY <1>1, <1>4, <1>7
  <1>10. /\ DOMAIN pv' = PvGen
         /\ \A h \in PvGen : /\ DOMAIN pv'[h] = DOMAIN pv[h]
                             /\ h # g => pv'[h] = pv[h]
                             /\ pv'[h].pc = pv[h].pc /\ pv'[h].thread = pv[h].thread
                             /\ pv'[h].active = pv[h].active
         /\ pv'[g].last = IF n = -1 THEN pv[g].last ELSE n
    BY <1>1, <1>3, <1>7
  <1>11. \A h \in PvGen : /\ PvAlive(h)' <=> PvAlive(h)
                          /\ PvHasPlaylist(h)' <=> PvHasPlaylist(h)
                          /\ PvUnopened(h)' <=> PvUnopened(h)
                          /\ PvChannel[h] \in PvIds
    BY <1>10 DEF PvAlive, PvHasPlaylist, PvUnopened, PvIds
  <1>12. n = -1 \/ PvSeenBy(g)
    BY <1>2, <1>3, <1>6 DEF PvSeen
  <1>13. /\ PvDirAt(c) /\ PvAheadAt(g) /\ PvOwnerAt(g)
         /\ PvPerPass \in Nat /\ PvSlack \in Nat
    BY PvPerPassAssumption DEF PvDirs, PvAhead, PvOwners, PvSlack
  <1>14. PvDaemonStep(d)
    <2>1. \A e \in PvGen : e # d => ~PvInPass(e)
      BY <1>2 DEF PvPass
    <2>2. PvPassAt(d)'
      <3>1. PvPassAt(d) /\ PvAtObj(d)
        BY <1>2 DEF PvPass, PvAtObj
      <3>2. \A j \in DOMAIN pvMod.objs : pvMod.objs[j] \in PvGen
        BY DEF PvTyped
      <3> QED
        BY <1>2, <1>8, <1>10, <3>1, <3>2 DEF PvPassAt, PvInPass, PvAtObj
    <2> QED
      BY <1>1, <1>2, <1>8, <2>1, <2>2 DEF PvDaemonStep
  <1>15. /\ DOMAIN pvMod' = {"queueLen", "objs", "daemon", "i", "seen"}
         /\ \A h \in PvGen : PvInList(h)' <=> PvInList(h)
         /\ PvPass' /\ PvSeen'
         /\ \A h \in PvGen : ~PvRemoves(h)'
    BY <1>8, <1>14, PvDaemonStepKeeps
  <1>16. PvTyped'
    <2>1. \A h \in PvGen : pv'[h].last \in Nat
      BY <1>1, <1>6, <1>10, <1>12 DEF PvSeenBy
    <2> QED
      BY <1>1, <1>9, <1>10, <1>14, <1>15, <2>1 DEF PvTyped, PvDaemonStep
  <1>17. pvDir'[c].files \subseteq pvDir[c].files
    BY <1>9
  <1>18. \A k \in Nat : k \in {pvDir[c].next - 1, pvDir[c].next - 2} => k \notin PvOld(n)
    <2>1. CASE n = -1
      BY <2>1 DEF PvOld
    <2>2. CASE n \in Nat /\ n < pvDir[c].next
      BY <1>13, <2>2 DEF PvOld, PvDirAt
    <2> QED
      BY <1>4, <1>6, <1>12, <2>1, <2>2 DEF PvSeenBy
  <1>19. PvDirAt(c)'
    <2>1. \A k \in Nat : k \in {pvDir[c].next - 1, pvDir[c].next - 2} =>
            k \in pvDir'[c].files \cup {pvDir[c].big}
      BY <1>9, <1>13, <1>18 DEF PvDirAt
    <2>2. pvDir'[c].m3u8 \in {-1, pvDir[c].next - 1}
      BY <1>9, <1>13 DEF PvDirAt
    <2> QED
      BY <1>9, <1>13, <1>17, <2>1, <2>2 DEF PvDirAt
  <1>20. PvDirs'
    BY <1>9, <1>19 DEF PvDirs, PvDirAt
  <1>21. PvFilesBounded'
    <2>1. Cardinality(pvDir'[c].files) <= 7 + 3 * PvPerPass
      <3>1. IsFiniteSet(pvDir[c].files)
        <4>1. IsFiniteSet(0..pvDir[c].next)
          <5>1. 0 \in Int /\ pvDir[c].next \in Int
            BY <1>13 DEF PvDirAt
          <5> QED
            BY <5>1, FS_Interval
        <4> QED
          BY <1>13, <4>1, FS_Subset DEF PvDirAt
      <3>2. /\ IsFiniteSet(pvDir'[c].files)
            /\ Cardinality(pvDir'[c].files) <= Cardinality(pvDir[c].files)
        BY <1>17, <3>1, FS_Subset
      <3>3. Cardinality(pvDir'[c].files) \in Nat /\ Cardinality(pvDir[c].files) \in Nat
        BY <3>1, <3>2, FS_CardinalityType
      <3> QED
        BY <1>13, <3>2, <3>3 DEF PvFilesBounded
    <2> QED
      BY <1>9, <2>1 DEF PvFilesBounded
  <1>22. PvList'
    <2> SUFFICES ASSUME NEW h \in PvGen PROVE PvListAt(h)'
      BY DEF PvList
    <2> QED
      BY <1>2, <1>10, <1>14, <1>15 DEF PvList, PvListAt, PvUnlisted, PvDaemonStep
  <1>23. \A h \in PvGen : PvFreedBefore(h)' <=> PvFreedBefore(h)
    BY <1>8, <1>10 DEF PvFreedBefore, PvTyped
  <1>24. PvOwners'
    <2> SUFFICES ASSUME NEW h \in PvGen PROVE PvOwnerAt(h)'
      BY DEF PvOwners
    <2>1. PvOwnerAt(h)
      BY DEF PvOwners
    <2>2. PvUnopened(h) => pv'[h].last = 0
      BY <1>10, <1>12, <2>1 DEF PvOwnerAt, PvSeenBy
    <2>3. pvDir[PvChannel[h]].m3u8 = -1 => pvDir'[PvChannel[h]].m3u8 = -1
      BY <1>9, <1>11
    <2>4. pvDir[PvChannel[h]].files = {} => pvDir'[PvChannel[h]].files = {}
      BY <1>9, <1>11, <1>17
    <2>5. pvDir'[PvChannel[h]].next = pvDir[PvChannel[h]].next
      BY <1>9, <1>11
    <2> QED
      BY <1>10, <1>11, <1>23, <2>1, <2>2, <2>3, <2>4, <2>5 DEF PvOwnerAt
  <1>25. PvFree'
    <2>1. \A x \in PvIds : pvDir[x].m3u8 = -1 => pvDir'[x].m3u8 = -1
      BY <1>9
    <2> QED
      BY <1>10, <1>11, <1>15, <2>1 DEF PvFree, PvFreeAt
  <1>26. /\ pvDir[c].next \in Nat /\ pvDir[c].fresh \in Nat /\ pvDir[c].fresh <= PvPerPass
         /\ pvDir[c].files \subseteq Nat /\ pvDir[c].m3u8 \in Int
         /\ pv[g].last \in Nat
    BY <1>1, <1>13 DEF PvDirAt
  <1>27. ASSUME PvHasPlaylist(g), n = -1 PROVE PvAheadAt(g)'
    <2>1. /\ pv'[g].last = pv[g].last /\ pvDir'[c].m3u8 = pvDir[c].m3u8
          /\ ~PvRemoves(g)
      BY <1>6, <1>7, <1>9, <1>10, <1>27 DEF PvRemoves
    <2> QED
      BY <1>4, <1>5, <1>9, <1>13, <1>17, <1>27, <2>1 DEF PvAheadAt
  <1>28. ASSUME PvHasPlaylist(g), n # -1 PROVE PvAheadAt(g)'
    <2>1. /\ n \in Nat /\ n < pvDir[c].next
          /\ pvDir[c].next - 1 <= n + pvDir[c].fresh
          /\ pvDir[c].m3u8 # -1
          /\ pv[g].last <= n /\ n <= pv[g].last + PvWindow
      BY <1>4, <1>6, <1>12, <1>28 DEF PvSeenBy
    <2>2. pv'[g].last = n
      BY <1>10, <1>28
    <2>3. PvWindow \in Nat /\ PvWindow <= 5 /\ PvLeft \in Nat /\ PvWindow - 2 <= PvLeft
      BY <1>13 DEF PvKeepsUp, PvWindow, PvSlack, PvLeft
    <2>4. n > 5 => \A k \in pvDir'[c].files : ~(PvLeft <= k /\ k <= n - 3)
      <3> SUFFICES ASSUME n > 5, NEW k \in pvDir'[c].files, PvLeft <= k, k <= n - 3
                   PROVE  FALSE
        OBVIOUS
      <3>1. k \in Nat /\ k \in pvDir[c].files /\ k \notin PvOld(n)
        BY <1>9, <1>17, <1>26
      <3>2. k < n - 7
        BY <2>1, <3>1 DEF PvOld
      <3>3. CASE pv[g].last > 5
        <4>1. ~(PvLeft <= k /\ k <= pv[g].last - 3)
          BY <1>4, <1>5, <1>13, <1>28, <3>1, <3>3 DEF PvAheadAt
        <4> QED
          BY <1>26, <2>1, <2>3, <3>1, <3>2, <4>1
      <3>4. CASE pv[g].last <= 5
        BY <1>26, <2>1, <2>3, <3>1, <3>2, <3>4
      <3> QED
        BY <1>26, <3>3, <3>4
    <2>5. stuck => pvDir[c].next - 1 <= n + PvSlack
      BY <1>7, <1>13, <1>26, <2>1 DEF PvKeepsUp, PvSlack
    <2>6. pvDir'[c].m3u8 = -1 => pvDir[c].next - 1 <= n + PvSlack
      BY <1>9, <2>1, <2>5
    <2>7. pvDir[c].next - 1 <= n + PvSlack + pvDir[c].fresh
      BY <1>13, <1>26, <2>1
    <2> QED
      BY <1>4, <1>9, <2>1, <2>2, <2>4, <2>6, <2>7 DEF PvAheadAt
  <1>29. PvAhead'
    <2> SUFFICES ASSUME NEW h \in PvGen, PvAlive(h)', PvHasPlaylist(h)' PROVE PvAheadAt(h)'
      BY DEF PvAhead, PvAheadAt
    <2>1. PvAheadAt(h) /\ PvAlive(h) /\ PvHasPlaylist(h)
      BY <1>11 DEF PvAhead
    <2>2. CASE h = g
      BY <1>27, <1>28, <2>1, <2>2
    <2>3. CASE h # g
      <3>1. PvChannel[h] # c
        BY <1>4, <1>5, <2>1, <2>3 DEF PvDistinct, PvAlive
      <3>2. ~PvRemoves(h)
        BY <1>2, <1>3, <2>3 DEF PvRemoves, PvPass
      <3> QED
        BY <1>9, <1>10, <1>11, <2>1, <2>3, <3>1, <3>2 DEF PvAheadAt
    <2> QED
      BY <2>2, <2>3
  <1> QED
    BY <1>15, <1>16, <1>20, <1>21, <1>22, <1>24, <1>25, <1>29

\* The daemon joins a thread that has ended, or starts it anew.
LEMMA PvRestartKeeps ==
  ASSUME PvInvariant, PvDistinct, NEW d \in PvGen, PvDaemonJoin(d) \/ PvDaemonCreate(d)
  PROVE  PvInvariant'
  <1> USE DEF PvInvariant
  <1>1. /\ DOMAIN pvMod = {"queueLen", "objs", "daemon", "i", "seen"}
        /\ DOMAIN pvMod.daemon = PvGen /\ pvMod.i \in Nat \ {0} /\ pvMod.seen \in Int
        /\ Len(pvMod.objs) \in Nat /\ DOMAIN pvMod.objs = 1..Len(pvMod.objs)
        /\ DOMAIN pv = PvGen
        /\ \A h \in PvGen :
             /\ DOMAIN pv[h] = {"pc", "thread", "running", "active", "queue", "last", "same"}
             /\ pv[h].last \in Nat
    BY DEF PvTyped
  <1>2. /\ pvMod.daemon[d] \in {"join", "create"} /\ PvInPass(d) /\ PvAtObj(d)
        /\ pvMod.i \in DOMAIN pvMod.objs /\ pv[PvObj].pc # "freed"
        /\ pvDir' = pvDir
    BY DEF PvDaemonJoin, PvDaemonCreate, PvInPass, PvPass, PvPassAt, PvAtObj, PvObj
  <1>3. PICK g \in PvGen : g = PvObj
    BY <1>2, PvAtTheObject
  <1>4. PvInList(g) /\ PvAlive(g) /\ ~PvFreedBefore(g) /\ ~PvUnlisted(g)
    BY <1>2, <1>3, PvAtTheObject
  <1>5. /\ DOMAIN pvMod' = DOMAIN pvMod /\ DOMAIN pvMod'.daemon = PvGen
        /\ pvMod'.objs = pvMod.objs /\ pvMod'.seen = pvMod.seen
        /\ \A e \in PvGen : e # d => pvMod'.daemon[e] = pvMod.daemon[e]
        /\ \/ pvMod'.daemon[d] = "create" /\ pvMod'.i = pvMod.i
           \/ pvMod'.daemon[d] = "look" /\ pvMod'.i = pvMod.i + 1
    <2>1. CASE PvDaemonJoin(d)
      BY <1>1, <2>1 DEF PvDaemonJoin, PvDaemonGo
    <2>2. CASE PvDaemonCreate(d)
      BY <1>1, <2>2 DEF PvDaemonCreate, PvDaemonNext
    <2> QED
      BY <2>1, <2>2
  <1>6. /\ DOMAIN pv' = PvGen
        /\ \A h \in PvGen : /\ DOMAIN pv'[h] = DOMAIN pv[h]
                            /\ h # g => pv'[h] = pv[h]
                            /\ pv'[h].pc = pv[h].pc
                            /\ pv[h].last = 0 => pv'[h].last = 0
                            /\ pv'[h].last \in Nat
        /\ pv'[g].thread \in {"joined", "new"}
        /\ pv'[g].thread = "new" => pv'[g].last = 0
        /\ pvMod'.daemon[d] = "create" => pv'[g].thread = "joined"
        /\ pv[g].thread \in {"none", "ended", "joined"}
    <2>1. CASE PvDaemonJoin(d)
      BY <1>1, <1>3, <2>1 DEF PvDaemonJoin, PvThreadLives
    <2>2. CASE PvDaemonCreate(d)
      <3>1. pv[g].thread = "joined"
        BY <1>3, <2>2 DEF PvDaemonCreate, PvPass, PvPassAt, PvInPass
      <3>2. pvMod'.daemon[d] = "look"
        BY <1>1, <2>2 DEF PvDaemonCreate, PvDaemonNext
      <3>3. pv' = [pv EXCEPT ![g].thread = "new", ![g].last = 0, ![g].same = 0]
        BY <1>3, <2>2 DEF PvDaemonCreate
      <3> QED
        BY <1>1, <3>1, <3>2, <3>3
    <2> QED
      BY <2>1, <2>2
  <1>7. ~PvHasPlaylist(g) /\ ~PvHasPlaylist(g)'
    BY <1>6 DEF PvHasPlaylist
  <1>8. \A h \in PvGen : /\ PvAlive(h)' <=> PvAlive(h)
                         /\ PvChannel[h] \in PvIds
    BY <1>6 DEF PvAlive, PvIds
  <1>9. PvDaemonStep(d)
    <2>1. \A e \in PvGen : e # d => ~PvInPass(e)
      BY <1>2 DEF PvPass
    <2>2. \A j \in DOMAIN pvMod.objs :
            j < pvMod'.i \/ (j = pvMod'.i /\ PvAtObj(d)') => j <= pvMod.i
      BY <1>1, <1>5 DEF PvAtObj, PvInPass
    <2>3. \A j \in DOMAIN pvMod.objs :
            j <= pvMod.i => pv'[pvMod.objs[j]].pc # "freed"
      <3>1. \A j \in DOMAIN pvMod.objs : pvMod.objs[j] \in PvGen
        BY DEF PvTyped
      <3> QED
        BY <1>1, <1>2, <1>6, <3>1 DEF PvPass, PvPassAt
    <2>4. pvMod'.daemon[d] = "create" => pv'[PvObj'].thread = "joined"
      BY <1>1, <1>3, <1>5, <1>6 DEF PvObj
    <2>5. PvAtObj(d)' => pvMod'.i \in DOMAIN pvMod.objs
      BY <1>2, <1>5 DEF PvAtObj
    <2>6. PvPassAt(d)'
      BY <1>5, <2>2, <2>3, <2>4, <2>5 DEF PvPassAt
    <2> QED
      BY <1>1, <1>2, <1>5, <2>1, <2>6 DEF PvDaemonStep
  <1>10. /\ DOMAIN pvMod' = {"queueLen", "objs", "daemon", "i", "seen"}
         /\ \A h \in PvGen : PvInList(h)' <=> PvInList(h)
         /\ PvPass' /\ PvSeen'
         /\ \A h \in PvGen : ~PvRemoves(h)' /\ ~PvRemoves(h)
    <2>1. pvMod.daemon[d] # "remove" /\ pvMod'.daemon[d] # "remove"
      BY <1>2, <1>5
    <2> QED
      BY <1>9, <2>1, PvDaemonStepKeeps
  <1>11. PvTyped'
    <2>1. /\ pvMod'.i \in Nat \ {0} /\ pvMod'.seen \in Int
          /\ DOMAIN pvMod'.daemon = PvGen /\ pvMod'.objs = pvMod.objs
      BY <1>9 DEF PvDaemonStep
    <2>2. \A h \in PvGen :
            /\ DOMAIN pv'[h]
                 = {"pc", "thread", "running", "active", "queue", "last", "same"}
            /\ pv'[h].last \in Nat
      BY <1>1, <1>6
    <2> QED
      BY <1>2, <1>6, <1>10, <2>1, <2>2 DEF PvTyped
  <1>12. PvDirs' /\ PvFilesBounded'
    BY <1>2 DEF PvDirs, PvDirAt, PvFilesBounded
  <1>13. PvList'
    <2> SUFFICES ASSUME NEW h \in PvGen PROVE PvListAt(h)'
      BY DEF PvList
    <2>1. CASE h = g
      BY <1>4, <1>6, <1>10, <2>1 DEF PvListAt, PvUnlisted
    <2>2. CASE h # g
      BY <1>6, <1>9, <1>10, <2>2 DEF PvList, PvListAt, PvUnlisted, PvDaemonStep
    <2> QED
      BY <2>1, <2>2
  <1>14. \A h \in PvGen : PvFreedBefore(h)' <=> PvFreedBefore(h)
    <2>1. \A j \in DOMAIN pvMod.objs :
            pvMod.objs[j] \in PvGen /\ pv'[pvMod.objs[j]].pc = pv[pvMod.objs[j]].pc
      BY <1>6 DEF PvTyped
    <2> QED
      BY <1>5, <2>1 DEF PvFreedBefore
  <1>15. PvOwners'
    <2> SUFFICES ASSUME NEW h \in PvGen PROVE PvOwnerAt(h)'
      BY DEF PvOwners
    <2>1. PvOwnerAt(h)
      BY DEF PvOwners
    <2>2. CASE h = g
      <3>1. pvDir[PvChannel[h]].m3u8 = -1
        BY <1>4, <1>7, <2>1, <2>2 DEF PvOwnerAt
      <3>2. PvUnopened(h)' => pv'[h].last = 0
        BY <1>6, <2>2 DEF PvUnopened
      <3> QED
        BY <1>2, <1>6, <2>2, <3>1, <3>2 DEF PvOwnerAt
    <2>3. CASE h # g
      <3>1. pv'[h] = pv[h]
        BY <1>6, <2>3
      <3> QED
        BY <1>2, <1>14, <2>1, <3>1 DEF PvOwnerAt, PvUnopened, PvAlive, PvHasPlaylist
    <2> QED
      BY <2>2, <2>3
  <1>16. PvFree'
    BY <1>2, <1>6, <1>8, <1>10 DEF PvFree, PvFreeAt
  <1>17. PvAhead'
    <2> SUFFICES ASSUME NEW h \in PvGen, PvAlive(h)', PvHasPlaylist(h)' PROVE PvAheadAt(h)'
      BY DEF PvAhead, PvAheadAt
    <2>1. h # g /\ pv'[h] = pv[h]
      BY <1>6, <1>7
    <2> QED
      BY <1>2, <1>10, <2>1 DEF PvAhead, PvAheadAt, PvAlive, PvHasPlaylist
  <1> QED
    BY <1>10, <1>11, <1>12, <1>13, <1>15, <1>16, <1>17

\* Every step of a daemon.
LEMMA PvDaemonKeeps ==
  ASSUME PvInvariant, PvDistinct, PvKeepsUp, NEW d \in PvGen, PvDaemon(d)
  PROVE  PvInvariant'
  <1>1. CASE PvDaemonLook(d)
    <2>1. CASE pv[PvObj].pc = "freed"
      BY <1>1, <2>1, PvStutterKeeps DEF PvDaemonLook
    <2> QED
      BY <1>1, <2>1, PvLookKeeps
  <1>2. CASE PvDelOldTsFile(d)
    BY <1>2, PvDelOldKeeps
  <1>3. CASE PvDaemonJoin(d) \/ PvDaemonCreate(d)
    BY <1>3, PvRestartKeeps
  <1>4. CASE PvDaemonPass(d) \/ PvDaemonSleeps(d) \/ PvDaemonRunning(d) \/ PvDaemonActive(d)
    <2>1. UNCHANGED <<pv, pvDir>>
      BY <1>4 DEF PvDaemonPass, PvDaemonSleeps, PvDaemonRunning, PvDaemonActive
    <2> QED
      BY <1>4, <2>1, PvDaemonGoesOn
  <1> QED
    BY <1>1, <1>2, <1>3, <1>4 DEF PvDaemon

-----------------------------------------------------------------------------
(* The theorem.                                                            *)

\* At first there is nothing.
LEMMA PvInitialHolds ==
  ASSUME PvInitial
  PROVE  PvInvariant
  <1>1. /\ DOMAIN pv = PvGen /\ DOMAIN pvDir = PvIds
        /\ \A g \in PvGen : pv[g] = [pc |-> "none", thread |-> "none", running |-> FALSE,
                                     active |-> FALSE, queue |-> 0, last |-> 0, same |-> 0]
        /\ \A c \in PvIds : pvDir[c] = [files |-> {}, m3u8 |-> -1, next |-> 0, big |-> -1,
                                        fresh |-> 0]
        /\ pvMod = [queueLen |-> 0, objs |-> <<>>, daemon |-> [g \in PvGen |-> "none"],
                    i |-> 1, seen |-> -1]
    BY DEF PvInitial
  <1>2. PvTyped
    BY <1>1 DEF PvTyped
  <1>3. PvPerPass \in Nat
    BY PvPerPassAssumption
  <1>4. PvDirs
    BY <1>1, <1>3 DEF PvDirs, PvDirAt
  <1>5. PvList
    BY <1>1 DEF PvList, PvListAt, PvInList
  <1>6. PvPass /\ PvSeen
    BY <1>1 DEF PvPass, PvPassAt, PvInPass, PvAtObj, PvSeen
  <1>7. PvOwners /\ PvFree /\ PvAhead
    BY <1>1 DEF PvOwners, PvOwnerAt, PvFree, PvFreeAt, PvAhead, PvAheadAt, PvUnopened, PvAlive,
       PvHasPlaylist, PvIds
  <1>8. PvFilesBounded
    <2>1. Cardinality({}) = 0 /\ 0 <= 7 + 3 * PvPerPass
      BY <1>3, FS_EmptySet
    <2> QED
      <3>1. \A c \in PvIds : pvDir[c].files = {}
        BY <1>1
      <3> QED
        BY <2>1, <3>1 DEF PvFilesBounded
  <1> QED
    BY <1>2, <1>4, <1>5, <1>6, <1>7, <1>8 DEF PvInvariant

\* Every step keeps the invariant, while no two elements share a directory.
LEMMA PvNextKeeps ==
  ASSUME PvInvariant, PvDistinct, PvDistinct', PvKeepsUp, [PvNext]_pvVars
  PROVE  PvInvariant'
  <1>1. CASE UNCHANGED pvVars
    BY <1>1, PvStutterKeeps DEF pvVars
  <1>2. CASE PvNext
    <2>1. PICK g \in PvGen : PvElement(g) \/ PvProcess(g) \/ PvStop(g) \/ PvThread(g)
                             \/ PvDaemon(g)
      BY <1>2 DEF PvNext
    <2>2. CASE PvStart(g) \/ PvProcess(g) \/ PvStop(g) \/ PvCheck(g) \/ PvJoin(g)
      BY <2>2, PvElementQuiet, PvQuietKeeps
    <2>3. CASE PvInit(g)
      BY <2>3, PvInitKeeps
    <2>4. CASE PvInitDaemon(g)
      BY <2>4, PvInitDaemonKeeps
    <2>5. CASE PvListed(g)
      BY <2>5, PvListedKeeps
    <2>6. CASE PvErase(g)
      BY <2>6, PvEraseKeeps
    <2>7. CASE PvThread(g)
      BY <2>7, PvThreadKeeps
    <2>8. CASE PvDaemon(g)
      BY <2>8, PvDaemonKeeps
    <2> QED
      BY <2>1, <2>2, <2>3, <2>4, <2>5, <2>6, <2>7, <2>8 DEF PvElement
  <1> QED
    BY <1>1, <1>2

\* The segments that the playlist names are there.
LEMMA PvInvariantKeepsListed ==
  ASSUME PvInvariant
  PROVE  PvListedKept
  <1> SUFFICES ASSUME NEW c \in PvIds,
                      NEW n \in {pvDir[c].m3u8, pvDir[c].m3u8 - 1} \cap Nat
               PROVE  n \in pvDir[c].files \cup {pvDir[c].big}
    BY DEF PvListedKept
  <1>1. PvDirAt(c)
    BY DEF PvInvariant, PvDirs
  <1>2. pvDir[c].m3u8 = pvDir[c].next - 1
    BY <1>1 DEF PvDirAt
  <1>3. n \in {pvDir[c].next - 1, pvDir[c].next - 2}
    BY <1>1, <1>2 DEF PvDirAt
  <1> QED
    BY <1>1, <1>3 DEF PvDirAt

\* The daemon never removes a segment that the playlist names, and removes so many
\* that no directory grows (DelOldTsFile), as long as the objects of the previews
\* that exist at once have different ids, and the daemon keeps up with the muxer.
THEOREM PvFilesKeptHolds == PvSpec /\ []PvDistinct /\ []PvKeepsUp => []PvFilesKept
  <1>1. PvInitial => PvInvariant
    BY PvInitialHolds
  <1>2. PvInvariant /\ PvDistinct /\ PvDistinct' /\ PvKeepsUp /\ [PvNext]_pvVars
          => PvInvariant'
    BY PvNextKeeps
  <1>3. PvInvariant => PvFilesKept
    BY PvInvariantKeepsListed DEF PvFilesKept, PvInvariant
  <1> QED
    BY <1>1, <1>2, <1>3, PTL DEF PvSpec

-----------------------------------------------------------------------------
(* The conversion of colours *)

PxByte == 0..255
PxClipTable == 0..1023
PxNear == -5..5

\* The three sums are within the clipping table.
LEMMA PxTableBounds ==
  ASSUME NEW y \in PxByte, NEW u \in PxByte, NEW v \in PxByte
  PROVE  /\ PxIndex(PxRed(y, v)) \in PxClipTable
         /\ PxIndex(PxGreen(y, u, v)) \in PxClipTable
         /\ PxIndex(PxBlue(y, u)) \in PxClipTable
<1>1. PxIndex(PxRed(y, v)) \in PxClipTable
  BY DEF PxByte, PxClipTable, PxIndex, PxRed, PxLuma
<1>2. PxIndex(PxGreen(y, u, v)) \in PxClipTable
  BY DEF PxByte, PxClipTable, PxIndex, PxGreen, PxLuma
<1>3. PxIndex(PxBlue(y, u)) \in PxClipTable
  BY DEF PxByte, PxClipTable, PxIndex, PxBlue, PxLuma
<1> QED
  BY <1>1, <1>2, <1>3

\* The three components PxToYuv makes of a colour.
PxYOf(r, g, b) ==
  (PxTable(65481, r) + PxTable(128553, g) + PxTable(24966, b) + 1048576) \div 65536
PxUOf(r, g, b) ==
  (PxTable(112000, b) - PxTable(37797, r) - PxTable(74203, g) + 8388608) \div 65536
PxVOf(r, g, b) ==
  (PxTable(112000, r) - PxTable(93786, g) - PxTable(18214, b) + 8388608) \div 65536

\* There and back: the errors of the tables and of the divisions add up to less
\* than 6.
LEMMA PxThereAndBack ==
  ASSUME NEW r \in PxByte, NEW g \in PxByte, NEW b \in PxByte,
         NEW y \in Int, NEW u \in Int, NEW v \in Int,
         y = PxYOf(r, g, b), u = PxUOf(r, g, b), v = PxVOf(r, g, b)
  PROVE  /\ y \in PxByte /\ u \in PxByte /\ v \in PxByte
         /\ PxClp(PxIndex(PxRed(y, v))) - r \in PxNear
         /\ PxClp(PxIndex(PxGreen(y, u, v))) - g \in PxNear
         /\ PxClp(PxIndex(PxBlue(y, u))) - b \in PxNear
<1>1. y \in PxByte
  BY DEF PxByte, PxNear, PxYOf, PxUOf, PxVOf, PxTable
<1>2. u \in PxByte
  BY DEF PxByte, PxNear, PxYOf, PxUOf, PxVOf, PxTable
<1>3. v \in PxByte
  BY DEF PxByte, PxNear, PxYOf, PxUOf, PxVOf, PxTable
<1>4. PxClp(PxIndex(PxRed(y, v))) - r \in PxNear
  BY <1>1, <1>3 DEF PxByte, PxNear, PxYOf, PxUOf, PxVOf, PxTable, PxClp, PxIndex, PxRed, PxLuma
<1>5. PxClp(PxIndex(PxGreen(y, u, v))) - g \in PxNear
  BY <1>1, <1>2, <1>3
     DEF PxByte, PxNear, PxYOf, PxUOf, PxVOf, PxTable, PxClp, PxIndex, PxGreen, PxLuma
<1>6. PxClp(PxIndex(PxBlue(y, u))) - b \in PxNear
  BY <1>1, <1>2 DEF PxByte, PxNear, PxYOf, PxUOf, PxVOf, PxTable, PxClp, PxIndex, PxBlue, PxLuma
<1> QED
  BY <1>1, <1>2, <1>3, <1>4, <1>5, <1>6

-----------------------------------------------------------------------------
(* The walks                                                               *)
(*                                                                         *)
(* The pointers are where row j and column i say they are, in every plane  *)
(* and in the picture (PxPointers), and what is done of the picture is the *)
(* rows before j and the columns before i of the two rows in hand          *)
(* (PxPixelsDone, PxSamplesDone).                                          *)

\* The picture of px, and where in it the walk is.
PxGeometry ==
  /\ px.w \in Nat /\ px.w > 0 /\ px.w % 2 = 0
  /\ px.h \in Nat /\ px.h > 0 /\ px.h % 2 = 0
  /\ px.i \in Nat /\ px.i <= px.w /\ px.i % 2 = 0
  /\ px.j \in Nat /\ px.j <= px.h /\ px.j % 2 = 0
  /\ px.j = px.h => px.i = 0

PxWalkTyped ==
  /\ px = [at |-> px.at, w |-> px.w, h |-> px.h, i |-> px.i, j |-> px.j, p1 |-> px.p1,
           p2 |-> px.p2, d1 |-> px.d1, d2 |-> px.d2, src |-> px.src, out |-> px.out,
           c |-> PxNone]
  /\ px.p1 \in Nat /\ px.p2 \in Nat /\ px.d1 \in Nat /\ px.d2 \in Nat /\ px.src \in Nat
  /\ px.out = [p \in 0..(px.w * px.h - 1) |-> px.out[p]]

\* The pointers into the source and the index of the chroma sample.
PxPointers ==
  /\ px.p1 = px.j * px.w + px.i
  /\ px.p2 = px.p1 + px.w
  /\ px.src = (px.j \div 2) * (px.w \div 2) + px.i \div 2

\* What the walk over the pixels has written.
PxPixelsDone ==
  /\ px.d1 = px.p1 /\ px.d2 = px.p2
  /\ \A r \in 0..(px.h - 1), k \in 0..(px.w - 1) :
       r < px.j \/ (r < px.j + 2 /\ k < px.i) =>
         px.out[r * px.w + k] = <<r * px.w + k, (r \div 2) * (px.w \div 2) + k \div 2>>

\* What the walk over the samples has written.
PxSamplesDone ==
  \A r \in 0..(px.h \div 2 - 1), k \in 0..(px.w \div 2 - 1) :
    r < px.j \div 2 \/ (r = px.j \div 2 /\ k < px.i \div 2) =>
      LET p == 2 * r * px.w + 2 * k
      IN  px.out[r * (px.w \div 2) + k] = <<p, p + 1, p + px.w, p + px.w + 1>>

PxWalking == PxWalkTyped /\ PxGeometry /\ PxPointers

PxInv ==
  \/ px = [at |-> "off"]
  \/ \E c \in PxLevels \X PxLevels \X PxLevels : px = [at |-> "colour", c |-> c]
  \/ px.at = "rgb" /\ PxWalking /\ PxPixelsDone
  \/ px.at = "yuv" /\ PxWalking /\ PxSamplesDone

-----------------------------------------------------------------------------
(* Places in a picture *)

\* Rows do not overlap.
LEMMA RowsApart ==
  ASSUME NEW a \in Nat, NEW b \in Nat, NEW w \in Nat, a < b
  PROVE  a * w + w <= b * w
<1> PICK n \in Nat : b = a + 1 + n
  <2>1. b - a - 1 \in Nat /\ b = a + 1 + (b - a - 1)
    OBVIOUS
  <2> QED
    BY <2>1
<1>1. b * w = a * w + w + n * w
  OBVIOUS
<1>2. n * w >= 0
  OBVIOUS
<1> QED
  BY <1>1, <1>2

\* An even number, and the ones after it.
LEMMA PxEven ==
  ASSUME NEW a \in Nat, a % 2 = 0
  PROVE  /\ a \div 2 \in Nat /\ a = 2 * (a \div 2)
         /\ (a + 1) \div 2 = a \div 2 /\ (a + 2) \div 2 = a \div 2 + 1 /\ (a + 2) % 2 = 0
OBVIOUS

\* A place is in the picture.
LEMMA PxPlaceInside ==
  ASSUME NEW w \in Nat, NEW h \in Nat, NEW r \in 0..(h - 1), NEW k \in 0..(w - 1)
  PROVE  r * w + k \in 0..(w * h - 1)
<1>1. r * w + w <= h * w
  BY RowsApart
<1>2. r * w \in Nat
  OBVIOUS
<1>3. h * w = w * h
  OBVIOUS
<1> QED
  BY <1>1, <1>2, <1>3

\* Row j begins at jw: a place a of an earlier row, or of an earlier column of
\* rows j and j+1, is none of the four places of the block at column i.
LEMMA PxElsewhere ==
  ASSUME NEW r \in Nat, NEW k \in Nat, NEW i \in Nat, NEW j \in Nat, NEW w \in Nat,
         NEW jw \in Nat, NEW a \in Nat, k < w, i + 1 < w,
         r < j => a < jw, r = j => a = jw + k, r = j + 1 => a = jw + w + k,
         r < j \/ (r = j /\ k < i) \/ (r = j + 1 /\ k < i)
  PROVE  a \notin {jw + i, jw + i + 1, jw + i + w, jw + i + w + 1}
OBVIOUS

-----------------------------------------------------------------------------
(* The steps *)

\* A walk starts at the first block.
LEMMA PxWalkStart ==
  ASSUME NEW at \in {"rgb", "yuv"}, NEW s \in PxSizes, PxWalkInitial(at, s)
  PROVE  PxInv
<1> PICK w \in Nat, h \in Nat : s = <<w, h>> /\ w > 0 /\ h > 0 /\ w % 2 = 0 /\ h % 2 = 0
  BY PxAssumption
<1> DEFINE out == [p \in 0..(w * h - 1) |-> PxNone]
<1>1. px = [at |-> at, w |-> w, h |-> h, i |-> 0, j |-> 0, p1 |-> 0, p2 |-> w, d1 |-> 0, d2 |-> w,
            src |-> 0, out |-> out, c |-> PxNone]
  BY DEF PxWalkInitial
<1> HIDE DEF out
<1>2. /\ px.at = at /\ px.w = w /\ px.h = h /\ px.i = 0 /\ px.j = 0 /\ px.p1 = 0 /\ px.p2 = w
      /\ px.d1 = 0 /\ px.d2 = w /\ px.src = 0 /\ px.out = out
  BY <1>1
<1>3. PxWalkTyped
  <2>1. out = [p \in 0..(w * h - 1) |-> out[p]]
    BY DEF out
  <2> QED
    BY <1>1, <1>2, <2>1 DEF PxWalkTyped
<1>4. PxGeometry
  BY <1>2 DEF PxGeometry
<1>5. PxPointers
  <2>1. 0 * w = 0 /\ 0 * (w \div 2) = 0
    OBVIOUS
  <2> QED
    BY <1>2, <2>1 DEF PxPointers
<1>6. PxPixelsDone
  BY <1>2 DEF PxPixelsDone
<1>7. PxSamplesDone
  BY <1>2 DEF PxSamplesDone
<1> QED
  BY <1>2, <1>3, <1>4, <1>5, <1>6, <1>7 DEF PxInv, PxWalking

\* Whatever part of the conversion is looked at.
LEMMA PxInvInit ==
  ASSUME NEW on \in BOOLEAN, PxInitial(on)
  PROVE  PxInv
<1>1. CASE px = [at |-> "off"]
  BY <1>1 DEF PxInv
<1>2. CASE \E s \in PxSizes, at \in {"rgb", "yuv"} : PxWalkInitial(at, s)
  BY <1>2, PxWalkStart
<1>3. CASE \E c \in PxLevels \X PxLevels \X PxLevels : px = [at |-> "colour", c |-> c]
  BY <1>3 DEF PxInv
<1> QED
  BY <1>1, <1>2, <1>3 DEF PxInitial

\* The addresses of the block, or the sample, in hand are in the picture.
PxBlockInside ==
  /\ px.p1 \in 0..(px.w * px.h - 1) /\ px.p1 + 1 \in 0..(px.w * px.h - 1)
  /\ px.p2 \in 0..(px.w * px.h - 1) /\ px.p2 + 1 \in 0..(px.w * px.h - 1)
  /\ 4 * px.src < px.w * px.h

\* There are two rows and two columns left.
LEMMA PxBlockFits ==
  ASSUME PxWalking, px.j < px.h, px.i < px.w
  PROVE  PxBlockInside
<1> PICK w \in Nat, h \in Nat, i \in Nat, j \in Nat :
         w = px.w /\ h = px.h /\ i = px.i /\ j = px.j
  BY DEF PxWalking, PxGeometry
<1>1. i + 1 < w /\ j + 1 < h /\ i % 2 = 0 /\ j % 2 = 0 /\ w % 2 = 0 /\ h % 2 = 0
  BY DEF PxWalking, PxGeometry
<1>2. px.p1 = j * w + i /\ px.p2 = px.p1 + w /\ px.src = (j \div 2) * (w \div 2) + i \div 2
  BY DEF PxWalking, PxPointers
<1>3. j * w + i \in 0..(w * h - 1) /\ j * w + (i + 1) \in 0..(w * h - 1)
  <2>1. j \in 0..(h - 1) /\ i \in 0..(w - 1) /\ i + 1 \in 0..(w - 1)
    BY <1>1
  <2> QED
    BY <2>1, PxPlaceInside
<1>4. (j + 1) * w + i \in 0..(w * h - 1) /\ (j + 1) * w + (i + 1) \in 0..(w * h - 1)
  <2>1. j + 1 \in 0..(h - 1) /\ i \in 0..(w - 1) /\ i + 1 \in 0..(w - 1)
    BY <1>1
  <2> QED
    BY <2>1, PxPlaceInside
<1>5. (j + 1) * w = j * w + w /\ j * w \in Nat
  OBVIOUS
<1>6. 4 * px.src < w * h
  <2> PICK m \in Nat, q \in Nat, p \in Nat : w = 2 * m /\ j = 2 * q /\ i = 2 * p
    <3>1. w = 2 * (w \div 2) /\ j = 2 * (j \div 2) /\ i = 2 * (i \div 2)
      BY <1>1
    <3>2. w \div 2 \in Nat /\ j \div 2 \in Nat /\ i \div 2 \in Nat
      OBVIOUS
    <3> QED
      BY <3>1, <3>2
  <2>1. w \div 2 = m /\ j \div 2 = q /\ i \div 2 = p
    OBVIOUS
  <2>2. 4 * (q * m) = j * w
    OBVIOUS
  <2>3. q * m \in Nat
    OBVIOUS
  <2>4. 4 * px.src = j * w + 2 * i
    BY <1>2, <2>1, <2>2, <2>3
  <2> QED
    BY <2>4, <1>4, <1>5, <1>1
<1> QED
  BY <1>2, <1>3, <1>4, <1>5, <1>6 DEF PxBlockInside

\* Four pixels are written, and nothing else.
LEMMA PxBlockStep ==
  ASSUME PxInv, PxBlock
  PROVE  PxInv'
<1>1. px.at = "rgb" /\ PxWalking /\ PxPixelsDone
  BY DEF PxBlock, PxInv
<1>2. PxBlockInside
  BY <1>1, PxBlockFits DEF PxBlock
<1> PICK w \in Nat, h \in Nat, i \in Nat, j \in Nat, p1 \in Nat, p2 \in Nat, src \in Nat :
         /\ w = px.w /\ h = px.h /\ i = px.i /\ j = px.j /\ p1 = px.p1 /\ p2 = px.p2
         /\ src = px.src /\ px.d1 = p1 /\ px.d2 = p2
  BY <1>1 DEF PxWalking, PxGeometry, PxWalkTyped, PxPixelsDone
<1> PICK out : out = px.out
  OBVIOUS
<1> DEFINE new == [out EXCEPT ![p1] = <<p1, src>>, ![p2] = <<p2, src>>,
                              ![p1 + 1] = <<p1 + 1, src>>, ![p2 + 1] = <<p2 + 1, src>>]
<1>3. px = [at |-> "rgb", w |-> w, h |-> h, i |-> i, j |-> j, p1 |-> p1, p2 |-> p2,
            d1 |-> p1, d2 |-> p2, src |-> src, out |-> out, c |-> PxNone]
  BY <1>1 DEF PxWalking, PxWalkTyped
<1>4. out = [p \in 0..(w * h - 1) |-> out[p]]
  BY <1>1 DEF PxWalking, PxWalkTyped
<1>5. px' = [at |-> "rgb", w |-> w, h |-> h, i |-> i + 2, j |-> j, p1 |-> p1 + 2, p2 |-> p2 + 2,
             d1 |-> p1 + 2, d2 |-> p2 + 2, src |-> src + 1, out |-> new, c |-> PxNone]
  <2> HIDE DEF new
  <2>1. px' = [px EXCEPT !.out = new, !.p1 = p1 + 2, !.p2 = p2 + 2, !.d1 = p1 + 2, !.d2 = p2 + 2,
                         !.src = src + 1, !.i = i + 2]
    BY <1>3 DEF PxBlock, new
  <2>2. px' = [[at |-> "rgb", w |-> w, h |-> h, i |-> i, j |-> j, p1 |-> p1, p2 |-> p2,
                d1 |-> p1, d2 |-> p2, src |-> src, out |-> out, c |-> PxNone]
                 EXCEPT !.out = new, !.p1 = p1 + 2, !.p2 = p2 + 2, !.d1 = p1 + 2, !.d2 = p2 + 2,
                        !.src = src + 1, !.i = i + 2]
    BY <2>1, <1>3, Zenon
  <2> QED
    BY <2>2, ZenonT(60)
<1>6. j < h /\ i < w
  BY DEF PxBlock
<1>7. p1 = j * w + i /\ p2 = p1 + w /\ src = (j \div 2) * (w \div 2) + i \div 2
  BY <1>1 DEF PxWalking, PxPointers
<1>16. w % 2 = 0 /\ h % 2 = 0 /\ i % 2 = 0 /\ j % 2 = 0 /\ w > 0 /\ h > 0
  BY <1>1 DEF PxWalking, PxGeometry
<1>17. /\ (i + 1) \div 2 = i \div 2 /\ (j + 1) \div 2 = j \div 2
       /\ (i + 2) \div 2 = i \div 2 + 1 /\ (i + 2) % 2 = 0 /\ i + 2 <= w
  BY <1>6, <1>16, PxEven
<1>18. PICK jw \in Nat, qm \in Nat : jw = j * w /\ qm = (j \div 2) * (w \div 2)
  <2>1. j * w \in Nat /\ (j \div 2) * (w \div 2) \in Nat
    OBVIOUS
  <2> QED
    BY <2>1
<1>19. p1 = jw + i /\ p2 = jw + i + w /\ src = qm + i \div 2
  BY <1>7, <1>18
<1>8. /\ p1 \in 0..(w * h - 1) /\ p1 + 1 \in 0..(w * h - 1)
      /\ p2 \in 0..(w * h - 1) /\ p2 + 1 \in 0..(w * h - 1)
  BY <1>2 DEF PxBlockInside
<1>9. new = [p \in 0..(w * h - 1) |-> new[p]]
  BY <1>4
<1>10. \A a \in 0..(w * h - 1) :
         new[a] = IF a \in {p1, p1 + 1, p2, p2 + 1} THEN <<a, src>> ELSE out[a]
  BY <1>4, <1>7, <1>8
<1> HIDE DEF new
<1>11. /\ px'.at = "rgb" /\ px'.w = w /\ px'.h = h /\ px'.i = i + 2 /\ px'.j = j
       /\ px'.p1 = p1 + 2 /\ px'.p2 = p2 + 2 /\ px'.d1 = p1 + 2 /\ px'.d2 = p2 + 2
       /\ px'.src = src + 1 /\ px'.out = new
  BY <1>5
<1>12. PxWalkTyped'
  <2>1. (px = [at |-> px.at, w |-> px.w, h |-> px.h, i |-> px.i, j |-> px.j, p1 |-> px.p1,
               p2 |-> px.p2, d1 |-> px.d1, d2 |-> px.d2, src |-> px.src, out |-> px.out,
               c |-> PxNone])'
    BY <1>5, <1>11, Zenon
  <2>2. (px.out = [p \in 0..(px.w * px.h - 1) |-> px.out[p]])'
    BY <1>9, <1>11, Zenon
  <2>3. (px.p1 \in Nat /\ px.p2 \in Nat /\ px.d1 \in Nat /\ px.d2 \in Nat /\ px.src \in Nat)'
    BY <1>11
  <2> QED
    BY <2>1, <2>2, <2>3 DEF PxWalkTyped
<1>13. PxGeometry'
  BY <1>6, <1>16, <1>17, <1>11 DEF PxGeometry
<1>14. PxPointers'
  <2>1. p1 + 2 = jw + (i + 2) /\ p2 + 2 = p1 + 2 + w /\ src + 1 = qm + (i + 2) \div 2
    <3>1. p1 + 2 = jw + (i + 2)
      BY <1>19
    <3>2. p2 + 2 = p1 + 2 + w
      BY <1>19
    <3>3. src + 1 = qm + (i + 2) \div 2
      <4>1. src = qm + i \div 2 /\ (i + 2) \div 2 = i \div 2 + 1
        BY <1>17, <1>19
      <4>2. i \div 2 \in Int
        OBVIOUS
      <4> QED
        BY <4>1, <4>2
    <3> QED
      BY <3>1, <3>2, <3>3
  <2> QED
    BY <2>1, <1>11, <1>18 DEF PxPointers
<1>15. PxPixelsDone'
  <2>1. ASSUME NEW r \in 0..(h - 1), NEW k \in 0..(w - 1), r < j \/ (r < j + 2 /\ k < i + 2)
        PROVE  new[r * w + k] = <<r * w + k, (r \div 2) * (w \div 2) + k \div 2>>
    <3>0. PICK a \in 0..(w * h - 1) : a = r * w + k
      BY PxPlaceInside
    <3>3. (r < j => a < jw) /\ (r = j => a = jw + k) /\ (r = j + 1 => a = jw + w + k)
      <4>1. r < j => r * w + w <= j * w
        BY RowsApart
      <4>2. (j + 1) * w = j * w + w /\ r * w \in Nat
        OBVIOUS
      <4> QED
        BY <3>0, <4>1, <4>2, <1>18
    <3>1. CASE r < j \/ k < i
      <4>1. out[a] = <<a, (r \div 2) * (w \div 2) + k \div 2>>
        BY <1>1, <2>1, <3>0, <3>1 DEF PxPixelsDone
      <4>2. r < j \/ (r = j /\ k < i) \/ (r = j + 1 /\ k < i)
        BY <2>1, <3>1
      <4>3. a \notin {p1, p1 + 1, p2, p2 + 1}
        <5>1. r \in Nat /\ k \in Nat /\ a \in Nat /\ k < w /\ i + 1 < w
          BY <1>17
        <5>2. a \notin {jw + i, jw + i + 1, jw + i + w, jw + i + w + 1}
          BY <3>3, <4>2, <5>1, PxElsewhere
        <5> QED
          BY <1>19, <5>2
      <4> QED
        BY <1>10, <3>0, <4>1, <4>3
    <3>2. CASE ~(r < j \/ k < i)
      <4>1. (r = j \/ r = j + 1) /\ (k = i \/ k = i + 1)
        BY <2>1, <3>2
      <4>2. a \in {p1, p1 + 1, p2, p2 + 1}
        BY <1>19, <3>3, <4>1
      <4>3. r \div 2 = j \div 2 /\ k \div 2 = i \div 2
        <5>1. (j + 1) \div 2 = j \div 2 /\ (i + 1) \div 2 = i \div 2
          BY <1>17
        <5> QED
          BY <4>1, <5>1
      <4> QED
        BY <1>7, <1>10, <3>0, <4>2, <4>3
    <3> QED
      BY <3>1, <3>2
  <2> QED
    BY <2>1, <1>11 DEF PxPixelsDone
<1> QED
  BY <1>11, <1>12, <1>13, <1>14, <1>15 DEF PxInv, PxWalking

\* The pointers go to the row after the next.
LEMMA PxRowEndStep ==
  ASSUME PxInv, PxRowEnd
  PROVE  PxInv'
<1>1. px.at = "rgb" /\ PxWalking /\ PxPixelsDone
  BY DEF PxRowEnd, PxInv
<1> PICK w \in Nat, h \in Nat, i \in Nat, j \in Nat, p1 \in Nat, p2 \in Nat, src \in Nat :
         /\ w = px.w /\ h = px.h /\ i = px.i /\ j = px.j /\ p1 = px.p1 /\ p2 = px.p2
         /\ src = px.src /\ px.d1 = p1 /\ px.d2 = p2
  BY <1>1 DEF PxWalking, PxGeometry, PxWalkTyped, PxPixelsDone
<1> PICK out : out = px.out
  OBVIOUS
<1>2. px = [at |-> "rgb", w |-> w, h |-> h, i |-> i, j |-> j, p1 |-> p1, p2 |-> p2,
            d1 |-> p1, d2 |-> p2, src |-> src, out |-> out, c |-> PxNone]
  BY <1>1 DEF PxWalking, PxWalkTyped
<1>3. px' = [at |-> "rgb", w |-> w, h |-> h, i |-> 0, j |-> j + 2, p1 |-> p1 + w, p2 |-> p2 + w,
             d1 |-> p1 + w, d2 |-> p2 + w, src |-> src, out |-> out, c |-> PxNone]
  <2>1. px' = [[at |-> "rgb", w |-> w, h |-> h, i |-> i, j |-> j, p1 |-> p1, p2 |-> p2,
                d1 |-> p1, d2 |-> p2, src |-> src, out |-> out, c |-> PxNone]
                 EXCEPT !.d1 = @ + w, !.d2 = @ + w, !.p1 = @ + w, !.p2 = @ + w,
                        !.i = 0, !.j = @ + 2]
    BY <1>2, Zenon DEF PxRowEnd
  <2> QED
    BY <2>1, ZenonT(60)
<1>4. /\ px'.at = "rgb" /\ px'.w = w /\ px'.h = h /\ px'.i = 0 /\ px'.j = j + 2
      /\ px'.p1 = p1 + w /\ px'.p2 = p2 + w /\ px'.d1 = p1 + w /\ px'.d2 = p2 + w
      /\ px'.src = src /\ px'.out = out
  BY <1>3
<1>5. p1 = j * w + i /\ p2 = p1 + w /\ src = (j \div 2) * (w \div 2) + i \div 2
  BY <1>1 DEF PxWalking, PxPointers
<1>10. w % 2 = 0 /\ h % 2 = 0 /\ i = w /\ j % 2 = 0 /\ w > 0 /\ h > 0 /\ j < h
  BY <1>1 DEF PxWalking, PxGeometry, PxRowEnd
<1>11. (j + 2) \div 2 = j \div 2 + 1 /\ (j + 2) % 2 = 0 /\ j + 2 <= h /\ 0 % 2 = 0
  BY <1>10, PxEven
<1>6. PxWalkTyped'
  <2>1. out = [p \in 0..(w * h - 1) |-> out[p]]
    BY <1>1 DEF PxWalking, PxWalkTyped
  <2>2. (px = [at |-> px.at, w |-> px.w, h |-> px.h, i |-> px.i, j |-> px.j, p1 |-> px.p1,
               p2 |-> px.p2, d1 |-> px.d1, d2 |-> px.d2, src |-> px.src, out |-> px.out,
               c |-> PxNone])'
    BY <1>3, <1>4, Zenon
  <2>3. (px.out = [p \in 0..(px.w * px.h - 1) |-> px.out[p]])'
    BY <2>1, <1>4, Zenon
  <2>4. (px.p1 \in Nat /\ px.p2 \in Nat /\ px.d1 \in Nat /\ px.d2 \in Nat /\ px.src \in Nat)'
    BY <1>4
  <2> QED
    BY <2>1, <2>2, <2>3, <2>4 DEF PxWalkTyped
<1>7. PxGeometry'
  BY <1>4, <1>10, <1>11 DEF PxGeometry
<1>8. PxPointers'
  <2>1. (j + 2) * w = j * w + 2 * w
    OBVIOUS
  <2>2. ((j + 2) \div 2) * (w \div 2) = (j \div 2) * (w \div 2) + w \div 2
    <3>1. (j + 2) \div 2 = j \div 2 + 1
      BY <1>11
    <3> PICK q \in Int, m \in Int : q = j \div 2 /\ m = w \div 2
      OBVIOUS
    <3>2. (q + 1) * m = q * m + m
      OBVIOUS
    <3> QED
      BY <3>1, <3>2
  <2>3. PICK jw \in Int, qm \in Int : jw = j * w /\ qm = (j \div 2) * (w \div 2)
    OBVIOUS
  <2>4. p1 = jw + w /\ p2 = p1 + w /\ src = qm + w \div 2
    BY <2>3, <1>5, <1>10
  <2>5. (j + 2) * w = jw + 2 * w /\ ((j + 2) \div 2) * (w \div 2) = qm + w \div 2
    BY <2>1, <2>2, <2>3
  <2>6. p1 + w = (j + 2) * w /\ p2 + w = (j + 2) * w + w
    BY <2>4, <2>5
  <2>7. src = ((j + 2) \div 2) * (w \div 2) + 0 \div 2
    <3>1. 0 \div 2 = 0
      OBVIOUS
    <3> QED
      BY <3>1, <2>4, <2>5
  <2> QED
    BY <1>4, <2>6, <2>7 DEF PxPointers
<1>9. PxPixelsDone'
  <2>1. ASSUME NEW r \in 0..(h - 1), NEW k \in 0..(w - 1), r < j + 2
        PROVE  out[r * w + k] = <<r * w + k, (r \div 2) * (w \div 2) + k \div 2>>
    <3>1. r < j \/ (r < j + 2 /\ k < i)
      BY <1>10, <2>1
    <3> QED
      BY <1>1, <3>1 DEF PxPixelsDone
  <2> QED
    BY <2>1, <1>4 DEF PxPixelsDone
<1> QED
  BY <1>4, <1>6, <1>7, <1>8, <1>9 DEF PxInv, PxWalking

\* One sample is written, and nothing else.
LEMMA PxSampleStep ==
  ASSUME PxInv, PxSample
  PROVE  PxInv'
<1>1. px.at = "yuv" /\ PxWalking /\ PxSamplesDone
  BY DEF PxSample, PxInv
<1>2. PxBlockInside
  BY <1>1, PxBlockFits DEF PxSample
<1> PICK w \in Nat, h \in Nat, i \in Nat, j \in Nat, p1 \in Nat, p2 \in Nat, src \in Nat,
         d1 \in Nat, d2 \in Nat :
         /\ w = px.w /\ h = px.h /\ i = px.i /\ j = px.j /\ p1 = px.p1 /\ p2 = px.p2
         /\ src = px.src /\ d1 = px.d1 /\ d2 = px.d2
  BY <1>1 DEF PxWalking, PxGeometry, PxWalkTyped
<1> PICK out : out = px.out
  OBVIOUS
<1> DEFINE new == [out EXCEPT ![src] = <<p1, p1 + 1, p2, p2 + 1>>]
<1>3. px = [at |-> "yuv", w |-> w, h |-> h, i |-> i, j |-> j, p1 |-> p1, p2 |-> p2,
            d1 |-> d1, d2 |-> d2, src |-> src, out |-> out, c |-> PxNone]
  BY <1>1 DEF PxWalking, PxWalkTyped
<1>4. out = [p \in 0..(w * h - 1) |-> out[p]]
  BY <1>1 DEF PxWalking, PxWalkTyped
<1>5. px' = [at |-> "yuv", w |-> w, h |-> h, i |-> i + 2, j |-> j, p1 |-> p1 + 2, p2 |-> p2 + 2,
             d1 |-> d1, d2 |-> d2, src |-> src + 1, out |-> new, c |-> PxNone]
  <2> HIDE DEF new
  <2>1. px' = [px EXCEPT !.out = new, !.p1 = p1 + 2, !.p2 = p2 + 2, !.src = src + 1, !.i = i + 2]
    BY <1>3 DEF PxSample, new
  <2>2. px' = [[at |-> "yuv", w |-> w, h |-> h, i |-> i, j |-> j, p1 |-> p1, p2 |-> p2,
                d1 |-> d1, d2 |-> d2, src |-> src, out |-> out, c |-> PxNone]
                 EXCEPT !.out = new, !.p1 = p1 + 2, !.p2 = p2 + 2, !.src = src + 1, !.i = i + 2]
    BY <2>1, <1>3, Zenon
  <2> QED
    BY <2>2, ZenonT(60)
<1>6. j < h /\ i < w
  BY DEF PxSample
<1>7. p1 = j * w + i /\ p2 = p1 + w /\ src = (j \div 2) * (w \div 2) + i \div 2
  BY <1>1 DEF PxWalking, PxPointers
<1>16. w % 2 = 0 /\ h % 2 = 0 /\ i % 2 = 0 /\ j % 2 = 0 /\ w > 0 /\ h > 0
  BY <1>1 DEF PxWalking, PxGeometry
<1>17. /\ (i + 1) \div 2 = i \div 2 /\ (j + 1) \div 2 = j \div 2
       /\ (i + 2) \div 2 = i \div 2 + 1 /\ (i + 2) % 2 = 0 /\ i + 2 <= w
  BY <1>6, <1>16, PxEven
<1>18. PICK jw \in Nat, qm \in Nat : jw = j * w /\ qm = (j \div 2) * (w \div 2)
  <2>1. j * w \in Nat /\ (j \div 2) * (w \div 2) \in Nat
    OBVIOUS
  <2> QED
    BY <2>1
<1>19. p1 = jw + i /\ p2 = jw + i + w /\ src = qm + i \div 2
  BY <1>7, <1>18
<1>8. src \in 0..(w * h - 1)
  <2>1. 4 * src < w * h
    BY <1>2 DEF PxBlockInside
  <2> PICK n \in Nat : n = w * h
    OBVIOUS
  <2> QED
    BY <2>1
<1>9. new = [p \in 0..(w * h - 1) |-> new[p]]
  BY <1>4
<1>10. \A a \in 0..(w * h - 1) : new[a] = IF a = src THEN <<p1, p1 + 1, p2, p2 + 1>> ELSE out[a]
  BY <1>4, <1>8
<1> HIDE DEF new
<1>11. /\ px'.at = "yuv" /\ px'.w = w /\ px'.h = h /\ px'.i = i + 2 /\ px'.j = j
       /\ px'.p1 = p1 + 2 /\ px'.p2 = p2 + 2 /\ px'.d1 = d1 /\ px'.d2 = d2
       /\ px'.src = src + 1 /\ px'.out = new
  BY <1>5
<1>12. PxWalkTyped'
  <2>1. (px = [at |-> px.at, w |-> px.w, h |-> px.h, i |-> px.i, j |-> px.j, p1 |-> px.p1,
               p2 |-> px.p2, d1 |-> px.d1, d2 |-> px.d2, src |-> px.src, out |-> px.out,
               c |-> PxNone])'
    BY <1>5, <1>11, Zenon
  <2>2. (px.out = [p \in 0..(px.w * px.h - 1) |-> px.out[p]])'
    BY <1>9, <1>11, Zenon
  <2>3. (px.p1 \in Nat /\ px.p2 \in Nat /\ px.d1 \in Nat /\ px.d2 \in Nat /\ px.src \in Nat)'
    BY <1>11
  <2> QED
    BY <2>1, <2>2, <2>3 DEF PxWalkTyped
<1>13. PxGeometry'
  BY <1>6, <1>16, <1>17, <1>11 DEF PxGeometry
<1>14. PxPointers'
  <2>1. p1 + 2 = jw + (i + 2) /\ p2 + 2 = p1 + 2 + w /\ src + 1 = qm + (i + 2) \div 2
    <3>1. p1 + 2 = jw + (i + 2)
      BY <1>19
    <3>2. p2 + 2 = p1 + 2 + w
      BY <1>19
    <3>3. src + 1 = qm + (i + 2) \div 2
      <4>1. src = qm + i \div 2 /\ (i + 2) \div 2 = i \div 2 + 1
        BY <1>17, <1>19
      <4>2. i \div 2 \in Int
        OBVIOUS
      <4> QED
        BY <4>1, <4>2
    <3> QED
      BY <3>1, <3>2, <3>3
  <2> QED
    BY <2>1, <1>11, <1>18 DEF PxPointers
<1>15. PxSamplesDone'
  <2>0. PICK m \in Nat, n \in Nat, q \in Nat, p \in Nat :
          /\ m = w \div 2 /\ n = h \div 2 /\ q = j \div 2 /\ p = i \div 2
          /\ w = 2 * m /\ h = 2 * n /\ j = 2 * q /\ i = 2 * p
    <3>1. w \div 2 \in Nat /\ h \div 2 \in Nat /\ i \div 2 \in Nat /\ j \div 2 \in Nat
      BY <1>16, PxEven
    <3>2. w = 2 * (w \div 2) /\ h = 2 * (h \div 2) /\ i = 2 * (i \div 2) /\ j = 2 * (j \div 2)
      BY <1>16, PxEven
    <3> QED
      BY <3>1, <3>2
  <2>1. q < n /\ p < m
    BY <2>0, <1>6
  <2>2. (i + 2) \div 2 = p + 1
    BY <2>0
  <2>3. ASSUME NEW r \in 0..(n - 1), NEW k \in 0..(m - 1), r < q \/ (r = q /\ k < p + 1)
        PROVE  LET a == 2 * r * w + 2 * k
               IN  new[r * m + k] = <<a, a + 1, a + w, a + w + 1>>
    <3>1. r * m + k \in 0..(w * h - 1)
      <4>1. r * m + k \in 0..(m * n - 1)
        BY PxPlaceInside
      <4>2. w * h = 4 * (m * n) /\ m * n \in Nat
        BY <2>0
      <4> QED
        BY <4>1, <4>2
    <3>2. CASE r = q /\ k = p
      <4>1. r * m + k = src
        BY <1>7, <2>0, <3>2
      <4>2. 2 * r * w + 2 * k = p1
        BY <1>7, <2>0, <3>2
      <4> QED
        BY <1>7, <1>10, <3>1, <4>1, <4>2
    <3>3. CASE r < q \/ (r = q /\ k < p)
      <4>1. r * m + k # src
        <5>1. r < q => r * m + m <= q * m
          BY RowsApart
        <5>2. src = q * m + p
          BY <1>7, <2>0
        <5>3. PICK rm \in Nat, s \in Nat : rm = r * m /\ s = q * m
          OBVIOUS
        <5>4. (r < q => rm + m <= s) /\ (r = q => rm = s) /\ src = s + p
          BY <5>1, <5>2, <5>3
        <5>5. rm + k # src
          BY <3>3, <5>4
        <5> QED
          BY <5>3, <5>5
      <4>2. new[r * m + k] = out[r * m + k]
        BY <1>10, <3>1, <4>1
      <4> QED
        BY <1>1, <2>0, <3>3, <4>2 DEF PxSamplesDone
    <3> QED
      BY <2>3, <3>2, <3>3
  <2> QED
    BY <2>0, <2>2, <2>3, <1>11 DEF PxSamplesDone
<1> QED
  BY <1>11, <1>12, <1>13, <1>14, <1>15 DEF PxInv, PxWalking

\* The row below was sampled together with this one.
LEMMA PxSampleRowStep ==
  ASSUME PxInv, PxSampleRow
  PROVE  PxInv'
<1>1. px.at = "yuv" /\ PxWalking /\ PxSamplesDone
  BY DEF PxSampleRow, PxInv
<1> PICK w \in Nat, h \in Nat, i \in Nat, j \in Nat, p1 \in Nat, p2 \in Nat, src \in Nat,
         d1 \in Nat, d2 \in Nat :
         /\ w = px.w /\ h = px.h /\ i = px.i /\ j = px.j /\ p1 = px.p1 /\ p2 = px.p2
         /\ src = px.src /\ d1 = px.d1 /\ d2 = px.d2
  BY <1>1 DEF PxWalking, PxGeometry, PxWalkTyped
<1> PICK out : out = px.out
  OBVIOUS
<1>2. px = [at |-> "yuv", w |-> w, h |-> h, i |-> i, j |-> j, p1 |-> p1, p2 |-> p2,
            d1 |-> d1, d2 |-> d2, src |-> src, out |-> out, c |-> PxNone]
  BY <1>1 DEF PxWalking, PxWalkTyped
<1>3. px' = [at |-> "yuv", w |-> w, h |-> h, i |-> 0, j |-> j + 2, p1 |-> p1 + w, p2 |-> p2 + w,
             d1 |-> d1, d2 |-> d2, src |-> src, out |-> out, c |-> PxNone]
  <2>1. px' = [[at |-> "yuv", w |-> w, h |-> h, i |-> i, j |-> j, p1 |-> p1, p2 |-> p2,
                d1 |-> d1, d2 |-> d2, src |-> src, out |-> out, c |-> PxNone]
                 EXCEPT !.p1 = @ + w, !.p2 = @ + w, !.i = 0, !.j = @ + 2]
    BY <1>2, Zenon DEF PxSampleRow
  <2> QED
    BY <2>1, ZenonT(60)
<1>4. /\ px'.at = "yuv" /\ px'.w = w /\ px'.h = h /\ px'.i = 0 /\ px'.j = j + 2
      /\ px'.p1 = p1 + w /\ px'.p2 = p2 + w /\ px'.d1 = d1 /\ px'.d2 = d2
      /\ px'.src = src /\ px'.out = out
  BY <1>3
<1>5. p1 = j * w + i /\ p2 = p1 + w /\ src = (j \div 2) * (w \div 2) + i \div 2
  BY <1>1 DEF PxWalking, PxPointers
<1>10. w % 2 = 0 /\ h % 2 = 0 /\ i = w /\ j % 2 = 0 /\ w > 0 /\ h > 0 /\ j < h
  BY <1>1 DEF PxWalking, PxGeometry, PxSampleRow
<1>11. (j + 2) \div 2 = j \div 2 + 1 /\ (j + 2) % 2 = 0 /\ j + 2 <= h /\ 0 % 2 = 0
  BY <1>10, PxEven
<1>6. PxWalkTyped'
  <2>1. out = [p \in 0..(w * h - 1) |-> out[p]]
    BY <1>1 DEF PxWalking, PxWalkTyped
  <2>2. (px = [at |-> px.at, w |-> px.w, h |-> px.h, i |-> px.i, j |-> px.j, p1 |-> px.p1,
               p2 |-> px.p2, d1 |-> px.d1, d2 |-> px.d2, src |-> px.src, out |-> px.out,
               c |-> PxNone])'
    BY <1>3, <1>4, Zenon
  <2>3. (px.out = [p \in 0..(px.w * px.h - 1) |-> px.out[p]])'
    BY <2>1, <1>4, Zenon
  <2>4. (px.p1 \in Nat /\ px.p2 \in Nat /\ px.d1 \in Nat /\ px.d2 \in Nat /\ px.src \in Nat)'
    BY <1>4
  <2> QED
    BY <2>1, <2>2, <2>3, <2>4 DEF PxWalkTyped
<1>7. PxGeometry'
  BY <1>4, <1>10, <1>11 DEF PxGeometry
<1>8. PxPointers'
  <2>1. (j + 2) * w = j * w + 2 * w
    OBVIOUS
  <2>2. ((j + 2) \div 2) * (w \div 2) = (j \div 2) * (w \div 2) + w \div 2
    <3>1. (j + 2) \div 2 = j \div 2 + 1
      BY <1>11
    <3> PICK q \in Int, m \in Int : q = j \div 2 /\ m = w \div 2
      OBVIOUS
    <3>2. (q + 1) * m = q * m + m
      OBVIOUS
    <3> QED
      BY <3>1, <3>2
  <2>3. PICK jw \in Int, qm \in Int : jw = j * w /\ qm = (j \div 2) * (w \div 2)
    OBVIOUS
  <2>4. p1 = jw + w /\ p2 = p1 + w /\ src = qm + w \div 2
    BY <2>3, <1>5, <1>10
  <2>5. (j + 2) * w = jw + 2 * w /\ ((j + 2) \div 2) * (w \div 2) = qm + w \div 2
    BY <2>1, <2>2, <2>3
  <2>6. p1 + w = (j + 2) * w /\ p2 + w = (j + 2) * w + w
    BY <2>4, <2>5
  <2>7. src = ((j + 2) \div 2) * (w \div 2) + 0 \div 2
    <3>1. 0 \div 2 = 0
      OBVIOUS
    <3> QED
      BY <3>1, <2>4, <2>5
  <2> QED
    BY <1>4, <2>6, <2>7 DEF PxPointers
<1>9. PxSamplesDone'
  <2>1. (j + 2) \div 2 = j \div 2 + 1 /\ j \div 2 \in Nat /\ 0 \div 2 = 0
    BY <1>10, PxEven
  <2>2. ASSUME NEW r \in 0..(h \div 2 - 1), NEW k \in 0..(w \div 2 - 1), r < (j + 2) \div 2
        PROVE  LET a == 2 * r * w + 2 * k
               IN  out[r * (w \div 2) + k] = <<a, a + 1, a + w, a + w + 1>>
    <3>1. r < j \div 2 \/ (r = j \div 2 /\ k < i \div 2)
      BY <1>10, <2>1, <2>2
    <3> QED
      BY <1>1, <3>1 DEF PxSamplesDone
  <2>3. ASSUME NEW r \in 0..(h \div 2 - 1), NEW k \in 0..(w \div 2 - 1),
               r < (j + 2) \div 2 \/ (r = (j + 2) \div 2 /\ k < 0 \div 2)
        PROVE  r < (j + 2) \div 2
    BY <2>1, <2>3
  <2> QED
    BY <2>2, <2>3, <1>4 DEF PxSamplesDone
<1> QED
  BY <1>4, <1>6, <1>7, <1>8, <1>9 DEF PxInv, PxWalking

-----------------------------------------------------------------------------
(* What follows *)

\* One step per action.
LEMMA PxInvNext ==
  ASSUME PxInv, [PxNext]_px
  PROVE  PxInv'
<1>1. CASE px' = px
  <2>1. PxWalkTyped => PxWalkTyped'
    BY <1>1, Zenon DEF PxWalkTyped
  <2>2. PxGeometry => PxGeometry'
    BY <1>1, Zenon DEF PxGeometry
  <2>3. PxPointers => PxPointers'
    BY <1>1, Zenon DEF PxPointers
  <2>4. PxPixelsDone => PxPixelsDone'
    BY <1>1, Zenon DEF PxPixelsDone
  <2>5. PxSamplesDone => PxSamplesDone'
    BY <1>1, Zenon DEF PxSamplesDone
  <2> QED
    BY <1>1, <2>1, <2>2, <2>3, <2>4, <2>5, Zenon DEF PxInv, PxWalking
<1>2. CASE PxNext
  BY <1>2, PxBlockStep, PxRowEndStep, PxSampleStep, PxSampleRowStep DEF PxNext
<1> QED
  BY <1>1, <1>2

\* The pictures: a walk that has ended has done every row.
LEMMA PxInvPictures ==
  ASSUME PxInv
  PROVE  PxPictureExact /\ PxSamplesExact
<1>1. ASSUME px.at = "rgb" PROVE PxPictureExact
  <2>1. PxWalking /\ PxPixelsDone
    BY <1>1 DEF PxInv
  <2>2. px.i < px.w /\ px.j < px.h =>
          px.d2 + 1 < px.w * px.h /\ px.p2 + 1 < px.w * px.h /\ 4 * px.src < px.w * px.h
    <3> HAVE px.i < px.w /\ px.j < px.h
    <3>1. PxBlockInside
      BY <2>1, PxBlockFits
    <3>2. px.d2 = px.p2
      BY <2>1 DEF PxPixelsDone
    <3>3. px.w \in Nat /\ px.h \in Nat /\ px.p2 \in Nat
      BY <2>1 DEF PxWalking, PxGeometry, PxWalkTyped
    <3>4. PICK n \in Nat : n = px.w * px.h
      BY <3>3
    <3> QED
      BY <3>1, <3>2, <3>3, <3>4 DEF PxBlockInside
  <2>3. px.j >= px.h =>
          \A r \in 0..(px.h - 1), k \in 0..(px.w - 1) :
            px.out[r * px.w + k] = <<r * px.w + k, (r \div 2) * (px.w \div 2) + k \div 2>>
    <3> HAVE px.j >= px.h
    <3> TAKE r \in 0..(px.h - 1), k \in 0..(px.w - 1)
    <3>1. r < px.j
      BY <2>1 DEF PxWalking, PxGeometry
    <3> QED
      BY <2>1, <3>1 DEF PxPixelsDone
  <2> QED
    BY <2>2, <2>3 DEF PxPictureExact
<1>2. ASSUME px.at = "yuv", px.j >= px.h PROVE PxSamplesExact
  <2>1. PxWalking /\ PxSamplesDone
    BY <1>2 DEF PxInv
  <2>2. ASSUME NEW r \in 0..(px.h \div 2 - 1), NEW k \in 0..(px.w \div 2 - 1)
        PROVE  LET p == 2 * r * px.w + 2 * k
               IN  px.out[r * (px.w \div 2) + k] = <<p, p + 1, p + px.w, p + px.w + 1>>
    <3>1. px.j = px.h /\ px.h \in Nat
      BY <1>2, <2>1 DEF PxWalking, PxGeometry
    <3>2. r < px.j \div 2
      BY <3>1
    <3> QED
      BY <2>1, <3>2 DEF PxSamplesDone
  <2> QED
    BY <2>2 DEF PxSamplesExact
<1> QED
  BY <1>1, <1>2 DEF PxPictureExact, PxSamplesExact

\* The colours: any three bytes.
LEMMA PxInvColours ==
  ASSUME PxInv
  PROVE  PxClipInTable /\ PxRoundTrip
<1>1. ASSUME px.at = "colour" PROVE PxClipInTable /\ PxRoundTrip
  <2>4. PICK c \in PxLevels \X PxLevels \X PxLevels : px = [at |-> "colour", c |-> c]
    BY <1>1 DEF PxInv
  <2>5. px.c = c
    BY <2>4
  <2>6. PICK r \in PxLevels, g \in PxLevels, b \in PxLevels : c = <<r, g, b>>
    OBVIOUS
  <2>7. r \in PxByte /\ g \in PxByte /\ b \in PxByte
    BY PxAssumption DEF PxByte
  <2>1. px.c[1] = r /\ px.c[2] = g /\ px.c[3] = b
    BY <2>5, <2>6
  <2>2. PxClipInTable
    <3>1. \A x \in {PxRed(r, b), PxGreen(r, g, b), PxBlue(r, g)} : PxIndex(x) \in PxClipTable
      <4>1. /\ PxIndex(PxRed(r, b)) \in PxClipTable /\ PxIndex(PxGreen(r, g, b)) \in PxClipTable
            /\ PxIndex(PxBlue(r, g)) \in PxClipTable
        BY <2>7, PxTableBounds, Zenon
      <4> QED
        BY <4>1, Zenon
    <3>2. \A x \in {PxRed(px.c[1], px.c[3]), PxGreen(px.c[1], px.c[2], px.c[3]),
                    PxBlue(px.c[1], px.c[2])} : PxIndex(x) \in PxClipTable
      BY <2>1, <3>1, Zenon
    <3> QED
      BY <3>2 DEF PxClipInTable, PxClipTable
  <2>3. PxRoundTrip
    <3> DEFINE y == PxYOf(r, g, b)
               u == PxUOf(r, g, b)
               v == PxVOf(r, g, b)
               yuv == <<y, u, v>>
               red == PxClp(PxIndex(PxRed(y, v)))
               green == PxClp(PxIndex(PxGreen(y, u, v)))
               blue == PxClp(PxIndex(PxBlue(y, u)))
               rgb == <<red, green, blue>>
    <3>1. y \in Int /\ u \in Int /\ v \in Int
      BY <2>7 DEF PxByte, PxTable, PxYOf, PxUOf, PxVOf
    <3>2. /\ y \in PxByte /\ u \in PxByte /\ v \in PxByte
          /\ red - r \in PxNear /\ green - g \in PxNear /\ blue - b \in PxNear
      BY <2>7, <3>1, PxThereAndBack, Zenon
    <3>3. PxToYuv(r, g, b) = yuv
      BY DEF PxToYuv, PxYOf, PxUOf, PxVOf
    <3> HIDE DEF y, u, v
    <3>4. PxToRgb(y, u, v) = rgb
      BY Zenon DEF PxToRgb
    <3>5. PxToRgb(yuv[1], yuv[2], yuv[3]) = rgb
      BY <3>4
    <3> HIDE DEF red, green, blue
    <3>6. \A m \in 1..3 : yuv[m] \in PxByte /\ rgb[m] - <<r, g, b>>[m] \in PxNear
      BY <2>7, <3>2
    <3> HIDE DEF yuv, rgb
    <3>7. PxToYuv(px.c[1], px.c[2], px.c[3]) = yuv
      BY <2>1, <3>3
    <3>8. px.c = <<r, g, b>>
      BY <2>5, <2>6
    <3> QED
      BY <3>5, <3>6, <3>7, <3>8, Zenon DEF PxRoundTrip, PxByte, PxNear
  <2> QED
    BY <2>2, <2>3
<1> QED
  BY <1>1 DEF PxClipInTable, PxRoundTrip

\* The pointers are where row and column say they are, and what they have
\* passed is done.
THEOREM PxInvHolds == PxSpec => []PxInv
<1>1. (\E on \in BOOLEAN : PxInitial(on)) => PxInv
  BY PxInvInit
<1>2. PxInv /\ [PxNext]_px => PxInv'
  BY PxInvNext
<1> QED
  BY <1>1, <1>2, PTL DEF PxSpec

\* For pictures of every even size, both conversions read and write every
\* sample where it belongs and nothing outside the planes; for every colour,
\* no sum reaches outside the clipping table, and what is converted to YUV and
\* back differs by 5 at most (common.cpp).
THEOREM PxCorrectHolds == PxSpec => []PxCorrect
<1>1. PxInv => PxCorrect
  BY PxInvPictures, PxInvColours DEF PxCorrect
<1> QED
  BY <1>1, PxInvHolds, PTL

-----------------------------------------------------------------------------
(* What is drawn into a picture (Overlay)                                  *)
(*                                                                         *)
(* An address has one row and one column, so that the sample of a pixel is *)
(* that of half its row and half its column (OsdSampleAt); the rows and    *)
(* columns a drawing takes in the luma are twice those in the chroma.      *)

\* The row and the column of an address.
LEMMA OsdRowColumn ==
  ASSUME NEW r \in Nat, NEW c \in Nat, NEW w \in Nat, c < w
  PROVE  (w * r + c) \div w = r /\ (w * r + c) % w = c
<1> DEFINE a == w * r + c
<1>1. a \in Nat
  OBVIOUS
<1>2. PICK q \in Nat, m \in Nat : q = a \div w /\ m = a % w /\ a = w * q + m /\ m < w
  <2>1. w > 0
    OBVIOUS
  <2>2. PICK n \in Nat : n = a
    BY <1>1
  <2>3. n \div w \in Nat /\ n % w \in 0..(w - 1) /\ n = w * (n \div w) + (n % w)
    BY <2>1
  <2> QED
    BY <2>2, <2>3
<1>3. a = w * r + c
  OBVIOUS
<1> HIDE DEF a
<1>4. w * q = q * w /\ w * r = r * w
  OBVIOUS
<1>5. ~(q < r)
  <2>1. q < r => q * w + w <= r * w
    BY RowsApart
  <2> QED
    BY <2>1, <1>2, <1>3, <1>4
<1>6. ~(r < q)
  <2>1. r < q => r * w + w <= q * w
    BY RowsApart
  <2> QED
    BY <2>1, <1>2, <1>3, <1>4
<1>7. q = r
  BY <1>5, <1>6
<1>8. m = c
  BY <1>2, <1>3, <1>7
<1> QED
  BY <1>2, <1>7, <1>8 DEF a

\* The sample of the pixel in a row and a column.
LEMMA OsdSampleAt ==
  ASSUME NEW r \in Nat, NEW c \in Nat, c < OsdWidth
  PROVE  OsdSampleOf(OsdWidth * r + c) = (r \div 2) * (OsdWidth \div 2) + c \div 2
BY OsdRowColumn, OsdSizeAssumption, Zenon DEF OsdSampleOf

\* A place is in the picture.
LEMMA OsdPlaceInside ==
  ASSUME NEW w \in Nat, NEW h \in Nat, NEW r \in Nat, NEW c \in Nat, r < h, c < w
  PROVE  w * r + c \in 0..(w * h - 1)
<1>1. r * w + w <= h * w
  BY RowsApart
<1>2. r * w \in Nat /\ h * w = w * h /\ w * r = r * w
  OBVIOUS
<1> QED
  BY <1>1, <1>2

\* So is its sample.
LEMMA OsdSampleInside ==
  ASSUME NEW r \in Nat, NEW c \in Nat, c < OsdWidth, r < OsdHeight
  PROVE  OsdSampleOf(OsdWidth * r + c) \in 0..((OsdWidth \div 2) * (OsdHeight \div 2) - 1)
<1>1. PICK w \in Nat, h \in Nat, i \in Nat, j \in Nat :
        /\ w = OsdWidth \div 2 /\ h = OsdHeight \div 2 /\ i = r \div 2 /\ j = c \div 2
        /\ i < h /\ j < w
  BY OsdSizeAssumption
<1>2. w * i + j \in 0..(w * h - 1)
  BY <1>1, OsdPlaceInside
<1>3. w * i = i * w
  OBVIOUS
<1>4. OsdSampleOf(OsdWidth * r + c) = i * w + j
  BY <1>1, OsdSampleAt, Zenon
<1> QED
  BY <1>1, <1>2, <1>3, <1>4, Zenon

-----------------------------------------------------------------------------
(* What is drawn, place by place *)

OsdLumaColumns(i, y, w, h) ==
  {0, 1, w, w + 1} \cup (IF i \in {y, y + 1, y + h - 1, y + h - 2} THEN 0..(w - 1) ELSE {})
OsdNv12Columns(i, top, end, w) ==
  {0, 1, w, w + 1} \cup (IF i \in {top, end - 1} THEN 0..(w - 1) ELSE {})
OsdYuvColumns(i, top, end, w) ==
  {0, w \div 2} \cup (IF i \in {top, end - 1} THEN 0..(w \div 2 - 1) ELSE {})

\* A place of the luma is in a row and a column.
LEMMA OsdInLuma ==
  ASSUME NEW x, NEW y, NEW w, NEW h, NEW a
  PROVE  a \in OsdLuma(x, y, w, h) <=>
           \E i \in y..(y + h - 1) :
             \E k \in OsdLumaColumns(i, y, w, h) : a = OsdWidth * i + x + k
<1> DEFINE row(i) == {OsdWidth * i + x + k : k \in OsdLumaColumns(i, y, w, h)}
           rows == y..(y + h - 1)
<1>1. OsdLuma(x, y, w, h) = UNION {row(i) : i \in rows}
  BY Zenon DEF OsdLuma, OsdLumaColumns
<1>2. \A i : a \in row(i) <=> \E k \in OsdLumaColumns(i, y, w, h) : a = OsdWidth * i + x + k
  OBVIOUS
<1> HIDE DEF row, rows
<1>3. a \in UNION {row(i) : i \in rows} <=> \E i \in rows : a \in row(i)
  OBVIOUS
<1> QED
  BY <1>1, <1>2, <1>3, Zenon DEF rows

\* So is a byte of the interleaved chroma,
LEMMA OsdInNv12 ==
  ASSUME NEW x, NEW y, NEW w, NEW h, NEW a
  PROVE  a \in OsdNv12Chroma(x, y, w, h) <=>
           \E i \in (y \div 2)..((y + h) \div 2 - 1) :
             \E k \in OsdNv12Columns(i, y \div 2, (y + h) \div 2, w) : a = OsdWidth * i + x + k
<1> DEFINE row(i) == {OsdWidth * i + x + k : k \in OsdNv12Columns(i, y \div 2, (y + h) \div 2, w)}
           rows == (y \div 2)..((y + h) \div 2 - 1)
<1>1. OsdNv12Chroma(x, y, w, h) = UNION {row(i) : i \in rows}
  BY Zenon DEF OsdNv12Chroma, OsdNv12Columns
<1>2. \A i : a \in row(i) <=>
               \E k \in OsdNv12Columns(i, y \div 2, (y + h) \div 2, w) : a = OsdWidth * i + x + k
  OBVIOUS
<1> HIDE DEF row, rows
<1>3. a \in UNION {row(i) : i \in rows} <=> \E i \in rows : a \in row(i)
  OBVIOUS
<1> QED
  BY <1>1, <1>2, <1>3, Zenon DEF rows

\* and a sample of the planes.
LEMMA OsdInYuv ==
  ASSUME NEW x, NEW y, NEW w, NEW h, NEW a
  PROVE  a \in OsdYuvChroma(x, y, w, h) <=>
           \E i \in (y \div 2)..((y + h) \div 2 - 1) :
             \E k \in OsdYuvColumns(i, y \div 2, (y + h) \div 2, w) :
               a = (OsdWidth * i + x) \div 2 + k
<1> DEFINE row(i) == {(OsdWidth * i + x) \div 2 + k :
                        k \in OsdYuvColumns(i, y \div 2, (y + h) \div 2, w)}
           rows == (y \div 2)..((y + h) \div 2 - 1)
<1>1. OsdYuvChroma(x, y, w, h) = UNION {row(i) : i \in rows}
  BY Zenon DEF OsdYuvChroma, OsdYuvColumns
<1>2. \A i : a \in row(i) <=>
               \E k \in OsdYuvColumns(i, y \div 2, (y + h) \div 2, w) :
                 a = (OsdWidth * i + x) \div 2 + k
  OBVIOUS
<1> HIDE DEF row, rows
<1>3. a \in UNION {row(i) : i \in rows} <=> \E i \in rows : a \in row(i)
  OBVIOUS
<1> QED
  BY <1>1, <1>2, <1>3, Zenon DEF rows

\* Two columns of the interleaved plane for each of the two planes.
LEMMA OsdColumnsAgree ==
  ASSUME NEW i, NEW top, NEW end, NEW v \in Nat, NEW k \in Int
  PROVE  k \in OsdNv12Columns(i, top, end, 2 * v) <=>
           \E l \in OsdYuvColumns(i, top, end, 2 * v) : k \in {2 * l, 2 * l + 1}
<1>1. (2 * v) \div 2 = v
  OBVIOUS
<1>2. CASE i \in {top, end - 1}
  <2>1. OsdNv12Columns(i, top, end, 2 * v) = {0, 1, 2 * v, 2 * v + 1} \cup 0..(2 * v - 1)
    BY <1>2, Zenon DEF OsdNv12Columns
  <2>2. OsdYuvColumns(i, top, end, 2 * v) = {0, v} \cup 0..(v - 1)
    BY <1>1, <1>2, Zenon DEF OsdYuvColumns
  <2>3. ASSUME NEW l \in {0, v} \cup 0..(v - 1), k \in {2 * l, 2 * l + 1}
        PROVE  k \in {0, 1, 2 * v, 2 * v + 1} \cup 0..(2 * v - 1)
    BY <2>3
  <2>4. ASSUME k \in {0, 1, 2 * v, 2 * v + 1} \cup 0..(2 * v - 1)
        PROVE  k \div 2 \in {0, v} \cup 0..(v - 1) /\ k \in {2 * (k \div 2), 2 * (k \div 2) + 1}
    BY <2>4
  <2> QED
    BY <2>1, <2>2, <2>3, <2>4, Zenon
<1>3. CASE i \notin {top, end - 1}
  <2>1. OsdNv12Columns(i, top, end, 2 * v) = {0, 1, 2 * v, 2 * v + 1}
    BY <1>3, Zenon DEF OsdNv12Columns
  <2>2. OsdYuvColumns(i, top, end, 2 * v) = {0, v}
    BY <1>1, <1>3, Zenon DEF OsdYuvColumns
  <2> QED
    BY <2>1, <2>2
<1> QED
  BY <1>2, <1>3

\* The properties, of one drawing.
OsdSame(x, y, w, h) ==
  OsdNv12Chroma(x, y, w, h) = UNION {{2 * k, 2 * k + 1} : k \in OsdYuvChroma(x, y, w, h)}
OsdPixels == 0..(OsdWidth * OsdHeight - 1)
OsdSamples == 0..((OsdWidth \div 2) * (OsdHeight \div 2) - 1)
OsdColoured(x, y, w, h) ==
  /\ OsdLuma(x, y, w, h) \subseteq OsdPixels
  /\ OsdYuvChroma(x, y, w, h) \subseteq OsdSamples
  /\ {OsdSampleOf(a) : a \in OsdLuma(x, y, w, h)} = OsdYuvChroma(x, y, w, h)
OsdRunsOver(x, y, w, h) ==
  LET pixels == OsdWidth * OsdHeight
      samples == (OsdWidth \div 2) * (OsdHeight \div 2)
  IN  /\ OsdLuma(x, y, w, h) \ OsdPixels = IF y + h = OsdHeight THEN {pixels, pixels + 1} ELSE {}
      /\ OsdYuvChroma(x, y, w, h) \ OsdSamples = IF y + h = OsdHeight THEN {samples} ELSE {}
      /\ {OsdSampleOf(a) : a \in OsdLuma(x, y, w, h)}
           = OsdYuvChroma(x, y, w, h) \cup {(y \div 2) * (OsdWidth \div 2)}
OsdTextIsColoured(g, x, y) ==
  {OsdSampleOf(a) : a \in OsdTextLuma(g, x, y)} = OsdTextChroma(g, x, y)
OsdTextWithin(g, x, y) ==
  OsdTextLuma(g, x, y) \subseteq OsdPixels <=>
    \A d \in g.dots : OsdTextTop(g, y) + d[1] + (x + d[2]) \div OsdWidth < OsdHeight

\* A frame looks the same in both formats.
LEMMA OsdSameInBoth ==
  ASSUME NEW u \in Nat, NEW y \in Nat, NEW v \in Nat, NEW h \in Nat
  PROVE  OsdSame(2 * u, y, 2 * v, h)
<1>1. PICK m \in Nat : OsdWidth = 2 * m
  BY OsdSizeAssumption
<1>2. ASSUME NEW i \in (y \div 2)..((y + h) \div 2 - 1), NEW l \in Int
      PROVE  /\ OsdWidth * i + 2 * u + 2 * l = 2 * ((OsdWidth * i + 2 * u) \div 2 + l)
             /\ OsdWidth * i + 2 * u + (2 * l + 1) = 2 * ((OsdWidth * i + 2 * u) \div 2 + l) + 1
  <2>1. i \in Int
    OBVIOUS
  <2>2. PICK n \in Int : n = m * i
    BY <2>1
  <2>3. OsdWidth * i = 2 * n
    BY <1>1, <2>1, <2>2
  <2>4. (2 * n + 2 * u) \div 2 = n + u
    OBVIOUS
  <2> QED
    BY <2>3, <2>4
<1> DEFINE top == y \div 2
           end == (y + h) \div 2
<1>3. ASSUME NEW a, a \in OsdNv12Chroma(2 * u, y, 2 * v, h)
      PROVE  \E k \in OsdYuvChroma(2 * u, y, 2 * v, h) : a \in {2 * k, 2 * k + 1}
  <2>8. PICK i \in top..(end - 1) :
          \E k \in OsdNv12Columns(i, top, end, 2 * v) : a = OsdWidth * i + 2 * u + k
    BY <1>3, OsdInNv12
  <2>1. PICK k \in OsdNv12Columns(i, top, end, 2 * v) : a = OsdWidth * i + 2 * u + k
    BY <2>8
  <2>2. k \in Int
    <3>1. OsdNv12Columns(i, top, end, 2 * v) \subseteq Int
      BY DEF OsdNv12Columns
    <3> QED
      BY <3>1
  <2>3. PICK l \in OsdYuvColumns(i, top, end, 2 * v) : k \in {2 * l, 2 * l + 1}
    BY <2>2, OsdColumnsAgree, Zenon
  <2>4. l \in Int
    <3>1. OsdYuvColumns(i, top, end, 2 * v) \subseteq Int
      BY DEF OsdYuvColumns
    <3> QED
      BY <3>1
  <2> DEFINE s == (OsdWidth * i + 2 * u) \div 2 + l
  <2>5. s \in OsdYuvChroma(2 * u, y, 2 * v, h)
    BY OsdInYuv, Zenon
  <2>6. OsdWidth * i + 2 * u + 2 * l = 2 * s /\ OsdWidth * i + 2 * u + (2 * l + 1) = 2 * s + 1
    BY <1>2, <2>4, Zenon
  <2> HIDE DEF s
  <2>7. a \in {2 * s, 2 * s + 1}
    BY <2>1, <2>3, <2>6, Zenon
  <2> QED
    BY <2>5, <2>7, Zenon
<1>4. ASSUME NEW k, k \in OsdYuvChroma(2 * u, y, 2 * v, h)
      PROVE  /\ 2 * k \in OsdNv12Chroma(2 * u, y, 2 * v, h)
             /\ 2 * k + 1 \in OsdNv12Chroma(2 * u, y, 2 * v, h)
  <2>6. PICK i \in top..(end - 1) :
          \E l \in OsdYuvColumns(i, top, end, 2 * v) : k = (OsdWidth * i + 2 * u) \div 2 + l
    BY <1>4, OsdInYuv
  <2>1. PICK l \in OsdYuvColumns(i, top, end, 2 * v) : k = (OsdWidth * i + 2 * u) \div 2 + l
    BY <2>6
  <2>2. l \in Int
    <3>1. OsdYuvColumns(i, top, end, 2 * v) \subseteq Int
      BY DEF OsdYuvColumns
    <3> QED
      BY <3>1
  <2>3. 2 * l \in Int /\ 2 * l + 1 \in Int
    BY <2>2
  <2>4. /\ 2 * l \in OsdNv12Columns(i, top, end, 2 * v)
        /\ 2 * l + 1 \in OsdNv12Columns(i, top, end, 2 * v)
    BY <2>3, OsdColumnsAgree, Zenon
  <2>5. 2 * k = OsdWidth * i + 2 * u + 2 * l /\ 2 * k + 1 = OsdWidth * i + 2 * u + (2 * l + 1)
    BY <1>2, <2>1, <2>2, Zenon
  <2> QED
    BY <2>4, <2>5, OsdInNv12, Zenon
<1> QED
  BY <1>3, <1>4 DEF OsdSame

\* Rows and columns of the samples are half of those of the pixels.
LEMMA OsdColumnsHalved ==
  ASSUME NEW t \in Nat, NEW v \in Nat, NEW n \in Nat
  PROVE  /\ \A i \in (2 * t)..(2 * t + 2 * n - 1) :
              \A k \in OsdLumaColumns(i, 2 * t, 2 * v, 2 * n) :
                /\ i \div 2 \in t..(t + n - 1) /\ k \in 0..(2 * v + 1)
                /\ k \div 2 \in OsdYuvColumns(i \div 2, t, t + n, 2 * v)
         /\ \A j \in t..(t + n - 1) :
              \A l \in OsdYuvColumns(j, t, t + n, 2 * v) :
                /\ 2 * j \in (2 * t)..(2 * t + 2 * n - 1) /\ l \in 0..v
                /\ 2 * l \in OsdLumaColumns(2 * j, 2 * t, 2 * v, 2 * n)
<1>1. (2 * v) \div 2 = v
  OBVIOUS
<1>2. ASSUME NEW i \in (2 * t)..(2 * t + 2 * n - 1),
             NEW k \in OsdLumaColumns(i, 2 * t, 2 * v, 2 * n)
      PROVE  /\ i \div 2 \in t..(t + n - 1) /\ k \in 0..(2 * v + 1)
             /\ k \div 2 \in OsdYuvColumns(i \div 2, t, t + n, 2 * v)
  <2>1. i \div 2 \in t..(t + n - 1)
    OBVIOUS
  <2>2. CASE i \in {2 * t, 2 * t + 1, 2 * t + 2 * n - 1, 2 * t + 2 * n - 2}
    <3>1. k \in {0, 1, 2 * v, 2 * v + 1} \cup 0..(2 * v - 1)
      BY <2>2 DEF OsdLumaColumns
    <3>2. i \div 2 \in {t, t + n - 1}
      BY <2>2
    <3>3. k \in 0..(2 * v + 1) /\ k \div 2 \in {0, v} \cup 0..(v - 1)
      BY <3>1
    <3>4. OsdYuvColumns(i \div 2, t, t + n, 2 * v) = {0, v} \cup 0..(v - 1)
      <4>1. PICK j : j = i \div 2
        OBVIOUS
      <4>2. OsdYuvColumns(j, t, t + n, 2 * v) = {0, v} \cup 0..(v - 1)
        BY <1>1, <3>2, <4>1 DEF OsdYuvColumns
      <4> QED
        BY <4>1, <4>2, Zenon
    <3> QED
      BY <2>1, <3>3, <3>4, Zenon
  <2>3. CASE i \notin {2 * t, 2 * t + 1, 2 * t + 2 * n - 1, 2 * t + 2 * n - 2}
    <3>1. k \in {0, 1, 2 * v, 2 * v + 1}
      BY <2>3 DEF OsdLumaColumns
    <3>2. k \in 0..(2 * v + 1) /\ k \div 2 \in {0, v}
      BY <3>1
    <3>3. {0, v} \subseteq OsdYuvColumns(i \div 2, t, t + n, 2 * v)
      BY <1>1, Zenon DEF OsdYuvColumns
    <3> QED
      BY <2>1, <3>2, <3>3, Zenon
  <2> QED
    BY <2>2, <2>3
<1>3. ASSUME NEW j \in t..(t + n - 1), NEW l \in OsdYuvColumns(j, t, t + n, 2 * v)
      PROVE  /\ 2 * j \in (2 * t)..(2 * t + 2 * n - 1) /\ l \in 0..v
             /\ 2 * l \in OsdLumaColumns(2 * j, 2 * t, 2 * v, 2 * n)
  <2>1. 2 * j \in (2 * t)..(2 * t + 2 * n - 1)
    OBVIOUS
  <2>2. CASE j \in {t, t + n - 1}
    <3>1. l \in {0, v} \cup 0..(v - 1)
      BY <1>1, <2>2 DEF OsdYuvColumns
    <3>2. 2 * j \in {2 * t, 2 * t + 1, 2 * t + 2 * n - 1, 2 * t + 2 * n - 2}
      BY <2>2
    <3>3. l \in 0..v /\ 2 * l \in {0, 1, 2 * v, 2 * v + 1} \cup 0..(2 * v - 1)
      BY <3>1
    <3>4. OsdLumaColumns(2 * j, 2 * t, 2 * v, 2 * n)
            = {0, 1, 2 * v, 2 * v + 1} \cup 0..(2 * v - 1)
      BY <3>2, Zenon DEF OsdLumaColumns
    <3> QED
      BY <2>1, <3>3, <3>4, Zenon
  <2>3. CASE j \notin {t, t + n - 1}
    <3>1. l \in {0, v}
      BY <1>1, <2>3 DEF OsdYuvColumns
    <3>2. l \in 0..v /\ 2 * l \in {0, 1, 2 * v, 2 * v + 1}
      BY <3>1
    <3>3. {0, 1, 2 * v, 2 * v + 1} \subseteq OsdLumaColumns(2 * j, 2 * t, 2 * v, 2 * n)
      BY Zenon DEF OsdLumaColumns
    <3> QED
      BY <2>1, <3>2, <3>3, Zenon
  <2> QED
    BY <2>2, <2>3
<1> QED
  BY <1>2, <1>3, Zenon

\* A pixel of a frame and its sample.
LEMMA OsdPixelSample ==
  ASSUME NEW i \in Nat, NEW u \in Nat, NEW k \in Nat, 2 * u + k < OsdWidth
  PROVE  /\ OsdSampleOf(OsdWidth * i + 2 * u + k)
              = (OsdWidth * (i \div 2) + 2 * u) \div 2 + k \div 2
         /\ i < OsdHeight => /\ OsdWidth * i + 2 * u + k \in OsdPixels
                             /\ OsdSampleOf(OsdWidth * i + 2 * u + k) \in OsdSamples
<1>1. PICK m \in Nat : OsdWidth = 2 * m
  BY OsdSizeAssumption
<1>2. OsdWidth * i + 2 * u + k = OsdWidth * i + (2 * u + k)
  BY <1>1
<1>3. OsdSampleOf(OsdWidth * i + (2 * u + k))
        = (i \div 2) * (OsdWidth \div 2) + (2 * u + k) \div 2
  <2>1. 2 * u + k \in Nat
    OBVIOUS
  <2> QED
    BY <2>1, OsdSampleAt, Zenon
<1>4. (2 * u + k) \div 2 = u + k \div 2 /\ i \div 2 \in Nat /\ k \div 2 \in Nat
  OBVIOUS
<1>5. (i \div 2) * (OsdWidth \div 2) + u = (OsdWidth * (i \div 2) + 2 * u) \div 2
  <2>1. OsdWidth \div 2 = m
    BY <1>1
  <2> PICK j \in Nat : j = i \div 2
    BY <1>4
  <2>2. PICK p \in Nat : p = j * m
    OBVIOUS
  <2>3. OsdWidth * j = 2 * p
    BY <1>1, <2>2
  <2>4. (2 * p + 2 * u) \div 2 = p + u
    OBVIOUS
  <2> QED
    BY <2>1, <2>2, <2>3, <2>4
<1>6. i < OsdHeight => /\ OsdWidth * i + (2 * u + k) \in OsdPixels
                       /\ OsdSampleOf(OsdWidth * i + (2 * u + k)) \in OsdSamples
  <2>1. 2 * u + k \in Nat
    OBVIOUS
  <2>2. i < OsdHeight => OsdWidth * i + (2 * u + k) \in OsdPixels
    BY <2>1, OsdPlaceInside, OsdSizeAssumption DEF OsdPixels
  <2>3. i < OsdHeight => OsdSampleOf(OsdWidth * i + (2 * u + k)) \in OsdSamples
    BY <2>1, OsdSampleInside, Zenon DEF OsdSamples
  <2> QED
    BY <2>2, <2>3
<1> DEFINE left == (i \div 2) * (OsdWidth \div 2)
           right == (OsdWidth * (i \div 2) + 2 * u) \div 2
<1>7. left \in Int
  BY <1>1, <1>4
<1>8. OsdSampleOf(OsdWidth * i + (2 * u + k)) = left + (u + k \div 2)
  BY <1>3, <1>4, Zenon
<1>9. left + u = right
  BY <1>5, Zenon
<1> HIDE DEF left, right
<1>10. OsdSampleOf(OsdWidth * i + (2 * u + k)) = right + k \div 2
  BY <1>4, <1>7, <1>8, <1>9
<1> QED
  BY <1>2, <1>6, <1>10, Zenon DEF right

\* A frame inside the picture has its colour.
LEMMA OsdFrameHasColour ==
  ASSUME NEW u \in Nat, NEW t \in Nat, NEW v \in Nat, NEW n \in Nat,
         2 * u + 2 * v + 2 <= OsdWidth, 2 * t + 2 * n <= OsdHeight
  PROVE  OsdColoured(2 * u, 2 * t, 2 * v, 2 * n)
<1>1. (2 * t) \div 2 = t /\ (2 * t + 2 * n) \div 2 = t + n
  OBVIOUS
<1> DEFINE luma == OsdLuma(2 * u, 2 * t, 2 * v, 2 * n)
           chroma == OsdYuvChroma(2 * u, 2 * t, 2 * v, 2 * n)
<1>2. \A a : a \in luma <=>
        \E i \in (2 * t)..(2 * t + 2 * n - 1) :
          \E k \in OsdLumaColumns(i, 2 * t, 2 * v, 2 * n) : a = OsdWidth * i + 2 * u + k
  BY OsdInLuma
<1>3. \A s : s \in chroma <=>
        \E j \in t..(t + n - 1) :
          \E l \in OsdYuvColumns(j, t, t + n, 2 * v) : s = (OsdWidth * j + 2 * u) \div 2 + l
  BY <1>1, OsdInYuv
<1> HIDE DEF luma, chroma
<1>4. ASSUME NEW a \in luma
      PROVE  a \in OsdPixels /\ OsdSampleOf(a) \in chroma /\ OsdSampleOf(a) \in OsdSamples
  <2>1. PICK i \in (2 * t)..(2 * t + 2 * n - 1) :
          \E k \in OsdLumaColumns(i, 2 * t, 2 * v, 2 * n) : a = OsdWidth * i + 2 * u + k
    BY <1>2, <1>4, Zenon
  <2>2. PICK k \in OsdLumaColumns(i, 2 * t, 2 * v, 2 * n) : a = OsdWidth * i + 2 * u + k
    BY <2>1
  <2>3. /\ i \div 2 \in t..(t + n - 1) /\ k \in 0..(2 * v + 1)
        /\ k \div 2 \in OsdYuvColumns(i \div 2, t, t + n, 2 * v)
    BY OsdColumnsHalved, Zenon
  <2>4. i \in Nat /\ k \in Nat /\ 2 * u + k < OsdWidth /\ i < OsdHeight
    <3>1. i \in Nat /\ i < OsdHeight
      BY OsdSizeAssumption
    <3>2. k \in Nat /\ 2 * u + k < OsdWidth
      BY <2>3, OsdSizeAssumption
    <3> QED
      BY <3>1, <3>2
  <2>5. /\ OsdSampleOf(a) = (OsdWidth * (i \div 2) + 2 * u) \div 2 + k \div 2
        /\ a \in OsdPixels /\ OsdSampleOf(a) \in OsdSamples
    <3>1. /\ OsdSampleOf(OsdWidth * i + 2 * u + k)
               = (OsdWidth * (i \div 2) + 2 * u) \div 2 + k \div 2
          /\ OsdWidth * i + 2 * u + k \in OsdPixels
          /\ OsdSampleOf(OsdWidth * i + 2 * u + k) \in OsdSamples
      BY <2>4, OsdPixelSample, Zenon
    <3> QED
      BY <2>2, <3>1, Zenon
  <2> QED
    BY <1>3, <2>3, <2>5, Zenon
<1>5. ASSUME NEW s \in chroma
      PROVE  \E a \in luma : s = OsdSampleOf(a)
  <2>1. PICK j \in t..(t + n - 1) :
          \E l \in OsdYuvColumns(j, t, t + n, 2 * v) : s = (OsdWidth * j + 2 * u) \div 2 + l
    BY <1>3, <1>5, Zenon
  <2>2. PICK l \in OsdYuvColumns(j, t, t + n, 2 * v) : s = (OsdWidth * j + 2 * u) \div 2 + l
    BY <2>1
  <2>3. /\ 2 * j \in (2 * t)..(2 * t + 2 * n - 1) /\ l \in 0..v
        /\ 2 * l \in OsdLumaColumns(2 * j, 2 * t, 2 * v, 2 * n)
    BY OsdColumnsHalved, Zenon
  <2>4. 2 * j \in Nat /\ 2 * l \in Nat /\ 2 * u + 2 * l < OsdWidth
    BY <2>3, OsdSizeAssumption
  <2>5. OsdSampleOf(OsdWidth * (2 * j) + 2 * u + 2 * l)
          = (OsdWidth * ((2 * j) \div 2) + 2 * u) \div 2 + (2 * l) \div 2
    BY <2>4, OsdPixelSample, Zenon
  <2>6. (2 * j) \div 2 = j /\ (2 * l) \div 2 = l
    BY <2>3
  <2>7. s = OsdSampleOf(OsdWidth * (2 * j) + 2 * u + 2 * l)
    BY <2>2, <2>5, <2>6, Zenon
  <2>8. OsdWidth * (2 * j) + 2 * u + 2 * l \in luma
    BY <1>2, <2>3, Zenon
  <2> QED
    BY <2>7, <2>8, Zenon
<1>6. {OsdSampleOf(a) : a \in luma} = chroma
  BY <1>4, <1>5, Zenon
<1>7. chroma \subseteq OsdSamples
  BY <1>4, <1>5, Zenon
<1> QED
  BY <1>4, <1>6, <1>7, Zenon DEF luma, chroma, OsdColoured

\* A box without rows is not drawn.
LEMMA OsdNothingColoured ==
  ASSUME NEW u \in Nat, NEW t \in Nat, NEW v \in Nat
  PROVE  OsdColoured(2 * u, 2 * t, 2 * v, 2 * 0)
<1>1. (2 * t)..(2 * t + 2 * 0 - 1) = {} /\ ((2 * t) \div 2)..((2 * t + 2 * 0) \div 2 - 1) = {}
  OBVIOUS
<1>2. OsdLuma(2 * u, 2 * t, 2 * v, 2 * 0) = {} /\ OsdYuvChroma(2 * u, 2 * t, 2 * v, 2 * 0) = {}
  <2>1. \A a : a \notin OsdLuma(2 * u, 2 * t, 2 * v, 2 * 0)
    BY <1>1, OsdInLuma, Zenon
  <2>2. \A a : a \notin OsdYuvChroma(2 * u, 2 * t, 2 * v, 2 * 0)
    BY <1>1, OsdInYuv, Zenon
  <2> QED
    BY <2>1, <2>2
<1> QED
  BY <1>2 DEF OsdColoured

\* The samples of a box at even places.
OsdAreSamples(places, u, t, v, n) ==
  \A s : s \in places <=>
    \E j \in t..(t + n - 1) :
      \E l \in OsdYuvColumns(j, t, t + n, 2 * v) : s = (OsdWidth * j + 2 * u) \div 2 + l
LEMMA OsdInEvenYuv ==
  ASSUME NEW u \in Nat, NEW t \in Nat, NEW v \in Nat, NEW n \in Nat
  PROVE  OsdAreSamples(OsdYuvChroma(2 * u, 2 * t, 2 * v, 2 * n), u, t, v, n)
<1>1. (2 * t) \div 2 = t /\ (2 * t + 2 * n) \div 2 = t + n
  OBVIOUS
<1> QED
  BY <1>1, OsdInYuv DEF OsdAreSamples

\* The line to the right of a box at the right border: it is in the row below,
LEMMA OsdRightLuma ==
  ASSUME NEW i \in Nat, NEW u \in Nat, NEW v \in Nat, 2 * u + 2 * v = OsdWidth, OsdWidth > 0,
         NEW c \in {0, 1}
  PROVE  LET a == OsdWidth * i + 2 * u + (2 * v + c)
         IN  /\ OsdSampleOf(a) = ((i + 1) \div 2) * (OsdWidth \div 2)
             /\ i + 1 < OsdHeight => a \in OsdPixels
             /\ i + 1 = OsdHeight => a = OsdWidth * OsdHeight + c /\ a \notin OsdPixels
<1> DEFINE a == OsdWidth * i + 2 * u + (2 * v + c)
<1>1. a = OsdWidth * (i + 1) + c
  <2>1. PICK p \in Int : p = OsdWidth * i
    BY OsdSizeAssumption
  <2>2. OsdWidth * (i + 1) = p + OsdWidth
    BY <2>1, OsdSizeAssumption
  <2> QED
    BY <2>1, <2>2, OsdSizeAssumption
<1>2. c \in Nat /\ c < OsdWidth /\ i + 1 \in Nat /\ c \div 2 = 0
  BY OsdSizeAssumption
<1>3. OsdSampleOf(a) = ((i + 1) \div 2) * (OsdWidth \div 2)
  <2>1. PICK n \in Nat : n = ((i + 1) \div 2) * (OsdWidth \div 2)
    <3>1. (i + 1) \div 2 \in Nat /\ OsdWidth \div 2 \in Nat
      BY OsdSizeAssumption
    <3> QED
      BY <3>1
  <2>2. OsdSampleOf(OsdWidth * (i + 1) + c) = ((i + 1) \div 2) * (OsdWidth \div 2) + c \div 2
    BY <1>2, OsdSampleAt, Zenon
  <2>3. n + 0 = n
    OBVIOUS
  <2> QED
    BY <1>1, <1>2, <2>1, <2>2, <2>3, Zenon
<1>4. i + 1 < OsdHeight => a \in OsdPixels
  BY <1>1, <1>2, OsdPlaceInside, OsdSizeAssumption, Zenon DEF OsdPixels
<1>5. i + 1 = OsdHeight => a = OsdWidth * OsdHeight + c /\ a \notin OsdPixels
  <2>1. PICK n \in Nat : n = OsdWidth * OsdHeight
    BY OsdSizeAssumption
  <2>2. n + c \notin 0..(n - 1)
    OBVIOUS
  <2> QED
    BY <1>1, <2>1, <2>2, Zenon DEF OsdPixels
<1> QED
  BY <1>3, <1>4, <1>5, Zenon

\* and the same in the chroma.
LEMMA OsdRightChroma ==
  ASSUME NEW j \in Nat, NEW u \in Nat, NEW v \in Nat, 2 * u + 2 * v = OsdWidth, OsdWidth > 0
  PROVE  LET s == (OsdWidth * j + 2 * u) \div 2 + v
         IN  /\ s = (j + 1) * (OsdWidth \div 2)
             /\ 2 * j + 2 < OsdHeight => s \in OsdSamples
             /\ 2 * j + 2 = OsdHeight =>
                  s = (OsdWidth \div 2) * (OsdHeight \div 2) /\ s \notin OsdSamples
<1> DEFINE s == (OsdWidth * j + 2 * u) \div 2 + v
<1>1. PICK m \in Nat : m = u + v /\ OsdWidth = 2 * m /\ OsdWidth \div 2 = m /\ m > 0
  OBVIOUS
<1>2. s = (j + 1) * m
  <2>1. PICK p \in Nat : p = j * m
    OBVIOUS
  <2>2. OsdWidth * j = 2 * p /\ (j + 1) * m = p + m
    BY <1>1, <2>1
  <2>3. (2 * p + 2 * u) \div 2 = p + u
    OBVIOUS
  <2> QED
    BY <1>1, <2>2, <2>3
<1>3. (j + 1) * m = m * (j + 1)
  OBVIOUS
<1>4. PICK h \in Nat : h = OsdHeight \div 2 /\ OsdHeight = 2 * h
  BY OsdSizeAssumption
<1>5. 2 * j + 2 < OsdHeight => s \in OsdSamples
  <2>1. ASSUME j + 1 < h
        PROVE  m * (j + 1) + 0 \in 0..(m * h - 1)
    BY <1>1, <2>1, OsdPlaceInside
  <2>2. m * (j + 1) + 0 = m * (j + 1)
    OBVIOUS
  <2>3. 2 * j + 2 < OsdHeight => j + 1 < h
    BY <1>4
  <2> QED
    BY <1>1, <1>2, <1>3, <1>4, <2>1, <2>2, <2>3, Zenon DEF OsdSamples
<1>6. 2 * j + 2 = OsdHeight => s = m * h /\ s \notin 0..(m * h - 1)
  <2>1. PICK n \in Nat : n = m * h
    OBVIOUS
  <2>2. n \notin 0..(n - 1)
    OBVIOUS
  <2>3. 2 * j + 2 = OsdHeight => j + 1 = h
    BY <1>4
  <2> QED
    BY <1>2, <1>3, <2>1, <2>2, <2>3, Zenon
<1> QED
  BY <1>1, <1>2, <1>4, <1>5, <1>6, Zenon DEF OsdSamples

\* What a frame at the right border writes: each place is one of the box or of
\* that line.
LEMMA OsdFrameRunsOver ==
  ASSUME NEW u \in Nat, NEW t \in Nat, NEW v \in Nat, NEW n \in Nat,
         2 * u + 2 * v = OsdWidth, OsdWidth > 0, n > 0, 2 * t + 2 * n <= OsdHeight
  PROVE  OsdRunsOver(2 * u, 2 * t, 2 * v, 2 * n)
<1>1. (2 * t) \div 2 = t /\ (2 * t + 2 * n) \div 2 = t + n /\ (2 * v) \div 2 = v
  OBVIOUS
<1> DEFINE luma == OsdLuma(2 * u, 2 * t, 2 * v, 2 * n)
           chroma == OsdYuvChroma(2 * u, 2 * t, 2 * v, 2 * n)
           pixels == OsdWidth * OsdHeight
           samples == (OsdWidth \div 2) * (OsdHeight \div 2)
           high == t * (OsdWidth \div 2)
<1>2. \A a : a \in luma <=>
        \E i \in (2 * t)..(2 * t + 2 * n - 1) :
          \E k \in OsdLumaColumns(i, 2 * t, 2 * v, 2 * n) : a = OsdWidth * i + 2 * u + k
  BY OsdInLuma
<1>3. \A s : s \in chroma <=>
        \E j \in t..(t + n - 1) :
          \E l \in OsdYuvColumns(j, t, t + n, 2 * v) : s = (OsdWidth * j + 2 * u) \div 2 + l
  <2>1. OsdAreSamples(chroma, u, t, v, n)
    BY OsdInEvenYuv, Zenon
  <2> QED
    BY <2>1, Zenon DEF OsdAreSamples
<1> HIDE DEF luma, chroma
\* The line to the right, in luma and chroma,
<1>4. ASSUME NEW i \in (2 * t)..(2 * t + 2 * n - 1), NEW c \in {0, 1}
      PROVE  OsdWidth * i + 2 * u + (2 * v + c) \in luma
  <2>1. 2 * v + c \in OsdLumaColumns(i, 2 * t, 2 * v, 2 * n)
    <3>1. 2 * v + c \in {0, 1, 2 * v, 2 * v + 1}
      OBVIOUS
    <3> QED
      BY <3>1, Zenon DEF OsdLumaColumns
  <2> QED
    BY <1>2, <2>1, Zenon
<1>5. ASSUME NEW j \in t..(t + n - 1)
      PROVE  (OsdWidth * j + 2 * u) \div 2 + v \in chroma
  <2>1. v \in OsdYuvColumns(j, t, t + n, 2 * v)
    BY <1>1, Zenon DEF OsdYuvColumns
  <2> QED
    BY <1>3, <2>1, Zenon
\* and the box.
<1>6. ASSUME NEW i \in (2 * t)..(2 * t + 2 * n - 1), NEW k \in Nat, k < 2 * v
      PROVE  /\ OsdSampleOf(OsdWidth * i + 2 * u + k)
                  = (OsdWidth * (i \div 2) + 2 * u) \div 2 + k \div 2
             /\ OsdWidth * i + 2 * u + k \in OsdPixels
             /\ OsdSampleOf(OsdWidth * i + 2 * u + k) \in OsdSamples
  <2>1. i \in Nat /\ i < OsdHeight /\ 2 * u + k < OsdWidth
    BY <1>6, OsdSizeAssumption
  <2>2. \A x, y, z \in Nat :
          2 * y + z < OsdWidth
          => /\ OsdSampleOf(OsdWidth * x + 2 * y + z)
                  = (OsdWidth * (x \div 2) + 2 * y) \div 2 + z \div 2
             /\ x < OsdHeight => /\ OsdWidth * x + 2 * y + z \in OsdPixels
                                 /\ OsdSampleOf(OsdWidth * x + 2 * y + z) \in OsdSamples
    BY OsdPixelSample, Zenon
  <2>3. u \in Nat /\ k \in Nat
    BY <1>6
  <2>4. 2 * u + k < OsdWidth
        => /\ OsdSampleOf(OsdWidth * i + 2 * u + k)
                = (OsdWidth * (i \div 2) + 2 * u) \div 2 + k \div 2
           /\ i < OsdHeight => /\ OsdWidth * i + 2 * u + k \in OsdPixels
                               /\ OsdSampleOf(OsdWidth * i + 2 * u + k) \in OsdSamples
    <3>1. i \in Nat
      BY <2>1
    <3> QED
      BY <3>1, <2>2, <2>3, Zenon
  <2> QED
    BY <2>1, <2>4, Zenon
<1>7. ASSUME NEW a \in luma
      PROVE  /\ a \in OsdPixels \/ (2 * t + 2 * n = OsdHeight /\ a \in {pixels, pixels + 1})
             /\ OsdSampleOf(a) \in chroma \/ OsdSampleOf(a) = high
  <2>1. PICK i \in (2 * t)..(2 * t + 2 * n - 1) :
          \E k \in OsdLumaColumns(i, 2 * t, 2 * v, 2 * n) : a = OsdWidth * i + 2 * u + k
    BY <1>2, <1>7, Zenon
  <2>2. PICK k \in OsdLumaColumns(i, 2 * t, 2 * v, 2 * n) : a = OsdWidth * i + 2 * u + k
    BY <2>1
  <2>3. /\ i \div 2 \in t..(t + n - 1) /\ k \in 0..(2 * v + 1)
        /\ k \div 2 \in OsdYuvColumns(i \div 2, t, t + n, 2 * v)
    BY OsdColumnsHalved, Zenon
  <2>4. CASE k < 2 * v
    <3>1. k \in Nat
      BY <2>3
    <3>2. /\ OsdSampleOf(a) = (OsdWidth * (i \div 2) + 2 * u) \div 2 + k \div 2
          /\ a \in OsdPixels
      BY <1>6, <2>2, <2>4, <3>1, Zenon
    <3> QED
      BY <1>3, <2>3, <3>2, Zenon
  <2>5. CASE ~(k < 2 * v)
    <3>1. PICK c \in {0, 1} : k = 2 * v + c
      <4>1. k - 2 * v \in {0, 1} /\ k = 2 * v + (k - 2 * v)
        BY <2>3, <2>5
      <4> QED
        BY <4>1, Zenon
    <3>2. i \in Nat /\ i + 1 <= OsdHeight /\ (i + 1 = OsdHeight => 2 * t + 2 * n = OsdHeight)
      BY OsdSizeAssumption
    <3>3. /\ OsdSampleOf(a) = ((i + 1) \div 2) * (OsdWidth \div 2)
          /\ i + 1 < OsdHeight => a \in OsdPixels
          /\ i + 1 = OsdHeight => a = OsdWidth * OsdHeight + c
      <4> DEFINE b == OsdWidth * i + 2 * u + (2 * v + c)
      <4>1. /\ OsdSampleOf(b) = ((i + 1) \div 2) * (OsdWidth \div 2)
            /\ i + 1 < OsdHeight => b \in OsdPixels
            /\ i + 1 = OsdHeight => b = OsdWidth * OsdHeight + c
        BY <3>2, OsdRightLuma, SMTT(30)
      <4>2. a = b
        BY <2>2, <3>1, Zenon
      <4> HIDE DEF b
      <4> QED
        BY <4>1, <4>2, Zenon
    <3>4. a \in OsdPixels \/ (2 * t + 2 * n = OsdHeight /\ a \in {pixels, pixels + 1})
      <4>1. pixels \in Nat
        BY OsdSizeAssumption
      <4>2. pixels + c \in {pixels, pixels + 1}
        BY <4>1
      <4>3. i + 1 < OsdHeight \/ i + 1 = OsdHeight
        BY <3>2, OsdSizeAssumption
      <4> QED
        BY <3>2, <3>3, <4>2, <4>3, Zenon
    <3>5. (i + 1) \div 2 = t \/ \E j \in t..(t + n - 1) : (i + 1) \div 2 = j + 1
      <4>1. (i + 1) \div 2 \in t..(t + n)
        OBVIOUS
      <4>2. (i + 1) \div 2 = t \/ ((i + 1) \div 2) - 1 \in t..(t + n - 1)
        BY <4>1
      <4>3. (i + 1) \div 2 = (((i + 1) \div 2) - 1) + 1
        BY <4>1
      <4> QED
        BY <4>2, <4>3, Zenon
    <3>6. CASE (i + 1) \div 2 = t
      BY <3>3, <3>4, <3>6, Zenon
    <3>7. ASSUME NEW j \in t..(t + n - 1), (i + 1) \div 2 = j + 1
          PROVE  OsdSampleOf(a) \in chroma
      <4>1. j \in Nat
        OBVIOUS
      <4>2. (OsdWidth * j + 2 * u) \div 2 + v = (j + 1) * (OsdWidth \div 2)
        BY <4>1, OsdRightChroma, Zenon
      <4> QED
        BY <1>5, <3>3, <3>7, <4>2, Zenon
    <3> QED
      BY <3>4, <3>5, <3>6, <3>7, Zenon
  <2> QED
    BY <2>4, <2>5, Zenon
<1>8. ASSUME NEW s \in chroma
      PROVE  /\ s \in OsdSamples \/ (2 * t + 2 * n = OsdHeight /\ s = samples)
             /\ \E a \in luma : s = OsdSampleOf(a)
  <2>1. PICK j \in t..(t + n - 1) :
          \E l \in OsdYuvColumns(j, t, t + n, 2 * v) : s = (OsdWidth * j + 2 * u) \div 2 + l
    BY <1>3, <1>8, Zenon
  <2>2. PICK l \in OsdYuvColumns(j, t, t + n, 2 * v) : s = (OsdWidth * j + 2 * u) \div 2 + l
    BY <2>1
  <2>3. /\ 2 * j \in (2 * t)..(2 * t + 2 * n - 1) /\ l \in 0..v
        /\ 2 * l \in OsdLumaColumns(2 * j, 2 * t, 2 * v, 2 * n)
    BY OsdColumnsHalved, Zenon
  <2>4. CASE l # v
    <3>1. 2 * l \in Nat /\ 2 * l < 2 * v
      BY <2>3, <2>4
    <3>2. (2 * j) \div 2 = j /\ (2 * l) \div 2 = l
      BY <2>3
    <3>3. /\ OsdSampleOf(OsdWidth * (2 * j) + 2 * u + 2 * l)
               = (OsdWidth * ((2 * j) \div 2) + 2 * u) \div 2 + (2 * l) \div 2
          /\ OsdSampleOf(OsdWidth * (2 * j) + 2 * u + 2 * l) \in OsdSamples
      BY <1>6, <2>3, <3>1, Zenon
    <3>4. OsdWidth * (2 * j) + 2 * u + 2 * l \in luma
      BY <1>2, <2>3, Zenon
    <3>5. s = OsdSampleOf(OsdWidth * (2 * j) + 2 * u + 2 * l)
      BY <2>2, <3>2, <3>3, Zenon
    <3> QED
      BY <3>3, <3>4, <3>5, Zenon
  <2>5. CASE l = v
    <3>1. /\ j \in Nat /\ 2 * j + 1 \in (2 * t)..(2 * t + 2 * n - 1) /\ 2 * j + 1 \in Nat
          /\ ((2 * j + 1) + 1) \div 2 = j + 1
          /\ 2 * j + 2 = OsdHeight \/ 2 * j + 2 < OsdHeight
          /\ 2 * j + 2 = OsdHeight => 2 * t + 2 * n = OsdHeight
      BY OsdSizeAssumption
    <3>2. /\ s = (j + 1) * (OsdWidth \div 2)
          /\ 2 * j + 2 < OsdHeight => s \in OsdSamples
          /\ 2 * j + 2 = OsdHeight => s = samples
      <4> DEFINE b == (OsdWidth * j + 2 * u) \div 2 + v
      <4>1. /\ b = (j + 1) * (OsdWidth \div 2)
            /\ 2 * j + 2 < OsdHeight => b \in OsdSamples
            /\ 2 * j + 2 = OsdHeight => b = samples
        BY <3>1, OsdRightChroma
      <4>2. s = b
        BY <2>2, <2>5, Zenon
      <4> HIDE DEF b, samples
      <4> QED
        BY <4>1, <4>2, Zenon
    <3> DEFINE a == OsdWidth * (2 * j + 1) + 2 * u + (2 * v + 0)
    <3>3. OsdSampleOf(a) = (((2 * j + 1) + 1) \div 2) * (OsdWidth \div 2)
      <4>1. 0 \in {0, 1}
        OBVIOUS
      <4> QED
        BY <3>1, <4>1, OsdRightLuma, Zenon
    <3>4. a \in luma
      BY <1>4, <3>1, Zenon
    <3> QED
      BY <3>1, <3>2, <3>3, <3>4, Zenon
  <2> QED
    BY <2>4, <2>5, Zenon
\* In the corner the line ends behind the planes.
<1>9. ASSUME 2 * t + 2 * n = OsdHeight
      PROVE  /\ {pixels, pixels + 1} \subseteq luma \ OsdPixels
             /\ samples \in chroma \ OsdSamples
  <2> DEFINE i == 2 * t + 2 * n - 1
             j == t + n - 1
  <2>1. /\ i \in (2 * t)..(2 * t + 2 * n - 1) /\ i \in Nat /\ i + 1 = OsdHeight
        /\ j \in t..(t + n - 1) /\ j \in Nat /\ 2 * j + 2 = OsdHeight
    BY <1>9
  <2> HIDE DEF i, j
  <2>2. ASSUME NEW c \in {0, 1}
        PROVE  pixels + c \in luma \ OsdPixels
    <3>1. /\ OsdWidth * i + 2 * u + (2 * v + c) = pixels + c
          /\ OsdWidth * i + 2 * u + (2 * v + c) \notin OsdPixels
      <4>1. i \in Nat /\ i + 1 = OsdHeight
        BY <2>1
      <4>2. /\ OsdWidth * i + 2 * u + (2 * v + c) = OsdWidth * OsdHeight + c
            /\ OsdWidth * i + 2 * u + (2 * v + c) \notin OsdPixels
        BY <4>1, OsdRightLuma
      <4> QED
        BY <4>2, Zenon
    <3> QED
      BY <1>4, <2>1, <3>1, Zenon
  <2>3. pixels + 0 \in luma \ OsdPixels /\ pixels + 1 \in luma \ OsdPixels
    BY <2>2
  <2>4. pixels + 0 = pixels
    BY OsdSizeAssumption
  <2>5. /\ (OsdWidth * j + 2 * u) \div 2 + v = samples
        /\ (OsdWidth * j + 2 * u) \div 2 + v \notin OsdSamples
    BY <2>1, OsdRightChroma, Zenon
  <2>6. samples \in chroma
    BY <1>5, <2>1, <2>5, Zenon
  <2> QED
    BY <2>3, <2>4, <2>5, <2>6, Zenon
\* Its first two pixels are in the row of the first sample.
<1>10. \E a \in luma : high = OsdSampleOf(a)
  <2>1. 2 * t \in (2 * t)..(2 * t + 2 * n - 1) /\ 2 * t \in Nat /\ (2 * t + 1) \div 2 = t
    OBVIOUS
  <2>2. 0 \in {0, 1}
    OBVIOUS
  <2>3. OsdSampleOf(OsdWidth * (2 * t) + 2 * u + (2 * v + 0)) = high
    <3>1. OsdSampleOf(OsdWidth * (2 * t) + 2 * u + (2 * v + 0))
            = ((2 * t + 1) \div 2) * (OsdWidth \div 2)
      BY <2>1, <2>2, OsdRightLuma
    <3> QED
      BY <2>1, <3>1, Zenon
  <2>4. OsdWidth * (2 * t) + 2 * u + (2 * v + 0) \in luma
    BY <1>4, <2>1, <2>2, Zenon
  <2> QED
    BY <2>3, <2>4, Zenon
<1> HIDE DEF pixels, samples, high
<1>11. luma \ OsdPixels = IF 2 * t + 2 * n = OsdHeight THEN {pixels, pixels + 1} ELSE {}
  BY <1>7, <1>9, Zenon
<1>12. chroma \ OsdSamples = IF 2 * t + 2 * n = OsdHeight THEN {samples} ELSE {}
  BY <1>8, <1>9, Zenon
<1>13. {OsdSampleOf(a) : a \in luma} = chroma \cup {high}
  BY <1>7, <1>8, <1>10, Zenon
<1>14. high = ((2 * t) \div 2) * (OsdWidth \div 2)
  BY <1>1, Zenon DEF high
<1> QED
  BY <1>11, <1>12, <1>13, <1>14, Zenon DEF luma, chroma, pixels, samples, OsdRunsOver

\* A character from an even line on has its colour.
LEMMA OsdTextHasColour ==
  ASSUME NEW g \in OsdGlyphs, NEW u \in Nat, NEW y \in Nat,
         OsdTextTop(g, y) % 2 = 0, 2 * u + g.w <= OsdWidth
  PROVE  OsdTextIsColoured(g, 2 * u, y)
<1>1. OsdTextTop(g, y) \in Nat
  BY OsdGlyphAssumption DEF OsdTextTop
<1>2. PICK s \in Nat : OsdTextTop(g, y) = 2 * s
  <2>1. PICK top \in Nat : top = OsdTextTop(g, y)
    BY <1>1
  <2>2. top = 2 * (top \div 2) /\ top \div 2 \in Nat
    BY <2>1
  <2> QED
    BY <2>1, <2>2
<1>3. OsdTextTop(g, y) \div 2 = s /\ (2 * u) \div 2 = u
  BY <1>2
<1>4. ASSUME NEW d \in g.dots
      PROVE  OsdSampleOf(OsdWidth * (OsdTextTop(g, y) + d[1]) + 2 * u + d[2])
               = (OsdWidth \div 2) * (OsdTextTop(g, y) \div 2 + d[1] \div 2)
                   + (2 * u) \div 2 + d[2] \div 2
  <2>1. PICK r \in Nat, c \in Nat, w \in Nat : r = d[1] /\ c = d[2] /\ w = g.w /\ c < w
    BY OsdGlyphAssumption
  <2>2. 2 * u + c < OsdWidth /\ 2 * u + c \in Nat /\ 2 * s + r \in Nat
    BY <2>1, OsdSizeAssumption
  <2>3. OsdSampleOf(OsdWidth * (2 * s + r) + (2 * u + c))
          = ((2 * s + r) \div 2) * (OsdWidth \div 2) + (2 * u + c) \div 2
    BY <2>2, OsdSampleAt, Zenon
  <2>4. (2 * s + r) \div 2 = s + r \div 2 /\ (2 * u + c) \div 2 = u + c \div 2
    OBVIOUS
  <2>5. OsdWidth * (2 * s + r) + (2 * u + c) = OsdWidth * (2 * s + r) + 2 * u + c
    <3>1. OsdWidth * (2 * s + r) \in Int
      BY OsdSizeAssumption
    <3> QED
      BY <3>1
  <2>6. (s + r \div 2) * (OsdWidth \div 2) + (u + c \div 2)
          = (OsdWidth \div 2) * (s + r \div 2) + u + c \div 2
    <3>1. PICK m \in Int, p \in Int, q \in Int :
            m = OsdWidth \div 2 /\ p = s + r \div 2 /\ q = c \div 2
      BY OsdSizeAssumption
    <3>2. p * m = m * p /\ p * m \in Int
      OBVIOUS
    <3>3. p * m + (u + q) = m * p + u + q
      BY <3>2
    <3> QED
      BY <3>1, <3>3, Zenon
  <2>7. OsdSampleOf(OsdWidth * (2 * s + r) + 2 * u + c)
          = (OsdWidth \div 2) * (s + r \div 2) + u + c \div 2
    BY <2>3, <2>4, <2>5, <2>6, Zenon
  <2> QED
    BY <1>2, <1>3, <2>1, <2>7, Zenon
<1> DEFINE at(d) == OsdWidth * (OsdTextTop(g, y) + d[1]) + 2 * u + d[2]
           sample(d) == (OsdWidth \div 2) * (OsdTextTop(g, y) \div 2 + d[1] \div 2)
                          + (2 * u) \div 2 + d[2] \div 2
<1>5. OsdTextLuma(g, 2 * u, y) = {at(d) : d \in g.dots}
  BY Zenon DEF OsdTextLuma
<1>6. OsdTextChroma(g, 2 * u, y) = {sample(d) : d \in g.dots}
  BY Zenon DEF OsdTextChroma
<1>7. \A d \in g.dots : OsdSampleOf(at(d)) = sample(d)
  BY <1>4, Zenon
<1> HIDE DEF at, sample
<1>8. {OsdSampleOf(a) : a \in {at(d) : d \in g.dots}} = {sample(d) : d \in g.dots}
  BY <1>7
<1> QED
  BY <1>5, <1>6, <1>8, Zenon DEF OsdTextIsColoured

\* A dot of a character is in the picture if its row is, what runs over counted
\* in rows.
LEMMA OsdDotInside ==
  ASSUME NEW r \in Nat, NEW e \in Nat, OsdWidth > 0
  PROVE  OsdWidth * r + e \in OsdPixels <=> r + e \div OsdWidth < OsdHeight
<1>1. PICK w \in Nat, h \in Nat : w = OsdWidth /\ h = OsdHeight /\ w > 0
  BY OsdSizeAssumption
<1>2. PICK q \in Nat, c \in Nat : q = e \div w /\ e = w * q + c /\ c < w
  <2>1. e \div w \in Nat /\ e % w \in 0..(w - 1) /\ e = w * (e \div w) + (e % w)
    BY <1>1
  <2> QED
    BY <2>1
<1>3. w * r + e = w * (r + q) + c
  <2>1. PICK m \in Nat, n \in Nat : m = w * r /\ n = w * q
    BY <1>1
  <2>2. w * (r + q) = m + n
    BY <2>1
  <2> QED
    BY <1>2, <2>1, <2>2
<1>4. r + q < h => w * (r + q) + c \in 0..(w * h - 1)
  BY <1>2, OsdPlaceInside
<1>5. ASSUME ~(r + q < h)
      PROVE  w * (r + q) + c \notin 0..(w * h - 1)
  <2>1. PICK p \in Nat : r + q = h + p
    <3>1. r + q - h \in Nat /\ r + q = h + (r + q - h)
      BY <1>5
    <3> QED
      BY <3>1
  <2>2. PICK m \in Nat, n \in Nat : m = w * h /\ n = w * p
    BY <2>1
  <2>3. w * (r + q) = m + n
    BY <2>1, <2>2
  <2> QED
    BY <2>2, <2>3
<1> QED
  BY <1>1, <1>2, <1>3, <1>4, <1>5, Zenon DEF OsdPixels

\* A character is within the luma exactly if none of its rows is below.
LEMMA OsdTextIsWithin ==
  ASSUME NEW g \in OsdGlyphs, NEW x \in Nat, NEW y \in Nat, OsdWidth > 0
  PROVE  OsdTextWithin(g, x, y)
<1>1. OsdTextTop(g, y) \in Nat
  BY OsdGlyphAssumption DEF OsdTextTop
<1> DEFINE at(d) == OsdWidth * (OsdTextTop(g, y) + d[1]) + x + d[2]
           row(d) == OsdTextTop(g, y) + d[1] + (x + d[2]) \div OsdWidth
<1>2. ASSUME NEW d \in g.dots
      PROVE  at(d) \in OsdPixels <=> row(d) < OsdHeight
  <2>1. PICK top \in Nat, r \in Nat, c \in Nat : top = OsdTextTop(g, y) /\ r = d[1] /\ c = d[2]
    BY <1>1, OsdGlyphAssumption
  <2>2. OsdWidth * (top + r) + (x + c) \in OsdPixels <=> top + r + (x + c) \div OsdWidth < OsdHeight
    <3>1. top + r \in Nat /\ x + c \in Nat
      OBVIOUS
    <3> QED
      BY <3>1, OsdDotInside, Zenon
  <2>3. OsdWidth * (top + r) + (x + c) = OsdWidth * (top + r) + x + c
    <3>1. PICK p \in Int : p = OsdWidth * (top + r)
      BY OsdSizeAssumption
    <3>2. p + (x + c) = p + x + c
      OBVIOUS
    <3> QED
      BY <3>1, <3>2, Zenon
  <2> QED
    BY <2>1, <2>2, <2>3, Zenon
<1>3. OsdTextLuma(g, x, y) = {at(d) : d \in g.dots}
  BY Zenon DEF OsdTextLuma
<1> HIDE DEF at
<1>4. {at(d) : d \in g.dots} \subseteq OsdPixels <=> \A d \in g.dots : row(d) < OsdHeight
  BY <1>2, Zenon
<1> QED
  BY <1>3, <1>4, Zenon DEF OsdTextWithin

\* So are its samples if it does not run over.
LEMMA OsdTextSamplesInside ==
  ASSUME NEW g \in OsdGlyphs, NEW u \in Nat, NEW y \in Nat, OsdWidth > 0,
         2 * u + g.w <= OsdWidth, OsdTextLuma(g, 2 * u, y) \subseteq OsdPixels
  PROVE  OsdTextChroma(g, 2 * u, y) \subseteq OsdSamples
<1>1. OsdTextTop(g, y) \in Nat
  BY OsdGlyphAssumption DEF OsdTextTop
<1>2. \A d \in g.dots : OsdTextTop(g, y) + d[1] + (2 * u + d[2]) \div OsdWidth < OsdHeight
  <2>1. 2 * u \in Nat
    OBVIOUS
  <2> QED
    BY <2>1, OsdTextIsWithin, Zenon DEF OsdTextWithin
<1>3. ASSUME NEW d \in g.dots
      PROVE  (OsdWidth \div 2) * (OsdTextTop(g, y) \div 2 + d[1] \div 2) + (2 * u) \div 2 + d[2] \div 2
               \in OsdSamples
  <2>1. PICK top \in Nat, r \in Nat, c \in Nat, w \in Nat :
          top = OsdTextTop(g, y) /\ r = d[1] /\ c = d[2] /\ w = g.w /\ c < w
    BY <1>1, OsdGlyphAssumption
  <2>2. (2 * u + c) \div OsdWidth \in Nat
    BY OsdSizeAssumption
  <2>3. top + r < OsdHeight
    <3>1. top + r + (2 * u + c) \div OsdWidth < OsdHeight
      BY <1>2, <2>1, Zenon
    <3> QED
      BY <2>2, <3>1, OsdSizeAssumption
  <2>4. PICK i \in Nat, j \in Nat, m \in Nat, h \in Nat :
          /\ i = top \div 2 + r \div 2 /\ j = c \div 2 /\ m = OsdWidth \div 2 /\ h = OsdHeight \div 2
          /\ i < h /\ u + j < m
    BY <2>1, <2>3, OsdSizeAssumption
  <2>5. m * i + (u + j) \in 0..(m * h - 1)
    BY <2>4, OsdPlaceInside
  <2>6. m * i + (u + j) = m * i + u + j /\ (2 * u) \div 2 = u
    OBVIOUS
  <2> QED
    BY <2>1, <2>4, <2>5, <2>6, Zenon DEF OsdSamples
<1> QED
  BY <1>3, Zenon DEF OsdTextChroma

-----------------------------------------------------------------------------
(* The encoder                                                             *)
(*                                                                         *)
(* Of each part there is one at most, because CreateEncoder is called once *)
(* however it ends (init).                                                 *)

OsdDrawn ==
  /\ osd.x \in Nat /\ osd.y \in Nat /\ osd.w \in Nat /\ osd.h \in Nat
  /\ osd.x % 2 = 0 /\ osd.y % 2 = 0 /\ osd.w % 2 = 0 /\ osd.h % 2 = 0
  /\ osd.x + osd.w <= OsdWidth /\ osd.y + osd.h <= OsdHeight /\ OsdWidth > 0

OsdEncoder ==
  /\ osd = [at |-> osd.at, init |-> osd.init, done |-> osd.done, held |-> osd.held,
            packets |-> osd.packets]
  /\ osd.held \in [OsdPart -> Nat]
  /\ ~osd.init => \A p \in OsdPart : osd.held[p] = 0
  /\ \A p \in OsdPart : osd.held[p] <= 1
  /\ osd.at = "stopped" => \A p \in OsdPart : osd.held[p] = 0

OsdInv ==
  \/ osd = [at |-> "off"]
  \/ osd.at = "drawn" /\ OsdDrawn
  \/ osd.at \in {"started", "crashed", "stopped"} /\ OsdEncoder

\* Each part is made in one step.
LEMMA OsdMadeOnce ==
  ASSUME NEW n \in OsdReached, NEW p \in OsdPart
  PROVE  Cardinality({k \in 1..n : OsdSteps[k] = p}) \in {0, 1}
<1>1. n \in 0..8
  BY DEF OsdReached, OsdSteps
<1> DEFINE K == {k \in 1..n : OsdSteps[k] = p}
<1>2. PICK s \in {2, 3, 6} : \A k \in 1..8 : OsdSteps[k] = p => k = s
  <2>1. CASE p = "ctx"
    BY <2>1 DEF OsdSteps
  <2>2. CASE p = "avpkt"
    BY <2>2 DEF OsdSteps
  <2>3. CASE p = "frame"
    BY <2>3 DEF OsdSteps
  <2> QED
    BY <2>1, <2>2, <2>3 DEF OsdPart
<1>3. K \subseteq {s}
  BY <1>1, <1>2
<1>4. K = {} \/ K = {s}
  BY <1>3
<1> HIDE DEF K
<1>5. Cardinality(K) \in {0, 1}
  BY <1>4, FS_EmptySet, FS_Singleton
<1> QED
  BY <1>5 DEF K

\* A picture to draw into, or an encoder that is not made yet.
LEMMA OsdInvInit ==
  ASSUME NEW on \in BOOLEAN, OsdInitial(on)
  PROVE  OsdInv
<1>1. CASE osd = [at |-> "off"]
  BY <1>1 DEF OsdInv
<1>2. CASE osd = [at |-> "started", init |-> FALSE, done |-> 0,
                  held |-> [p \in OsdPart |-> 0], packets |-> 0]
  <2>1. osd.held = [p \in OsdPart |-> 0] /\ osd.at = "started" /\ osd.init = FALSE
    BY <1>2
  <2>2. osd = [at |-> osd.at, init |-> osd.init, done |-> osd.done, held |-> osd.held,
               packets |-> osd.packets]
    BY <1>2
  <2> QED
    BY <2>1, <2>2 DEF OsdInv, OsdEncoder
<1>3. ASSUME NEW x \in 0..(OsdWidth - 1), NEW y \in 0..(OsdHeight - 1),
             NEW w \in 0..OsdWidth, NEW h \in 0..OsdHeight,
             x + w <= OsdWidth, y + h <= OsdHeight,
             osd = [at |-> "drawn", x |-> (x \div 2) * 2, y |-> (y \div 2) * 2,
                    w |-> (w \div 2) * 2, h |-> (h \div 2) * 2]
      PROVE  OsdInv
  <2>1. /\ osd.at = "drawn" /\ osd.x = (x \div 2) * 2 /\ osd.y = (y \div 2) * 2
        /\ osd.w = (w \div 2) * 2 /\ osd.h = (h \div 2) * 2
    BY <1>3
  <2>2. OsdDrawn
    BY <1>3, <2>1, OsdSizeAssumption DEF OsdDrawn
  <2> QED
    BY <2>1, <2>2 DEF OsdInv
<1> QED
  BY <1>1, <1>2, <1>3, Zenon DEF OsdInitial

\* CreateEncoder is called by the first packet only.
LEMMA OsdProcessStep ==
  ASSUME OsdInv, OsdProcess
  PROVE  OsdInv'
<1>1. osd.at = "started" /\ OsdEncoder
  BY DEF OsdProcess, OsdInv
<1>2. PICK n \in OsdReached :
        LET s == IF osd.init THEN osd ELSE OsdCreate(n)
        IN  osd' = [s EXCEPT !.packets = @ + 1, !.at = IF s.done >= 6 THEN @ ELSE "crashed"]
  BY Zenon DEF OsdProcess
<1> DEFINE s == IF osd.init THEN osd ELSE OsdCreate(n)
<1>3. osd' = [s EXCEPT !.packets = s.packets + 1,
                       !.at = IF s.done >= 6 THEN s.at ELSE "crashed"]
  BY <1>2, Zenon
<1>4. /\ s = [at |-> "started", init |-> s.init, done |-> s.done, held |-> s.held,
              packets |-> s.packets]
      /\ s.held \in [OsdPart -> Nat] /\ \A p \in OsdPart : s.held[p] <= 1
      /\ s.init
  <2>1. CASE osd.init
    <3>1. s = osd
      BY <2>1, Zenon
    <3>2. osd = [at |-> "started", init |-> osd.init, done |-> osd.done, held |-> osd.held,
                 packets |-> osd.packets]
      BY <1>1, Zenon DEF OsdEncoder
    <3>3. osd.held \in [OsdPart -> Nat] /\ \A p \in OsdPart : osd.held[p] <= 1
      BY <1>1 DEF OsdEncoder
    <3> HIDE DEF s
    <3> QED
      BY <2>1, <3>1, <3>2, <3>3, Zenon
  <2>2. CASE ~osd.init
    <3>1. s = OsdCreate(n)
      BY <2>2, Zenon
    <3> DEFINE made(p) == Cardinality({k \in 1..n : OsdSteps[k] = p})
    <3>2. \A p \in OsdPart : made(p) \in {0, 1}
      BY OsdMadeOnce, Zenon
    <3> DEFINE held == [p \in OsdPart |-> osd.held[p] + made(p)]
    <3>3. s = [osd EXCEPT !.init = TRUE, !.done = n, !.held = held]
      BY <3>1, Zenon DEF OsdCreate, OsdInitSet
    <3>4. \A p \in OsdPart : osd.held[p] = 0
      BY <1>1, <2>2 DEF OsdEncoder
    <3> HIDE DEF s, made
    <3>5. held \in [OsdPart -> Nat] /\ \A p \in OsdPart : held[p] <= 1
      BY <3>2, <3>4
    <3> HIDE DEF held
    <3>6. osd = [at |-> "started", init |-> osd.init, done |-> osd.done, held |-> osd.held,
                 packets |-> osd.packets]
      BY <1>1, Zenon DEF OsdEncoder
    <3>7. s = [at |-> "started", init |-> TRUE, done |-> n, held |-> held,
               packets |-> osd.packets]
      <4>1. s = [[at |-> "started", init |-> osd.init, done |-> osd.done, held |-> osd.held,
                  packets |-> osd.packets] EXCEPT !.init = TRUE, !.done = n, !.held = held]
        BY <3>3, <3>6, Zenon
      <4> QED
        BY <4>1, ZenonT(60)
    <3> QED
      BY <3>5, <3>7
  <2> QED
    BY <2>1, <2>2
<1> HIDE DEF s
<1>5. PICK at \in {"started", "crashed"} :
        osd' = [at |-> at, init |-> s.init, done |-> s.done, held |-> s.held,
                packets |-> s.packets + 1]
  <2>1. PICK at : at = IF s.done >= 6 THEN s.at ELSE "crashed"
    OBVIOUS
  <2>2. at \in {"started", "crashed"}
    <3>1. s.at = "started"
      BY <1>4
    <3> QED
      BY <2>1, <3>1
  <2>3. osd' = [[at |-> "started", init |-> s.init, done |-> s.done, held |-> s.held,
                 packets |-> s.packets] EXCEPT !.packets = s.packets + 1, !.at = at]
    BY <1>3, <1>4, <2>1, Zenon
  <2>4. osd' = [at |-> at, init |-> s.init, done |-> s.done, held |-> s.held,
                packets |-> s.packets + 1]
    BY <2>3, ZenonT(60)
  <2> QED
    BY <2>2, <2>4, Zenon
<1>6. /\ osd'.at = at /\ osd'.held = s.held /\ osd'.init = s.init
      /\ osd'.done = s.done /\ osd'.packets = s.packets + 1
  BY <1>5
<1>7. OsdEncoder'
  <2>1. (osd = [at |-> osd.at, init |-> osd.init, done |-> osd.done, held |-> osd.held,
                packets |-> osd.packets])'
    BY <1>5, <1>6, Zenon
  <2>2. (osd.held \in [OsdPart -> Nat])' /\ (\A p \in OsdPart : osd.held[p] <= 1)'
    BY <1>4, <1>6, Zenon
  <2>3. (~osd.init => \A p \in OsdPart : osd.held[p] = 0)'
    BY <1>4, <1>6, Zenon
  <2>4. (osd.at = "stopped" => \A p \in OsdPart : osd.held[p] = 0)'
    BY <1>6
  <2> QED
    BY <2>1, <2>2, <2>3, <2>4, Zenon DEF OsdEncoder
<1> QED
  BY <1>6, <1>7 DEF OsdInv

\* DestroyEncoder frees the one there is.
LEMMA OsdStopStep ==
  ASSUME OsdInv, OsdStop
  PROVE  OsdInv'
<1>1. osd.at = "started" /\ OsdEncoder
  BY DEF OsdStop, OsdInv
<1> DEFINE held == [p \in OsdPart |-> IF osd.held[p] > 0 THEN osd.held[p] - 1 ELSE 0]
<1>2. osd' = [osd EXCEPT !.at = "stopped", !.held = held]
  BY Zenon DEF OsdStop
<1>3. held \in [OsdPart -> Nat] /\ \A p \in OsdPart : held[p] = 0
  BY <1>1 DEF OsdEncoder
<1> HIDE DEF held
<1>4. osd = [at |-> osd.at, init |-> osd.init, done |-> osd.done, held |-> osd.held,
             packets |-> osd.packets]
  BY <1>1, Zenon DEF OsdEncoder
<1>5. osd' = [at |-> "stopped", init |-> osd.init, done |-> osd.done, held |-> held,
              packets |-> osd.packets]
  <2>1. osd' = [[at |-> osd.at, init |-> osd.init, done |-> osd.done, held |-> osd.held,
                 packets |-> osd.packets] EXCEPT !.at = "stopped", !.held = held]
    BY <1>2, <1>4, Zenon
  <2> QED
    BY <2>1, ZenonT(60)
<1>6. /\ osd'.at = "stopped" /\ osd'.held = held /\ osd'.init = osd.init
      /\ osd'.done = osd.done /\ osd'.packets = osd.packets
  BY <1>5
<1>7. OsdEncoder'
  <2>1. (osd = [at |-> osd.at, init |-> osd.init, done |-> osd.done, held |-> osd.held,
                packets |-> osd.packets])'
    BY <1>5, <1>6, Zenon
  <2>2. (\A p \in OsdPart : osd.held[p] = 0)'
    BY <1>3, <1>6, Zenon
  <2>3. (\A p \in OsdPart : osd.held[p] <= 1)'
    BY <2>2
  <2>4. (osd.held \in [OsdPart -> Nat])'
    BY <1>3, <1>6, Zenon
  <2> QED
    BY <2>1, <2>2, <2>3, <2>4, Zenon DEF OsdEncoder
<1> QED
  BY <1>6, <1>7 DEF OsdInv

\* A drawing has its colour.
LEMMA OsdInvDrawing ==
  ASSUME OsdInv, osd.at = "drawn"
  PROVE  OsdFormatsAgree /\ OsdFrameColoured /\ OsdTextColoured
<1>1. OsdDrawn
  BY DEF OsdInv
<1>2. PICK u \in Nat, t \in Nat, v \in Nat, n \in Nat :
        osd.x = 2 * u /\ osd.y = 2 * t /\ osd.w = 2 * v /\ osd.h = 2 * n
  <2>1. PICK x \in Nat, y \in Nat, w \in Nat, h \in Nat :
          /\ osd.x = x /\ osd.y = y /\ osd.w = w /\ osd.h = h
          /\ x % 2 = 0 /\ y % 2 = 0 /\ w % 2 = 0 /\ h % 2 = 0
    BY <1>1 DEF OsdDrawn
  <2>2. /\ x \div 2 \in Nat /\ x = 2 * (x \div 2) /\ y \div 2 \in Nat /\ y = 2 * (y \div 2)
        /\ w \div 2 \in Nat /\ w = 2 * (w \div 2) /\ h \div 2 \in Nat /\ h = 2 * (h \div 2)
    BY <2>1
  <2> QED
    BY <2>1, <2>2
<1>3. OsdFormatsAgree
  <2>1. 2 * t \in Nat /\ 2 * n \in Nat
    OBVIOUS
  <2>2. OsdSame(2 * u, 2 * t, 2 * v, 2 * n)
    BY <2>1, OsdSameInBoth, Zenon
  <2> QED
    BY <1>2, <2>2, Zenon DEF OsdFormatsAgree, OsdSame
<1>4. OsdFrameColoured
  <2> DEFINE luma == OsdLuma(osd.x, osd.y, osd.w, osd.h)
             chroma == OsdYuvChroma(osd.x, osd.y, osd.w, osd.h)
             pixels == OsdWidth * OsdHeight
             samples == (OsdWidth \div 2) * (OsdHeight \div 2)
             high == (osd.y \div 2) * (OsdWidth \div 2)
             colours == {OsdSampleOf(a) : a \in luma}
  <2>1. CASE ~OsdAtRight
    <3>1. OsdColoured(2 * u, 2 * t, 2 * v, 2 * n)
      <4>1. CASE n = 0
        BY <4>1, OsdNothingColoured, Zenon
      <4>2. CASE n # 0
        <5>1. 2 * u + 2 * v + 2 <= OsdWidth /\ 2 * t + 2 * n <= OsdHeight
          <6>1. 2 * u + 2 * v # OsdWidth
            BY <1>2, <2>1, <4>2 DEF OsdAtRight
          <6> QED
            BY <1>1, <1>2, <6>1, OsdSizeAssumption DEF OsdDrawn
        <5> QED
          BY <5>1, OsdFrameHasColour, Zenon
      <4> QED
        BY <4>1, <4>2
    <3>2. luma \subseteq OsdPixels /\ chroma \subseteq OsdSamples /\ colours = chroma
      BY <1>2, <3>1, Zenon DEF OsdColoured
    <3>3. ~OsdInCorner
      BY <2>1, Zenon DEF OsdInCorner
    <3>4. luma \ OsdPixels = {} /\ chroma \ OsdSamples = {} /\ colours = chroma \cup {}
      <4> HIDE DEF luma, chroma, colours
      <4> QED
        BY <3>2
    <3> QED
      BY <2>1, <3>3, <3>4, Zenon DEF OsdFrameColoured, OsdPixels, OsdSamples
  <2>2. CASE OsdAtRight
    <3>1. 2 * u + 2 * v = OsdWidth /\ n > 0 /\ 2 * t + 2 * n <= OsdHeight /\ OsdWidth > 0
      BY <1>1, <1>2, <2>2 DEF OsdAtRight, OsdDrawn
    <3>2. OsdRunsOver(2 * u, 2 * t, 2 * v, 2 * n)
      BY <3>1, OsdFrameRunsOver, Zenon
    <3>3. OsdRunsOver(osd.x, osd.y, osd.w, osd.h)
      BY <1>2, <3>2, Zenon
    <3>4. OsdInCorner <=> osd.y + osd.h = OsdHeight
      BY <2>2, Zenon DEF OsdInCorner
    <3> QED
      BY <2>2, <3>3, <3>4, Zenon DEF OsdFrameColoured, OsdRunsOver, OsdPixels, OsdSamples
  <2> QED
    BY <2>1, <2>2, Zenon
<1>5. OsdTextColoured
  <2>1. ASSUME NEW g \in OsdGlyphs, NEW x \in OsdTextColumns
        PROVE  /\ OsdTextWithin(g, x, osd.y)
               /\ x + g.w <= OsdWidth =>
                    /\ OsdTextLuma(g, x, osd.y) \subseteq OsdPixels =>
                         OsdTextChroma(g, x, osd.y) \subseteq OsdSamples
                    /\ OsdTextTop(g, osd.y) % 2 = 0 => OsdTextIsColoured(g, x, osd.y)
    <3>1. PICK m \in Nat : x = 2 * m
      <4>1. PICK k \in 0..OsdWidth : x = osd.x + 2 * k
        BY <2>1 DEF OsdTextColumns
      <4>2. k \in Nat
        BY OsdSizeAssumption
      <4>3. u + k \in Nat /\ 2 * u + 2 * k = 2 * (u + k)
        BY <4>2
      <4> QED
        BY <1>2, <4>1, <4>3
    <3>2. 2 * m \in Nat /\ 2 * t \in Nat
      OBVIOUS
    <3>3. OsdWidth > 0
      BY <1>1 DEF OsdDrawn
    <3>4. OsdTextWithin(g, x, osd.y)
      BY <1>2, <3>1, <3>2, <3>3, OsdTextIsWithin, Zenon
    <3>5. x + g.w <= OsdWidth /\ OsdTextLuma(g, x, osd.y) \subseteq OsdPixels =>
            OsdTextChroma(g, x, osd.y) \subseteq OsdSamples
      BY <1>2, <3>1, <3>2, <3>3, OsdTextSamplesInside, Zenon
    <3>6. x + g.w <= OsdWidth /\ OsdTextTop(g, osd.y) % 2 = 0 => OsdTextIsColoured(g, x, osd.y)
      BY <1>2, <3>1, <3>2, OsdTextHasColour, Zenon
    <3> QED
      BY <3>4, <3>5, <3>6, Zenon
  <2> QED
    BY <2>1, Zenon DEF OsdTextColoured, OsdTextIsColoured, OsdTextWithin, OsdPixels, OsdSamples
<1> QED
  BY <1>3, <1>4, <1>5

\* One step per action.
LEMMA OsdInvNext ==
  ASSUME OsdInv, [OsdNext]_osd
  PROVE  OsdInv'
<1>1. CASE osd' = osd
  <2>1. OsdDrawn => OsdDrawn'
    BY <1>1, Zenon DEF OsdDrawn
  <2>2. OsdEncoder => OsdEncoder'
    BY <1>1, Zenon DEF OsdEncoder
  <2> QED
    BY <1>1, <2>1, <2>2, Zenon DEF OsdInv
<1>2. CASE OsdNext
  BY <1>2, OsdProcessStep, OsdStopStep DEF OsdNext
<1> QED
  BY <1>1, <1>2

\* In pictures of every even size, the frames drawn into the two formats are
\* the same, and what they and the characters write is known: inside the planes
\* and with its colour but for a box at the right border and a character that
\* runs over it or begins in an odd line; and of each part of the encoder there
\* is one at most, which a stop frees, in whatever step CreateEncoder gave up
\* and however many packets came after it (osd.cpp).
THEOREM OsdCorrectHolds == OsdSpec => []OsdCorrect
<1>1. (\E on \in BOOLEAN : OsdInitial(on)) => OsdInv
  BY OsdInvInit
<1>2. OsdInv /\ [OsdNext]_osd => OsdInv'
  BY OsdInvNext
<1>3. OsdInv => OsdCorrect
  <2>1. ASSUME OsdInv PROVE OsdStopFrees
    BY <2>1 DEF OsdInv, OsdEncoder, OsdStopFrees
  <2>2. ASSUME OsdInv, osd.at # "drawn"
        PROVE  OsdFormatsAgree /\ OsdFrameColoured /\ OsdTextColoured
    BY <2>2, Zenon DEF OsdFormatsAgree, OsdFrameColoured, OsdTextColoured
  <2> QED
    BY <2>1, <2>2, OsdInvDrawing, Zenon DEF OsdCorrect
<1> QED
  BY <1>1, <1>2, <1>3, PTL DEF OsdSpec
=============================================================================
