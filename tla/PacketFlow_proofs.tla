-------------------------- MODULE PacketFlow_proofs --------------------------
(***************************************************************************)
(* The order and the pairing of packets (PacketFlow) for every pipeline,   *)
(* queue length and number of frames.                                      *)
(*                                                                         *)
(* A queue is compared with what its producer has reached, seen, and with  *)
(* what its consumer has taken.  All packets in a queue are behind the     *)
(* producer, strictly so while it has yet to push the packet it is at.  So *)
(* a packet that comes in is newer than all in the queue and than all that *)
(* were taken from it, whatever was dropped in between.                    *)
(*                                                                         *)
(* Where the frames of an element reach another one both straight and      *)
(* through a third, every frame on the longer way is tracked on the        *)
(* shorter one: it is in the queue there or is about to be pushed to it,   *)
(* as long as that queue has not overflowed.                               *)
(***************************************************************************)
EXTENDS PacketFlow, TLAPS

\* The producer p has not pushed the packet it is at to its k-th output yet.
Pending(p, k) == at[p] = "match" \/ (at[p] = "push" /\ pos[p] <= k)

\* The producer of q has reached x, and is beyond it if it has yet to push.
Under(x, q) ==
  \A p \in Element : \A k \in 1..Len(Outputs[p]) :
    Outputs[p][k] = q => x <= seen[p] /\ (Pending(p, k) => x < seen[p])

\* All that is in q, and all that will be, comes after x.
Below(x, q) == Under(x, q) /\ \A j \in 1..Len(queue[q]) : x < queue[q][j]

\* What the packets of a call are while it is being prepared and made.
CallShape(e) ==
  /\ at[e] = "get" => tin[e] = <<>>
  /\ at[e] = "match" => /\ e \notin Source
                        /\ pos[e] >= 2 /\ pos[e] <= Len(Inputs[e]) + 1
                        /\ Len(tin[e]) = pos[e] - 1
  /\ at[e] = "push" => tin[e] # <<>>
  /\ tin[e] # <<>> => tin[e][1] = seen[e]
  /\ \A i \in 1..Len(tin[e]) : tin[e][i] >= seen[e]

\* The packets in a queue are in order and behind its producer.
QueueBehind(q) ==
  /\ Increasing(queue[q])
  /\ \A j \in 1..Len(queue[q]) : Under(queue[q][j], q)

\* What an element has taken, and what it gave its plugin before, is behind what
\* its inputs hold.
TakenBehind(e) ==
  /\ e \in Source => given[e] = <<>>
  /\ e \notin Source =>
       /\ Below(seen[e], Main(e))
       /\ Len(given[e]) <= Len(Inputs[e]) /\ Len(tin[e]) <= Len(Inputs[e])
       /\ \A i \in 1..Len(given[e]) : Below(given[e][i], Inputs[e][i])
       /\ \A i \in 1..Len(tin[e]) : Below(tin[e][i], Inputs[e][i])
       /\ at[e] = "match" =>
            \A i \in 1..Len(given[e]) : i <= Len(tin[e]) => given[e][i] < tin[e][i]

FlowInvariant ==
  /\ TypeOK
  /\ \A e \in Element : CallShape(e) /\ TakenBehind(e)
  /\ \A q \in Queue : QueueBehind(q)
  /\ NoneOlder


-----------------------------------------------------------------------------
(* What one step leaves *)

\* An element that is no source has a first input.
LEMMA MainInput ==
  ASSUME NEW e \in Element, e \notin Source
  PROVE  Inputs[e] \in Seq(Queue) /\ Len(Inputs[e]) >= 1 /\ Main(e) \in Queue
  BY WiringAssumption DEF Source, Main

\* Initially nothing was taken and nothing is queued.
LEMMA FlowInit == Init => FlowInvariant
  <1> SUFFICES ASSUME Init PROVE FlowInvariant
    OBVIOUS
  <1>1. TypeOK
    BY QueueLenAssumption DEF Init, TypeOK
  <1>2. ASSUME NEW e \in Element PROVE CallShape(e)
    BY DEF Init, CallShape
  <1>3. ASSUME NEW q \in Queue PROVE QueueBehind(q)
    BY DEF Init, QueueBehind, Increasing
  <1>4. ASSUME NEW e \in Element, e \notin Source PROVE Below(seen[e], Main(e))
    BY <1>4, MainInput, WiringAssumption DEF Init, Below, Under, Pending
  <1>5. ASSUME NEW e \in Element PROVE TakenBehind(e)
    BY <1>4, MainInput DEF Init, TakenBehind
  <1>6. NoneOlder
    BY DEF Init, NoneOlder
  <1> QED
    BY <1>1, <1>2, <1>3, <1>5, <1>6 DEF FlowInvariant

\* The variables of the other elements stay.
LEMMA OthersStay ==
  ASSUME TypeOK, NEW e \in Element, Step(e), NEW f \in Element, f # e
  PROVE  /\ at'[f] = at[f] /\ pos'[f] = pos[f] /\ tin'[f] = tin[f]
         /\ seen'[f] = seen[f] /\ given'[f] = given[f]
  BY DEF TypeOK, Step, SourceProcess, PopMain, MatchInput, MatchFails, Process, PushOutput,
         Pushed, Go

\* A packet that an element comes to is newer than the one before.
LEMMA SeenGrows ==
  ASSUME FlowInvariant, NEW e \in Element, SourceProcess(e) \/ PopMain(e)
  PROVE  seen'[e] \in Nat /\ seen'[e] > seen[e]
  <1>1. CASE SourceProcess(e)
    BY <1>1, MaxFrameAssumption DEF SourceProcess, FlowInvariant, TypeOK
  <1>2. CASE PopMain(e)
    <2>1. e \notin Source /\ Main(e) \in Queue /\ queue[Main(e)] # <<>>
      BY <1>2, MainInput DEF PopMain
    <2>2. queue[Main(e)] \in Seq(Nat) /\ seen[e] \in Nat
      BY <2>1 DEF FlowInvariant, TypeOK
    <2>3. seen[e] < queue[Main(e)][1]
      BY <2>1, <2>2 DEF FlowInvariant, TakenBehind, Below
    <2>4. seen'[e] = queue[Main(e)][1]
      BY <1>2, <2>2 DEF PopMain, FlowInvariant, TypeOK
    <2> QED
      BY <2>1, <2>2, <2>3, <2>4
  <1> QED
    BY <1>1, <1>2

\* What a producer has reached it has reached for good.
LEMMA UnderKept ==
  ASSUME FlowInvariant, NEW e \in Element, Step(e), NEW x \in Nat, NEW q \in Queue, Under(x, q)
  PROVE  Under(x, q)'
  <1> SUFFICES ASSUME NEW p \in Element, NEW k \in 1..Len(Outputs[p]), Outputs[p][k] = q
               PROVE  x <= seen'[p] /\ (Pending(p, k)' => x < seen'[p])
    BY DEF Under
  <1>1. x <= seen[p] /\ (Pending(p, k) => x < seen[p]) /\ seen[p] \in Nat /\ k \in Nat
        /\ pos[p] \in Nat
    BY WiringAssumption DEF Under, FlowInvariant, TypeOK
  <1>2. CASE p # e
    BY <1>1, <1>2, OthersStay DEF FlowInvariant, Pending
  <1>3. CASE p = e /\ (SourceProcess(e) \/ PopMain(e))
    BY <1>1, <1>3, SeenGrows DEF Pending
  <1>4. CASE p = e /\ (MatchInput(e) \/ MatchFails(e) \/ Process(e) \/ PushOutput(e) \/ Pushed(e))
    <2>1. seen'[p] = seen[p]
      BY <1>4 DEF MatchInput, MatchFails, Process, PushOutput, Pushed
    <2>2. Pending(p, k)' => Pending(p, k)
      <3>1. CASE MatchInput(e) \/ Process(e)
        BY <1>4, <3>1 DEF MatchInput, Process, Pending
      <3>2. CASE MatchFails(e) \/ Pushed(e)
        <4>1. at'[p] = "get"
          BY <1>4, <3>2 DEF MatchFails, Pushed, Go, FlowInvariant, TypeOK
        <4> QED
          BY <4>1 DEF Pending
      <3>3. CASE PushOutput(e)
        <4>1. at[p] = "push" /\ at'[p] = "push" /\ pos'[p] = pos[p] + 1
          BY <1>4, <3>3 DEF PushOutput, Go, FlowInvariant, TypeOK
        <4> QED
          BY <1>1, <4>1 DEF Pending
      <3> QED
        BY <1>4, <3>1, <3>2, <3>3
    <2> QED
      BY <1>1, <2>1, <2>2
  <1> QED
    BY <1>2, <1>3, <1>4 DEF Step

-----------------------------------------------------------------------------
(* Queues *)

\* A sequence of packets with one more.
LEMMA Appended ==
  ASSUME NEW s \in Seq(Nat), NEW y \in Nat
  PROVE  /\ Len(s) \in Nat /\ Len(Append(s, y)) = Len(s) + 1 /\ Append(s, y) # <<>>
         /\ \A i \in 1..Len(s) : Append(s, y)[i] = s[i]
         /\ Append(s, y)[Len(s) + 1] = y
  OBVIOUS

\* r is s without its first n packets.
Rest(r, s, n) ==
  /\ r \in Seq(Nat) /\ n \in 0..Len(s) /\ Len(r) = Len(s) - n
  /\ \A j \in 1..Len(r) : r[j] = s[j + n]

\* The ways in which the code shortens a queue.
LEMMA RestCases ==
  ASSUME NEW s \in Seq(Nat)
  PROVE  /\ Rest(s, s, 0) /\ Rest(<<>>, s, Len(s))
         /\ s # <<>> => Rest(Tail(s), s, 1)
         /\ \A i \in 1..Len(s) : Rest(SubSeq(s, i + 1, Len(s)), s, i)
  BY DEF Rest

\* A queue that only loses its first packets stays in order and behind its
\* producer; what was behind it still is, and so are the packets it lost.
LEMMA RestKeeps ==
  ASSUME FlowInvariant, NEW e \in Element, Step(e), NEW q \in Queue, NEW n,
         Rest(queue'[q], queue[q], n)
  PROVE  /\ QueueBehind(q)'
         /\ \A x \in Nat : Below(x, q) => Below(x, q)'
         /\ \A x \in Nat, i \in 1..n : x = queue[q][i] => Below(x, q)'
  <1>1. /\ queue[q] \in Seq(Nat) /\ Increasing(queue[q])
        /\ \A j \in 1..Len(queue[q]) : queue[q][j] \in Nat /\ Under(queue[q][j], q)
    BY DEF FlowInvariant, TypeOK, QueueBehind
  <1>2. /\ queue'[q] \in Seq(Nat) /\ n \in 0..Len(queue[q])
        /\ Len(queue'[q]) = Len(queue[q]) - n
        /\ \A j \in 1..Len(queue'[q]) : j + n \in 1..Len(queue[q]) /\ queue'[q][j] = queue[q][j + n]
    <2>1. Len(queue[q]) \in Nat /\ Len(queue'[q]) \in Nat
      BY <1>1 DEF Rest
    <2> QED
      BY <2>1 DEF Rest
  <1>3. ASSUME NEW x \in Nat, Under(x, q) PROVE Under(x, q)'
    BY <1>3, UnderKept
  <1>4. Increasing(queue'[q])
    BY <1>1, <1>2 DEF Increasing
  <1>5. ASSUME NEW j \in 1..Len(queue'[q]) PROVE Under(queue[q][j], q)'
    <2>1. PICK x \in Nat : x = queue'[q][j] /\ Under(x, q)
      BY <1>1, <1>2
    <2>2. Under(x, q)'
      BY <1>3, <2>1
    <2> QED
      BY <2>1, <2>2
  <1>6. ASSUME NEW x \in Nat, Below(x, q) PROVE Below(x, q)'
    BY <1>2, <1>3, <1>6 DEF Below
  <1>7. ASSUME NEW x \in Nat, NEW i \in 1..n, x = queue[q][i] PROVE Below(x, q)'
    <2>1. Under(x, q)'
      <3>1. i \in 1..Len(queue[q])
        BY <1>2
      <3> QED
        BY <1>1, <1>3, <1>7, <3>1
    <2>2. ASSUME NEW j \in 1..Len(queue'[q]) PROVE x < queue'[q][j]
      <3>1. j + n \in 1..Len(queue[q]) /\ i \in 1..Len(queue[q]) /\ i < j + n
        BY <1>2
      <3> QED
        BY <1>1, <1>2, <1>7, <3>1 DEF Increasing
    <2> QED
      BY <2>1, <2>2 DEF Below
  <1> QED
    BY <1>4, <1>5, <1>6, <1>7 DEF QueueBehind

\* A queue that gets the packet its producer is at, and may lose its oldest one
\* for it, stays in order and behind its producer; what was behind it still is.
LEMMA PushKeeps ==
  ASSUME FlowInvariant, NEW e \in Element, PushOutput(e)
  PROVE  \A q \in Queue : q = Outputs[e][pos[e]] =>
           QueueBehind(q)' /\ \A x \in Nat : Below(x, q) => Below(x, q)'
  <1> SUFFICES ASSUME NEW q \in Queue, q = Outputs[e][pos[e]]
               PROVE  QueueBehind(q)' /\ \A x \in Nat : Below(x, q) => Below(x, q)'
    OBVIOUS
  <1>1. /\ at[e] = "push" /\ pos[e] \in 1..Len(Outputs[e])
        /\ seen[e] \in Nat /\ seen' = seen /\ Pending(e, pos[e])
    BY SMTT(20), WiringAssumption DEF PushOutput, FlowInvariant, TypeOK, Pending
  <1>2. tin[e][1] = seen[e]
    BY <1>1 DEF FlowInvariant, CallShape
  <1>3. queue[q] \in Seq(Nat) /\ Increasing(queue[q])
    BY <1>1 DEF FlowInvariant, TypeOK, QueueBehind
  <1>4. PICK r \in Seq(Nat), n \in {0, 1} :
          Rest(r, queue[q], n) /\ queue'[q] = Append(r, seen[e])
    <2>1. CASE Len(queue[q]) >= QueueLen
      <3>1. queue[q] # <<>>
        BY <2>1, QueueLenAssumption
      <3>2. Rest(Tail(queue[q]), queue[q], 1) /\ Tail(queue[q]) \in Seq(Nat)
        BY <1>3, <3>1, RestCases DEF Rest
      <3>3. queue'[q] = Append(Tail(queue[q]), seen[e])
        BY <1>1, <1>2, <2>1 DEF PushOutput, FlowInvariant, TypeOK
      <3> QED
        BY <3>2, <3>3
    <2>2. CASE ~(Len(queue[q]) >= QueueLen)
      <3>1. Rest(queue[q], queue[q], 0)
        BY <1>3, RestCases
      <3>2. queue'[q] = Append(queue[q], seen[e])
        BY <1>1, <1>2, <2>2 DEF PushOutput, FlowInvariant, TypeOK
      <3> QED
        BY <1>3, <3>1, <3>2
    <2> QED
      BY <2>1, <2>2
  <1>5. ASSUME NEW j \in 1..Len(r)
        PROVE  /\ j + n \in 1..Len(queue[q]) /\ r[j] = queue[q][j + n]
               /\ r[j] \in Nat /\ Under(r[j], q) /\ r[j] < seen[e]
    <2>1. j + n \in 1..Len(queue[q]) /\ r[j] = queue[q][j + n] /\ r[j] \in Nat
      BY SMTT(20), <1>3, <1>4 DEF Rest
    <2>2. Under(r[j], q)
      BY <1>1, <2>1 DEF FlowInvariant, QueueBehind
    <2> QED
      BY <1>1, <2>1, <2>2 DEF Under
  <1>6. Len(queue'[q]) = Len(r) + 1 /\ Len(r) \in Nat
        /\ \A j \in 1..Len(queue'[q]) : queue'[q][j] = IF j <= Len(r) THEN r[j] ELSE seen[e]
    BY <1>1, <1>4
  <1>7. ASSUME NEW x \in Nat, Under(x, q) PROVE Under(x, q)'
    BY <1>1, <1>7, UnderKept DEF Step
  <1>8. ASSUME NEW x \in Nat, x = seen[e] PROVE Under(x, q)'
    <2> SUFFICES ASSUME NEW p \in Element, NEW k \in 1..Len(Outputs[p]), Outputs[p][k] = q
                 PROVE  x <= seen'[p] /\ ~Pending(p, k)'
      BY DEF Under
    <2>1. p = e /\ k = pos[e]
      BY <1>1, WiringAssumption
    <2>2. at'[e] = "push" /\ pos'[e] = pos[e] + 1
      BY DEF PushOutput, Go, FlowInvariant, TypeOK
    <2> QED
      BY <1>1, <1>8, <2>1, <2>2 DEF Pending
  <1>9. Increasing(queue'[q])
    <2> SUFFICES ASSUME NEW i \in 1..Len(queue'[q]), NEW j \in 1..Len(queue'[q]), i < j
                 PROVE  queue'[q][i] < queue'[q][j]
      BY DEF Increasing
    <2>1. i \in 1..Len(r) /\ queue'[q][i] = r[i]
      BY <1>6
    <2>2. CASE j <= Len(r)
      <3>1. j \in 1..Len(r) /\ queue'[q][j] = r[j]
        BY <1>6, <2>2
      <3>2. queue[q][i + n] < queue[q][j + n]
        BY <1>3, <1>5, <2>1, <3>1 DEF Increasing
      <3> QED
        BY <1>5, <2>1, <3>1, <3>2
    <2>3. CASE ~(j <= Len(r))
      BY <1>5, <1>6, <2>1, <2>3
    <2> QED
      BY <2>2, <2>3
  <1>10. ASSUME NEW j \in 1..Len(queue'[q]) PROVE Under(queue[q][j], q)'
    <2>1. PICK x \in Nat : x = queue'[q][j] /\ Under(x, q)'
      <3>1. CASE j <= Len(r)
        BY SMTT(20), <1>5, <1>6, <1>7, <3>1
      <3>2. CASE ~(j <= Len(r))
        BY <1>1, <1>6, <1>8, <3>2
      <3> QED
        BY <3>1, <3>2
    <2> QED
      BY <2>1
  <1>11. ASSUME NEW x \in Nat, Below(x, q) PROVE Below(x, q)'
    <2>1. Under(x, q)' /\ x < seen[e]
      BY <1>1, <1>7, <1>11 DEF Below, Under
    <2>2. ASSUME NEW j \in 1..Len(queue'[q]) PROVE x < queue'[q][j]
      <3>1. CASE j <= Len(r)
        <4>1. j \in 1..Len(r) /\ queue'[q][j] = r[j]
          BY <1>6, <3>1
        <4> QED
          BY <1>5, <1>11, <4>1 DEF Below
      <3>2. CASE ~(j <= Len(r))
        BY <1>6, <2>1, <3>2
      <3> QED
        BY <3>1, <3>2
    <2> QED
      BY <2>1, <2>2 DEF Below
  <1> QED
    BY <1>9, <1>10, <1>11 DEF QueueBehind

\* No step disturbs a queue or what is behind it.
LEMMA QueuesKept ==
  ASSUME FlowInvariant, NEW e \in Element, Step(e), NEW q \in Queue
  PROVE  QueueBehind(q)' /\ \A x \in Nat : Below(x, q) => Below(x, q)'
  <1>1. queue[q] \in Seq(Nat) /\ queue \in [Queue -> Seq(Nat)]
    BY DEF FlowInvariant, TypeOK
  <1>2. CASE \E n \in Nat : Rest(queue'[q], queue[q], n)
    BY <1>2, RestKeeps
  <1>3. CASE SourceProcess(e) \/ Process(e) \/ Pushed(e)
    BY <1>1, <1>2, <1>3, RestCases DEF SourceProcess, Process, Pushed
  <1>4. CASE PopMain(e)
    <2>1. CASE q = Main(e)
      <3>1. queue[q] # <<>> /\ queue'[q] = Tail(queue[q])
        BY <1>1, <1>4, <2>1 DEF PopMain
      <3> QED
        BY <1>1, <1>2, <3>1, RestCases
    <2>2. CASE q # Main(e)
      BY <1>1, <1>2, <1>4, <2>2, RestCases DEF PopMain
    <2> QED
      BY <2>1, <2>2
  <1>5. CASE MatchInput(e)
    <2>1. CASE q = Inputs[e][pos[e]]
      <3>1. PICK i \in 1..Len(queue[q]) : queue'[q] = SubSeq(queue[q], i + 1, Len(queue[q]))
        BY <1>1, <1>5, <2>1 DEF MatchInput
      <3> QED
        BY <1>1, <1>2, <3>1, RestCases
    <2>2. CASE q # Inputs[e][pos[e]]
      BY <1>1, <1>2, <1>5, <2>2, RestCases DEF MatchInput
    <2> QED
      BY <2>1, <2>2
  <1>6. CASE MatchFails(e)
    <2>1. Len(queue[q]) \in Nat
      BY <1>1
    <2> QED
      BY <1>1, <1>2, <1>6, <2>1, RestCases DEF MatchFails
  <1>7. CASE PushOutput(e)
    <2>1. CASE q = Outputs[e][pos[e]]
      BY <1>7, <2>1, PushKeeps
    <2>2. CASE q # Outputs[e][pos[e]]
      BY <1>1, <1>2, <1>7, <2>2, RestCases DEF PushOutput
    <2> QED
      BY <2>1, <2>2
  <1> QED
    BY <1>3, <1>4, <1>5, <1>6, <1>7 DEF Step

-----------------------------------------------------------------------------
(* Steps *)

\* Where an element is among its inputs or outputs is a queue.
LEMMA AtQueue ==
  ASSUME TypeOK, NEW e \in Element
  PROVE  /\ Inputs[e] \in Seq(Queue) /\ Len(Inputs[e]) \in Nat
         /\ Outputs[e] \in Seq(Queue) /\ Len(Outputs[e]) \in Nat
         /\ pos[e] \in Nat /\ pos[e] + 1 \in Nat \ {0}
         /\ pos[e] <= Len(Inputs[e]) =>
              pos[e] \in 1..Len(Inputs[e]) /\ Inputs[e][pos[e]] \in Queue
         /\ pos[e] <= Len(Outputs[e]) =>
              pos[e] \in 1..Len(Outputs[e]) /\ Outputs[e][pos[e]] \in Queue
  <1>1. Inputs[e] \in Seq(Queue) /\ Outputs[e] \in Seq(Queue) /\ pos[e] \in Nat \ {0}
    BY WiringAssumption DEF TypeOK
  <1> QED
    BY <1>1

\* Types, and no queue longer than queue_len.
LEMMA TypeStep ==
  ASSUME FlowInvariant, NEW e \in Element, Step(e)
  PROVE  TypeOK'
  <1>1. TypeOK /\ CallShape(e)
    BY DEF FlowInvariant
  <1>2. CASE SourceProcess(e)
    BY <1>1, <1>2, MaxFrameAssumption DEF TypeOK, SourceProcess, Go
  <1>3. CASE PopMain(e)
    <2>1. Main(e) \in Queue /\ queue[Main(e)] \in Seq(Nat) /\ queue[Main(e)] # <<>>
      BY <1>1, <1>3, MainInput DEF PopMain, TypeOK
    <2>2. /\ Head(queue[Main(e)]) \in Nat /\ Tail(queue[Main(e)]) \in Seq(Nat)
          /\ Len(Tail(queue[Main(e)])) <= QueueLen
      BY <1>1, <2>1, QueueLenAssumption DEF TypeOK
    <2> QED
      BY <1>1, <1>3, <2>1, <2>2 DEF TypeOK, PopMain, Go
  <1>4. CASE MatchInput(e)
    <2> DEFINE q == Inputs[e][pos[e]]
    <2>1. q \in Queue /\ queue[q] \in Seq(Nat) /\ pos[e] + 1 \in Nat \ {0}
      <3>1. pos[e] <= Len(Inputs[e])
        BY <1>4 DEF MatchInput
      <3> QED
        BY <1>1, <3>1, AtQueue DEF TypeOK
    <2>2. PICK i \in 1..Len(queue[q]) :
            /\ tin' = [tin EXCEPT ![e] = Append(@, queue[q][i])]
            /\ queue' = [queue EXCEPT ![q] = SubSeq(@, i + 1, Len(@))]
      BY <1>4 DEF MatchInput
    <2>3. /\ Append(tin[e], queue[q][i]) \in Seq(Nat)
          /\ SubSeq(queue[q], i + 1, Len(queue[q])) \in Seq(Nat)
          /\ Len(SubSeq(queue[q], i + 1, Len(queue[q]))) <= QueueLen
      <3>1. tin[e] \in Seq(Nat) /\ Len(queue[q]) <= QueueLen
        BY <1>1, <2>1 DEF TypeOK
      <3>2. Rest(SubSeq(queue[q], i + 1, Len(queue[q])), queue[q], i)
        BY <2>1, RestCases
      <3> HIDE DEF q
      <3>3. queue[q][i] \in Nat /\ i \in Nat /\ Len(queue[q]) \in Nat
        BY <2>1
      <3> QED
        BY <3>1, <3>2, <3>3, QueueLenAssumption DEF Rest
    <2> HIDE DEF q
    <2> QED
      BY <1>1, <1>4, <2>1, <2>2, <2>3 DEF TypeOK, MatchInput, Go
  <1>5. CASE MatchFails(e)
    <2> DEFINE q == Inputs[e][pos[e]]
    <2>1. /\ queue' = [queue EXCEPT ![q] = <<>>] /\ tin' = [tin EXCEPT ![e] = <<>>]
          /\ missed' = missed \cup {e} /\ Go(e, "get", 1) /\ UNCHANGED <<seen, given, dropped>>
      BY <1>5 DEF MatchFails
    <2> HIDE DEF q
    <2>2. <<>> \in Seq(Nat) /\ Len(<<>>) <= QueueLen
      BY QueueLenAssumption
    <2>3. queue' \in [Queue -> Seq(Nat)] /\ \A r \in Queue : Len(queue'[r]) <= QueueLen
      BY <1>1, <2>1, <2>2 DEF TypeOK
    <2>4. tin' \in [Element -> Seq(Nat)]
      BY <1>1, <2>1, <2>2 DEF TypeOK
    <2> QED
      BY <1>1, <2>1, <2>3, <2>4 DEF TypeOK, Go
  <1>6. CASE Process(e)
    <2>1. tin[e] \in Seq(Nat) /\ <<>> \in Seq(Nat)
      BY <1>1 DEF TypeOK
    <2>2. given' \in [Element -> Seq(Nat)]
      BY <1>1, <1>6, <2>1 DEF TypeOK, Process
    <2>3. tin' \in [Element -> Seq(Nat)]
      BY <1>1, <1>6, <2>1 DEF TypeOK, Process
    <2>4. at' \in [Element -> {"get", "match", "push"}] /\ pos' \in [Element -> Nat \ {0}]
      <3>1. Go(e, "push", 1) \/ Go(e, "get", 1)
        BY <1>6 DEF Process
      <3>2. \E w \in {"push", "get"} : at' = [at EXCEPT ![e] = w] /\ pos' = [pos EXCEPT ![e] = 1]
        BY <3>1 DEF Go
      <3> QED
        BY <1>1, <3>2 DEF TypeOK
    <2> QED
      BY <1>1, <1>6, <2>2, <2>3, <2>4 DEF TypeOK, Process
  <1>7. CASE PushOutput(e)
    <2> DEFINE q == Outputs[e][pos[e]]
    <2>1. q \in Queue /\ queue[q] \in Seq(Nat) /\ pos[e] + 1 \in Nat \ {0} /\ tin[e][1] \in Nat
      <3>1. pos[e] <= Len(Outputs[e]) /\ at[e] = "push"
        BY <1>7 DEF PushOutput
      <3>2. tin[e] # <<>> /\ tin[e] \in Seq(Nat)
        BY <1>1, <3>1 DEF TypeOK, CallShape
      <3>3. tin[e][1] \in Nat
        BY <3>2
      <3> QED
        BY <1>1, <3>1, <3>3, AtQueue DEF TypeOK
    <2>2. Len(queue[q]) >= QueueLen =>
            /\ Append(Tail(queue[q]), tin[e][1]) \in Seq(Nat)
            /\ Len(Append(Tail(queue[q]), tin[e][1])) <= QueueLen
      BY <1>1, <2>1, QueueLenAssumption DEF TypeOK
    <2>3. Len(queue[q]) < QueueLen =>
            /\ Append(queue[q], tin[e][1]) \in Seq(Nat)
            /\ Len(Append(queue[q], tin[e][1])) <= QueueLen
      BY <2>1, QueueLenAssumption
    <2>4. /\ (Len(queue[q]) >= QueueLen /\ queue' = [queue EXCEPT ![q] = Append(Tail(@), tin[e][1])])
             \/ (Len(queue[q]) < QueueLen /\ queue' = [queue EXCEPT ![q] = Append(@, tin[e][1])])
          /\ dropped' = dropped \cup {q} \/ dropped' = dropped
      BY <1>7, <2>1, QueueLenAssumption DEF PushOutput
    <2> HIDE DEF q
    <2>5. queue' \in [Queue -> Seq(Nat)] /\ \A r \in Queue : Len(queue'[r]) <= QueueLen
      BY <1>1, <2>1, <2>2, <2>3, <2>4 DEF TypeOK
    <2> QED
      BY <1>1, <1>7, <2>1, <2>4, <2>5 DEF TypeOK, PushOutput, Go
  <1>8. CASE Pushed(e)
    BY <1>1, <1>8 DEF TypeOK, Pushed, Go
  <1> QED
    BY <1>2, <1>3, <1>4, <1>5, <1>6, <1>7, <1>8 DEF Step

\* A call has all its packets before it is made, and the first is the newest of
\* input[0].
LEMMA ShapeStep ==
  ASSUME FlowInvariant, NEW e \in Element, Step(e), NEW f \in Element
  PROVE  CallShape(f)'
  <1>1. TypeOK /\ CallShape(e) /\ CallShape(f)
    BY DEF FlowInvariant
  <1>2. CASE f # e
    BY <1>1, <1>2, OthersStay DEF CallShape
  <1>3. CASE f = e /\ SourceProcess(e)
    BY <1>1, <1>3, MaxFrameAssumption DEF TypeOK, CallShape, SourceProcess, Go
  <1>4. CASE f = e /\ PopMain(e)
    <2>1. Main(e) \in Queue /\ Len(Inputs[e]) \in Nat /\ Len(Inputs[e]) >= 1 /\ e \notin Source
      BY <1>4, MainInput DEF PopMain
    <2>2. Head(queue[Main(e)]) \in Nat
      BY <1>1, <1>4, <2>1 DEF PopMain, TypeOK
    <2>3. at'[e] = "match" /\ pos'[e] = 2 /\ tin'[e] = <<seen'[e]>> /\ seen'[e] \in Nat
      BY <1>1, <1>4, <2>2 DEF PopMain, Go, TypeOK
    <2> QED
      BY <1>4, <2>1, <2>3 DEF CallShape
  <1>5. CASE f = e /\ MatchInput(e)
    <2>1. PICK y \in Nat : tin'[e] = Append(tin[e], y) /\ y >= tin[e][1]
      <3>1. queue[Inputs[e][pos[e]]] \in Seq(Nat)
        <4>1. pos[e] <= Len(Inputs[e])
          BY <1>5 DEF MatchInput
        <4> QED
          BY <1>1, <4>1, AtQueue DEF TypeOK
      <3>2. PICK i \in 1..Len(queue[Inputs[e][pos[e]]]) :
              /\ queue[Inputs[e][pos[e]]][i] >= tin[e][1]
              /\ tin' = [tin EXCEPT ![e] = Append(@, queue[Inputs[e][pos[e]]][i])]
        BY <1>5 DEF MatchInput
      <3>3. queue[Inputs[e][pos[e]]][i] \in Nat
        BY <3>1, <3>2
      <3> QED
        BY <1>1, <3>2, <3>3 DEF TypeOK
    <2>2. /\ at[e] = "match" /\ at'[e] = "match" /\ pos'[e] = pos[e] + 1 /\ pos[e] \in Nat
          /\ pos[e] <= Len(Inputs[e]) /\ seen'[e] = seen[e] /\ tin[e] \in Seq(Nat)
          /\ Len(Inputs[e]) \in Nat /\ seen[e] \in Nat
      BY <1>1, <1>5, WiringAssumption DEF MatchInput, Go, TypeOK
    <2>3. /\ Len(tin[e]) = pos[e] - 1 /\ pos[e] >= 2 /\ tin[e][1] = seen[e] /\ e \notin Source
          /\ tin[e] # <<>>
      BY <1>1, <2>2 DEF CallShape
    <2>4. \A i \in 1..Len(tin[e]) : tin[e][i] >= seen[e]
      BY <1>1 DEF CallShape
    <2>5. /\ Len(tin'[e]) = Len(tin[e]) + 1 /\ tin'[e] # <<>> /\ tin'[e][1] = tin[e][1]
          /\ \A i \in 1..Len(tin[e]) : tin'[e][i] = tin[e][i]
          /\ tin'[e][Len(tin[e]) + 1] = y
      <3>1. 1 \in 1..Len(tin[e])
        BY <2>2, <2>3
      <3> QED
        BY SMTT(20), <2>1, <2>2, <3>1, Appended
    <2>6. y >= seen[e]
      BY <2>1, <2>3
    <2>7. ASSUME NEW i \in 1..Len(tin'[e]) PROVE tin'[e][i] >= seen'[e]
      <3>1. i \in 1..Len(tin[e]) \/ i = Len(tin[e]) + 1
        BY <2>2, <2>5
      <3>2. CASE i \in 1..Len(tin[e])
        <4>1. tin'[e][i] = tin[e][i] /\ tin[e][i] >= seen[e]
          BY <2>4, <2>5, <3>2
        <4> QED
          BY <2>2, <4>1
      <3> QED
        BY <2>2, <2>5, <2>6, <3>1, <3>2
    <2>8. /\ pos'[e] >= 2 /\ pos'[e] <= Len(Inputs[e]) + 1
          /\ Len(tin'[e]) = pos'[e] - 1
      <3>1. Len(tin'[e]) = Len(tin[e]) + 1 /\ Len(tin[e]) = pos[e] - 1 /\ pos[e] >= 2
        BY <2>3, <2>5
      <3>2. pos[e] \in Nat /\ Len(Inputs[e]) \in Nat /\ pos[e] <= Len(Inputs[e])
            /\ pos'[e] = pos[e] + 1
        BY <2>2
      <3> QED
        BY <3>1, <3>2
    <2>9. CallShape(e)'
      BY <2>2, <2>3, <2>5, <2>7, <2>8 DEF CallShape
    <2> QED
      BY <1>5, <2>9
  <1>6. CASE f = e /\ MatchFails(e)
    BY <1>1, <1>6 DEF TypeOK, CallShape, MatchFails, Go
  <1>7. CASE f = e /\ Process(e)
    <2>1. tin[e] # <<>> /\ seen' = seen
      BY <1>1, <1>7 DEF TypeOK, CallShape, Process
    <2>2. (at'[e] = "push" /\ tin'[e] = tin[e]) \/ (at'[e] = "get" /\ tin'[e] = <<>>)
      BY <1>1, <1>7 DEF TypeOK, Process, Go
    <2> QED
      BY <1>1, <1>7, <2>1, <2>2 DEF CallShape
  <1>8. CASE f = e /\ PushOutput(e)
    BY <1>1, <1>8 DEF TypeOK, CallShape, PushOutput, Go
  <1>9. CASE f = e /\ Pushed(e)
    BY <1>1, <1>9 DEF TypeOK, CallShape, Pushed, Go
  <1> QED
    BY <1>2, <1>3, <1>4, <1>5, <1>6, <1>7, <1>8, <1>9 DEF Step

\* A call is made when every input has its packet: one of each, none older than
\* that of input[0].
LEMMA CallStep ==
  ASSUME FlowInvariant, NEW e \in Element, Step(e)
  PROVE  NoneOlder'
  <1>1. TypeOK /\ CallShape(e) /\ NoneOlder
    BY DEF FlowInvariant
  <1>2. CASE Process(e)
    <2>1. at[e] = "match" /\ pos[e] > Len(Inputs[e]) /\ given'[e] = tin[e]
      BY <1>1, <1>2 DEF Process, TypeOK
    <2>2. /\ tin[e] \in Seq(Nat) /\ Len(Inputs[e]) \in Nat /\ pos[e] \in Nat
          /\ Len(tin[e]) = pos[e] - 1 /\ pos[e] <= Len(Inputs[e]) + 1 /\ pos[e] >= 2
      BY <1>1, <2>1, AtQueue DEF CallShape, TypeOK
    <2>3. tin[e] # <<>> /\ Len(tin[e]) = Len(Inputs[e])
      BY <2>1, <2>2
    <2>4. \A i \in 1..Len(tin[e]) : tin[e][i] >= tin[e][1]
      BY <1>1, <2>3 DEF CallShape
    <2> SUFFICES ASSUME NEW f \in Element, given'[f] # <<>>
                 PROVE  /\ Len(given'[f]) = Len(Inputs[f])
                        /\ \A i \in 1..Len(given'[f]) : given'[f][i] >= given'[f][1]
      BY DEF NoneOlder
    <2>5. CASE f = e
      BY <2>1, <2>3, <2>4, <2>5
    <2>6. CASE f # e
      BY <1>1, <2>6, OthersStay DEF NoneOlder
    <2> QED
      BY <2>5, <2>6
  <1>3. CASE ~Process(e)
    <2>1. given' = given
      BY <1>3 DEF Step, SourceProcess, PopMain, MatchInput, MatchFails, PushOutput, Pushed
    <2> QED
      BY <1>1, <2>1 DEF NoneOlder
  <1> QED
    BY <1>2, <1>3

\* A packet that an element takes from a queue is older than all it leaves there,
\* and newer than all it has taken there before.
LEMMA TakenHead ==
  ASSUME FlowInvariant, NEW e \in Element, Step(e), NEW q \in Queue, NEW i \in 1..Len(queue[q]),
         Rest(queue'[q], queue[q], i)
  PROVE  /\ queue[q][i] \in Nat
         /\ \A x \in Nat : x = queue[q][i] => Below(x, q)'
         /\ \A x \in Nat : Below(x, q) => x < queue[q][i]
  <1>1. queue[q] \in Seq(Nat)
    BY DEF FlowInvariant, TypeOK
  <1>2. i \in 1..i
    OBVIOUS
  <1>3. \A x \in Nat : x = queue[q][i] => Below(x, q)'
    BY <1>2, RestKeeps
  <1>4. ASSUME NEW x \in Nat, Below(x, q) PROVE x < queue[q][i]
    BY <1>4 DEF Below
  <1> QED
    BY <1>1, <1>3, <1>4

\* What an element has taken stays behind what its inputs hold, and each packet
\* it takes is newer than the one it gave its plugin before from that input.
LEMMA TakenStep ==
  ASSUME FlowInvariant, NEW e \in Element, Step(e), NEW f \in Element
  PROVE  TakenBehind(f)'
  <1>1. TypeOK /\ TypeOK' /\ CallShape(f) /\ TakenBehind(f)
    BY TypeStep DEF FlowInvariant
  <1>2. ASSUME NEW x \in Nat, NEW q \in Queue, Below(x, q) PROVE Below(x, q)'
    BY <1>2, QueuesKept
  <1>3. CASE f \in Source
    <2>1. given'[f] = given[f]
      <3>1. CASE f # e
        BY <3>1, OthersStay, <1>1
      <3>2. CASE f = e
        BY <1>1, <1>3, <3>2 DEF CallShape, Step, SourceProcess, PopMain, MatchInput, MatchFails,
           Process, PushOutput, Pushed
      <3> QED
        BY <3>1, <3>2
    <2> QED
      BY <1>1, <1>3, <2>1 DEF TakenBehind
  <1>4. CASE f \notin Source
    <2>1. /\ Main(f) \in Queue /\ Main(f) = Inputs[f][1] /\ Len(Inputs[f]) \in Nat
          /\ Len(Inputs[f]) >= 1 /\ \A i \in 1..Len(Inputs[f]) : Inputs[f][i] \in Queue
      BY <1>4, MainInput, AtQueue, <1>1 DEF Main
    <2>2. /\ seen[f] \in Nat /\ given[f] \in Seq(Nat) /\ tin[f] \in Seq(Nat)
          /\ Len(given[f]) \in Nat /\ Len(tin[f]) \in Nat
          /\ \A i \in 1..Len(given[f]) : given[f][i] \in Nat
          /\ \A i \in 1..Len(tin[f]) : tin[f][i] \in Nat
      <3>1. seen[f] \in Nat /\ given[f] \in Seq(Nat) /\ tin[f] \in Seq(Nat)
        BY <1>1 DEF TypeOK
      <3> QED
        BY <3>1
    <2>3. /\ Below(seen[f], Main(f))
          /\ Len(given[f]) <= Len(Inputs[f]) /\ Len(tin[f]) <= Len(Inputs[f])
          /\ \A i \in 1..Len(given[f]) : Below(given[f][i], Inputs[f][i])
          /\ \A i \in 1..Len(tin[f]) : Below(tin[f][i], Inputs[f][i])
          /\ at[f] = "match" =>
               \A i \in 1..Len(given[f]) : i <= Len(tin[f]) => given[f][i] < tin[f][i]
      BY <1>1, <1>4 DEF TakenBehind
    <2>4. \A x \in Nat : x = seen[f] => Below(x, Main(f))'
      BY <1>2, <2>1, <2>2, <2>3
    <2>5. \A i \in 1..Len(given[f]) : \A x \in Nat : x = given[f][i] => Below(x, Inputs[f][i])'
      BY <1>2, <2>1, <2>2, <2>3
    <2>6. \A i \in 1..Len(tin[f]) : \A x \in Nat : x = tin[f][i] => Below(x, Inputs[f][i])'
      BY <1>2, <2>1, <2>2, <2>3
    \* What has to be shown, with the primed variables taken apart.
    <2>7. ASSUME
            /\ \A x \in Nat : x = seen'[f] => Below(x, Main(f))'
            /\ Len(given'[f]) <= Len(Inputs[f]) /\ Len(tin'[f]) <= Len(Inputs[f])
            /\ \A i \in 1..Len(given'[f]) : \A x \in Nat :
                 x = given'[f][i] => Below(x, Inputs[f][i])'
            /\ \A i \in 1..Len(tin'[f]) : \A x \in Nat :
                 x = tin'[f][i] => Below(x, Inputs[f][i])'
            /\ at'[f] = "match" =>
                 \A i \in 1..Len(given'[f]) : i <= Len(tin'[f]) => given'[f][i] < tin'[f][i]
          PROVE TakenBehind(f)'
      <3>1. /\ seen'[f] \in Nat
            /\ \A i \in 1..Len(given'[f]) : given'[f][i] \in Nat
            /\ \A i \in 1..Len(tin'[f]) : tin'[f][i] \in Nat
        <4>1. seen'[f] \in Nat /\ given'[f] \in Seq(Nat) /\ tin'[f] \in Seq(Nat)
          BY <1>1 DEF TypeOK
        <4> QED
          BY <4>1
      <3>2. Below(seen[f], Main(f))'
        BY <2>7, <3>1
      <3>3. \A i \in 1..Len(given'[f]) : Below(given[f][i], Inputs[f][i])'
        BY <2>7, <3>1
      <3>4. \A i \in 1..Len(tin'[f]) : Below(tin[f][i], Inputs[f][i])'
        BY <2>7, <3>1
      <3> QED
        BY <1>4, <2>7, <3>2, <3>3, <3>4 DEF TakenBehind
    <2>8. CASE f # e
      <3>1. /\ at'[f] = at[f] /\ seen'[f] = seen[f] /\ given'[f] = given[f] /\ tin'[f] = tin[f]
        BY <1>1, <2>8, OthersStay
      <3> QED
        BY <2>3, <2>4, <2>5, <2>6, <2>7, <3>1
    <2>9. CASE f = e /\ PopMain(e)
      <3>1. /\ queue[Main(f)] \in Seq(Nat) /\ queue[Main(f)] # <<>>
            /\ queue'[Main(f)] = Tail(queue[Main(f)])
        BY <1>1, <2>1, <2>9 DEF PopMain, TypeOK
      <3>2. /\ tin'[f] = <<queue[Main(f)][1]>> /\ seen'[f] = queue[Main(f)][1]
            /\ given'[f] = given[f]
        BY <1>1, <2>9, <3>1 DEF PopMain, TypeOK
      <3>3. 1 \in 1..Len(queue[Main(f)]) /\ Rest(queue'[Main(f)], queue[Main(f)], 1)
        BY <3>1, RestCases
      <3>4. /\ queue[Main(f)][1] \in Nat
            /\ \A x \in Nat : x = queue[Main(f)][1] => Below(x, Main(f))'
            /\ \A x \in Nat : Below(x, Main(f)) => x < queue[Main(f)][1]
        BY <2>1, <3>3, TakenHead
      <3>5. \A i \in 1..Len(given[f]) : i <= 1 => given[f][i] < queue[Main(f)][1]
        BY SMTT(20), <2>1, <2>2, <2>3, <3>4
      <3> QED
        BY <2>1, <2>3, <2>5, <2>7, <3>2, <3>4, <3>5
    <2>10. CASE f = e /\ MatchInput(e)
      <3>1. PICK n \in 1..Len(Inputs[f]), q \in Queue :
              n = pos[f] /\ q = Inputs[f][n] /\ n \in Nat /\ at[f] = "match"
        BY <1>1, <2>10, AtQueue DEF MatchInput
      <3>2. Len(tin[f]) = n - 1
        BY <1>1, <3>1 DEF CallShape
      <3>3. queue[q] \in Seq(Nat)
        BY <1>1, <3>1 DEF TypeOK
      <3>4. PICK i \in 1..Len(queue[q]) :
              /\ tin' = [tin EXCEPT ![f] = Append(@, queue[q][i])]
              /\ queue' = [queue EXCEPT ![q] = SubSeq(@, i + 1, Len(@))]
        BY <2>10, <3>1 DEF MatchInput
      <3>5. seen'[f] = seen[f] /\ given'[f] = given[f]
        BY <2>10 DEF MatchInput
      <3>6. queue'[q] = SubSeq(queue[q], i + 1, Len(queue[q]))
        BY <1>1, <3>1, <3>4 DEF TypeOK
      <3>7. Rest(queue'[q], queue[q], i)
        BY <3>3, <3>6, RestCases
      <3>8. /\ queue[q][i] \in Nat
            /\ \A x \in Nat : x = queue[q][i] => Below(x, q)'
            /\ \A x \in Nat : Below(x, q) => x < queue[q][i]
        BY <3>1, <3>7, TakenHead
      <3>9. PICK y \in Nat : y = queue[q][i]
        BY <3>8
      <3>10. tin'[f] = Append(tin[f], y)
        BY <1>1, <3>4, <3>9 DEF TypeOK
      <3>11. /\ Len(tin'[f]) = n /\ tin'[f][n] = y
             /\ \A j \in 1..Len(tin[f]) : tin'[f][j] = tin[f][j]
        <4>1. Len(tin[f]) + 1 = n
          BY <2>2, <3>1, <3>2
        <4> QED
          BY <2>2, <3>10, <4>1, Appended
      <3>12. ASSUME NEW j \in 1..n PROVE j \in 1..Len(tin[f]) \/ j = n
        BY <3>1, <3>2
      <3>13. \A j \in 1..Len(tin'[f]) : \A x \in Nat : x = tin'[f][j] => Below(x, Inputs[f][j])'
        <4> SUFFICES ASSUME NEW j \in 1..n, NEW x \in Nat, x = tin'[f][j]
                     PROVE  Below(x, Inputs[f][j])'
          BY <3>11
        <4>1. CASE j \in 1..Len(tin[f])
          <5>1. x = tin[f][j]
            BY <3>11, <4>1
          <5> QED
            BY <2>6, <4>1, <5>1
        <4>2. CASE j = n
          <5>1. x = queue[q][i] /\ q = Inputs[f][j]
            BY <3>1, <3>9, <3>11, <4>2
          <5>2. Below(x, q)'
            BY <3>8, <5>1
          <5> QED
            BY <5>1, <5>2
        <4> QED
          BY <3>12, <4>1, <4>2
      <3>14. ASSUME NEW j \in 1..Len(given[f]), j <= n PROVE given[f][j] < tin'[f][j]
        <4>1. j \in 1..n
          BY <2>2, <3>1, <3>14
        <4>2. CASE j \in 1..Len(tin[f])
          <5>1. given[f][j] < tin[f][j]
            <6>1. j <= Len(tin[f])
              BY <4>2
            <6> QED
              BY <2>3, <3>1, <6>1
          <5> QED
            BY <3>11, <4>2, <5>1
        <4>3. CASE j = n
          <5>1. Below(given[f][j], q) /\ given[f][j] \in Nat
            BY <2>2, <2>3, <3>1, <4>3
          <5>2. given[f][j] < y
            BY <3>8, <3>9, <5>1
          <5> QED
            BY <3>11, <4>3, <5>2
        <4> QED
          BY <3>12, <4>1, <4>2, <4>3
      <3> QED
        BY <2>3, <2>4, <2>5, <2>7, <3>1, <3>5, <3>11, <3>13, <3>14
    <2>11. CASE f = e /\ Process(e)
      <3>1. /\ seen'[f] = seen[f] /\ given'[f] = tin[f] /\ at'[f] # "match"
            /\ tin'[f] = tin[f] \/ tin'[f] = <<>>
        BY <1>1, <2>11 DEF Process, Go, TypeOK
      <3>2. Len(tin'[f]) <= Len(Inputs[f])
            /\ \A i \in 1..Len(tin'[f]) : \A x \in Nat : x = tin'[f][i] => Below(x, Inputs[f][i])'
        BY <2>1, <2>2, <2>3, <2>6, <3>1
      <3> QED
        BY <2>3, <2>4, <2>6, <2>7, <3>1, <3>2
    <2>12. CASE f = e /\ (MatchFails(e) \/ PushOutput(e) \/ Pushed(e))
      <3>1. /\ seen'[f] = seen[f] /\ given'[f] = given[f] /\ at'[f] # "match"
            /\ tin'[f] = tin[f] \/ tin'[f] = <<>>
        BY <1>1, <2>12 DEF MatchFails, PushOutput, Pushed, Go, TypeOK
      <3>2. Len(tin'[f]) <= Len(Inputs[f])
            /\ \A i \in 1..Len(tin'[f]) : \A x \in Nat : x = tin'[f][i] => Below(x, Inputs[f][i])'
        BY <2>1, <2>2, <2>3, <2>6, <3>1
      <3> QED
        BY <2>3, <2>4, <2>5, <2>7, <3>1, <3>2
    <2> QED
      BY <1>4, <2>8, <2>9, <2>10, <2>11, <2>12 DEF Step, SourceProcess
  <1> QED
    BY <1>3, <1>4

\* The invariant is kept by every step.
LEMMA FlowStep == FlowInvariant /\ [Next]_vars => FlowInvariant'
  <1> SUFFICES ASSUME FlowInvariant, [Next]_vars PROVE FlowInvariant'
    OBVIOUS
  <1>1. ASSUME NEW e \in Element, Step(e) PROVE FlowInvariant'
    <2>1. TypeOK' /\ NoneOlder'
      BY <1>1, TypeStep, CallStep
    <2>2. \A f \in Element : CallShape(f)' /\ TakenBehind(f)'
      BY <1>1, ShapeStep, TakenStep
    <2>3. \A q \in Queue : QueueBehind(q)'
      BY <1>1, QueuesKept
    <2> QED
      BY <2>1, <2>2, <2>3 DEF FlowInvariant
  <1>2. CASE UNCHANGED vars
    BY <1>2 DEF vars, FlowInvariant, TypeOK, CallShape, TakenBehind, QueueBehind, NoneOlder,
       Below, Under, Pending, Main
  <1> QED
    BY <1>1, <1>2 DEF Next, Step

\* However the threads interleave and wherever packets are dropped, queues are in
\* frame order, no packet in a queue is older than what its consumer has taken,
\* and no packet of a call is older than that of input[0] (GetInput, ThreadFunc).
THEOREM FlowOrderHolds == Spec => []FlowOrder
  <1>1. FlowInvariant => FlowOrder
    <2> SUFFICES ASSUME FlowInvariant PROVE FlowOrder
      OBVIOUS
    <2>1. \A q \in Queue : Increasing(queue[q])
      BY DEF FlowInvariant, QueueBehind
    <2>2. ASSUME NEW e \in Element \ Source, NEW i \in 1..Len(queue[Main(e)])
          PROVE  queue[Main(e)][i] > seen[e]
      <3>1. seen[e] < queue[Main(e)][i]
        BY DEF FlowInvariant, TakenBehind, Below
      <3>2. seen[e] \in Nat /\ queue[Main(e)] \in Seq(Nat)
        BY MainInput DEF FlowInvariant, TypeOK
      <3>3. queue[Main(e)][i] \in Nat
        BY <3>2
      <3> QED
        BY <3>1, <3>2, <3>3
    <2> QED
      BY <2>1, <2>2 DEF FlowOrder, FlowInvariant, QueuesInOrder
  <1> QED
    BY <1>1, FlowInit, FlowStep, PTL DEF Spec

\* No input of an element gives its plugin the same frame twice or an older one
\* than before, also after a match that failed and after packets were dropped.
THEOREM FramesAdvanceHolds == Spec => FramesAdvance
  <1>1. ASSUME FlowInvariant, [Next]_vars, NEW e \in Element, given[e] # <<>>, given'[e] # given[e]
        PROVE  \A i \in 1..Len(given[e]) : given'[e][i] > given[e][i]
    <2>1. TypeOK /\ CallShape(e) /\ TakenBehind(e)
      BY <1>1 DEF FlowInvariant
    <2>2. PICK f \in Element : Step(f)
      BY <1>1 DEF vars, Next, Step
    <2>3. f = e
      BY <1>1, <2>1, <2>2, OthersStay
    <2>4. Process(e)
      BY <1>1, <2>2, <2>3 DEF Step, SourceProcess, PopMain, MatchInput, MatchFails, PushOutput,
         Pushed
    <2>5. at[e] = "match" /\ pos[e] > Len(Inputs[e]) /\ given'[e] = tin[e]
      BY <2>1, <2>4 DEF Process, TypeOK
    <2>6. e \notin Source /\ Len(tin[e]) = pos[e] - 1
      BY <2>1, <2>5 DEF CallShape
    <2>7. Len(given[e]) <= Len(Inputs[e])
          /\ \A i \in 1..Len(given[e]) : i <= Len(tin[e]) => given[e][i] < tin[e][i]
      BY <2>1, <2>5, <2>6 DEF TakenBehind
    <2>8. /\ given[e] \in Seq(Nat) /\ tin[e] \in Seq(Nat) /\ Len(Inputs[e]) \in Nat
          /\ pos[e] \in Nat
      BY <2>1, AtQueue DEF TypeOK
    <2>9. ASSUME NEW i \in 1..Len(given[e]) PROVE tin[e][i] > given[e][i]
      <3>1. i <= Len(tin[e]) /\ i \in 1..Len(tin[e])
        BY <2>5, <2>6, <2>7, <2>8
      <3>2. given[e][i] \in Nat /\ tin[e][i] \in Nat
        BY SMTT(20), <2>8, <3>1
      <3> QED
        BY <2>7, <3>1, <3>2
    <2> QED
      BY <2>5, <2>9
  <1>2. FlowInvariant /\ [Next]_vars =>
          [\A e \in Element : given[e] # <<>> /\ given'[e] # given[e] =>
             \A i \in 1..Len(given[e]) : given'[e][i] > given[e][i]]_vars
    BY <1>1
  <1> QED
    BY <1>2, FlowInit, FlowStep, PTL DEF Spec, FramesAdvance

-----------------------------------------------------------------------------
(* A result meets its own picture *)

\* a is the element whose frames reach e twice: as input i, straight from its j-th
\* output, and through p, which takes its l-th output as main input and whose k-th
\* output is the main input of e.
Diamond(e, i, p, k, a, l, j) ==
  /\ e \in Element \ Source /\ p \in Element \ Source /\ a \in Element
  /\ i \in 2..Len(Inputs[e])
  /\ k \in 1..Len(Outputs[p]) /\ Outputs[p][k] = Main(e)
  /\ l \in 1..Len(Outputs[a]) /\ Outputs[a][l] = Main(p)
  /\ j \in 1..Len(Outputs[a]) /\ Outputs[a][j] = Inputs[e][i]

\* The frame x is in the queue r, or a will push it there.
Tracked(x, a, j, r) ==
  \/ \E n \in 1..Len(queue[r]) : queue[r][n] = x
  \/ at[a] = "push" /\ pos[a] <= j /\ seen[a] = x

\* As long as nothing was dropped from input i, every frame that is on its way to
\* e through p, or that e looks for in input i, is tracked there.
Paired(e, i, p, k, a, l, j) ==
  Inputs[e][i] \notin dropped =>
    /\ \A n \in 1..Len(queue[Main(p)]) : Tracked(queue[Main(p)][n], a, j, Inputs[e][i])
    /\ Pending(p, k) => Tracked(seen[p], a, j, Inputs[e][i])
    /\ \A n \in 1..Len(queue[Main(e)]) : Tracked(queue[Main(e)][n], a, j, Inputs[e][i])
    /\ at[a] = "push" /\ pos[a] <= l => Tracked(seen[a], a, j, Inputs[e][i])
    /\ at[e] = "match" /\ pos[e] <= i => Tracked(seen[e], a, j, Inputs[e][i])
    /\ at[e] = "match" /\ pos[e] > i => tin[e][i] = tin[e][1]
    /\ given[e] # <<>> => given[e][i] = given[e][1]

PairInvariant ==
  \A e, p, a \in Element, i, k, l, j \in Nat :
    Diamond(e, i, p, k, a, l, j) => Paired(e, i, p, k, a, l, j)

\* What is in a queue was there before, or its producer has just pushed it.
LEMMA QueueOrigin ==
  ASSUME FlowInvariant, NEW f \in Element, Step(f), NEW q \in Queue,
         NEW n \in 1..Len(queue'[q])
  PROVE  /\ queue'[q][n] \in Nat
         /\ \/ \E m \in 1..Len(queue[q]) : queue[q][m] = queue'[q][n]
            \/ PushOutput(f) /\ Outputs[f][pos[f]] = q /\ queue'[q][n] = seen[f]
  <1>1. queue[q] \in Seq(Nat) /\ queue \in [Queue -> Seq(Nat)] /\ queue'[q] \in Seq(Nat)
    BY TypeStep DEF FlowInvariant, TypeOK
  <1>2. queue'[q][n] \in Nat /\ Len(queue[q]) \in Nat
    BY <1>1
  <1>3. ASSUME NEW d \in Nat, Rest(queue'[q], queue[q], d)
        PROVE  \E m \in 1..Len(queue[q]) : queue[q][m] = queue'[q][n]
    BY <1>1, <1>3 DEF Rest
  <1>4. CASE SourceProcess(f) \/ Process(f) \/ Pushed(f)
    BY <1>2, <1>4 DEF SourceProcess, Process, Pushed
  <1>5. CASE PopMain(f) \/ MatchInput(f) \/ MatchFails(f)
    <2>1. CASE queue'[q] = queue[q]
      BY <1>2, <2>1
    <2>2. CASE PopMain(f) /\ queue'[q] # queue[q]
      <3>1. queue[q] # <<>> /\ queue'[q] = Tail(queue[q])
        BY <1>1, <2>2 DEF PopMain
      <3>2. Rest(queue'[q], queue[q], 1)
        BY <1>1, <3>1, RestCases
      <3> QED
        BY <1>2, <1>3, <3>2
    <2>3. CASE MatchInput(f) /\ queue'[q] # queue[q]
      <3>1. PICK d \in 1..Len(queue[q]) : queue'[q] = SubSeq(queue[q], d + 1, Len(queue[q]))
        BY <1>1, <2>3 DEF MatchInput
      <3>2. Rest(queue'[q], queue[q], d) /\ d \in Nat
        BY <1>1, <3>1, RestCases
      <3> QED
        BY <1>2, <1>3, <3>2
    <2>4. CASE MatchFails(f) /\ queue'[q] # queue[q]
      <3>1. queue'[q] = <<>>
        BY <1>1, <2>4 DEF MatchFails
      <3> QED
        BY <3>1
    <2> QED
      BY <1>5, <2>1, <2>2, <2>3, <2>4
  <1>6. CASE PushOutput(f)
    <2>1. CASE q # Outputs[f][pos[f]]
      BY <1>1, <1>2, <1>6, <2>1 DEF PushOutput
    <2>2. CASE q = Outputs[f][pos[f]]
      <3>1. tin[f][1] = seen[f] /\ seen[f] \in Nat
        BY <1>6 DEF PushOutput, FlowInvariant, CallShape, TypeOK
      <3>2. CASE Len(queue[q]) >= QueueLen
        <4>1. queue[q] # <<>> /\ queue'[q] = Append(Tail(queue[q]), seen[f])
          <5>1. queue[q] # <<>>
            BY <1>1, <3>2, QueueLenAssumption
          <5>2. queue' = [queue EXCEPT ![q] = Append(Tail(queue[q]), tin[f][1])]
            BY <1>6, <2>2, <3>2 DEF PushOutput
          <5> QED
            BY <1>1, <3>1, <5>1, <5>2
        <4>2. Tail(queue[q]) \in Seq(Nat) /\ Len(Tail(queue[q])) = Len(queue[q]) - 1
              /\ \A m \in 1..Len(Tail(queue[q])) :
                   Tail(queue[q])[m] = queue[q][m + 1] /\ m + 1 \in 1..Len(queue[q])
          BY <1>1, <4>1
        <4>3. n \in 1..Len(Tail(queue[q])) \/ n = Len(Tail(queue[q])) + 1
          BY <3>1, <4>1, <4>2, Appended
        <4>4. queue'[q][n] = IF n \in 1..Len(Tail(queue[q])) THEN Tail(queue[q])[n] ELSE seen[f]
          BY <3>1, <4>1, <4>2, <4>3, Appended
        <4> QED
          BY <1>2, <1>6, <2>2, <4>2, <4>3, <4>4
      <3>3. CASE ~(Len(queue[q]) >= QueueLen)
        <4>1. queue'[q] = Append(queue[q], seen[f])
          BY <1>1, <1>6, <2>2, <3>1, <3>3 DEF PushOutput
        <4>2. n \in 1..Len(queue[q]) \/ n = Len(queue[q]) + 1
          BY <1>1, <3>1, <4>1, Appended
        <4>3. queue'[q][n] = IF n \in 1..Len(queue[q]) THEN queue[q][n] ELSE seen[f]
          BY <1>1, <3>1, <4>1, <4>2, Appended
        <4> QED
          BY <1>2, <1>6, <2>2, <4>2, <4>3
      <3> QED
        BY <3>2, <3>3
    <2> QED
      BY <2>1, <2>2
  <1> QED
    BY <1>4, <1>5, <1>6 DEF Step

\* The elements of a diamond and their queues.
LEMMA DiamondTypes ==
  ASSUME FlowInvariant, NEW e, NEW i, NEW p, NEW k, NEW a, NEW l, NEW j,
         Diamond(e, i, p, k, a, l, j)
  PROVE  /\ e \in Element /\ e \notin Source /\ p \in Element /\ p \notin Source /\ a \in Element
         /\ i \in Nat /\ i >= 2 /\ i \in 1..Len(Inputs[e]) /\ Len(Inputs[e]) \in Nat
         /\ k \in Nat /\ l \in Nat /\ j \in Nat /\ j >= 1 /\ j <= Len(Outputs[a])
         /\ Len(Outputs[a]) \in Nat
         /\ Main(e) \in Queue /\ Main(p) \in Queue /\ Inputs[e][i] \in Queue
         /\ seen[e] \in Nat /\ seen[p] \in Nat /\ seen[a] \in Nat
         /\ pos[e] \in Nat /\ pos[p] \in Nat /\ pos[a] \in Nat
  <1>1. e \in Element /\ e \notin Source /\ p \in Element /\ p \notin Source /\ a \in Element
    BY DEF Diamond
  <1>2. Inputs[e] \in Seq(Queue) /\ Outputs[p] \in Seq(Queue) /\ Outputs[a] \in Seq(Queue)
    BY <1>1, WiringAssumption
  <1>3. Main(e) \in Queue /\ Main(p) \in Queue
    BY <1>1, MainInput
  <1>4. /\ i \in 2..Len(Inputs[e]) /\ k \in 1..Len(Outputs[p])
        /\ l \in 1..Len(Outputs[a]) /\ j \in 1..Len(Outputs[a])
    BY DEF Diamond
  <1>5. i \in 1..Len(Inputs[e]) /\ Inputs[e][i] \in Queue
    BY <1>2, <1>4
  <1>6. /\ seen[e] \in Nat /\ seen[p] \in Nat /\ seen[a] \in Nat
        /\ pos[e] \in Nat /\ pos[p] \in Nat /\ pos[a] \in Nat
    BY <1>1 DEF FlowInvariant, TypeOK
  <1> QED
    BY <1>1, <1>2, <1>3, <1>4, <1>5, <1>6

\* How far the three have come: everything that is on its way to e is newer than
\* what e has taken.
LEMMA DiamondOrder ==
  ASSUME FlowInvariant, NEW e, NEW i, NEW p, NEW k, NEW a, NEW l, NEW j,
         Diamond(e, i, p, k, a, l, j)
  PROVE  /\ seen[e] <= seen[p] /\ (Pending(p, k) => seen[e] < seen[p])
         /\ \A n \in 1..Len(queue[Main(e)]) :
              queue[Main(e)][n] \in Nat /\ seen[e] < queue[Main(e)][n]
         /\ \A n \in 1..Len(queue[Main(p)]) :
              queue[Main(p)][n] \in Nat /\ seen[e] < queue[Main(p)][n]
         /\ seen[p] <= seen[a] /\ (Pending(a, l) => seen[p] < seen[a])
  <1>1. /\ e \in Element /\ e \notin Source /\ p \in Element /\ p \notin Source /\ a \in Element
        /\ Main(e) \in Queue /\ Main(p) \in Queue
        /\ seen[e] \in Nat /\ seen[p] \in Nat /\ seen[a] \in Nat
    BY DiamondTypes
  <1>2. Below(seen[e], Main(e)) /\ Below(seen[p], Main(p))
    BY <1>1 DEF FlowInvariant, TakenBehind
  <1>3. seen[e] <= seen[p] /\ (Pending(p, k) => seen[e] < seen[p])
    BY <1>1, <1>2 DEF Below, Under, Diamond
  <1>4. seen[p] <= seen[a] /\ (Pending(a, l) => seen[p] < seen[a])
    BY <1>1, <1>2 DEF Below, Under, Diamond
  <1>5. queue[Main(e)] \in Seq(Nat) /\ queue[Main(p)] \in Seq(Nat)
    BY <1>1 DEF FlowInvariant, TypeOK
  <1>6. ASSUME NEW n \in 1..Len(queue[Main(e)])
        PROVE  queue[Main(e)][n] \in Nat /\ seen[e] < queue[Main(e)][n]
    BY <1>2, <1>5 DEF Below
  <1>7. ASSUME NEW n \in 1..Len(queue[Main(p)])
        PROVE  queue[Main(p)][n] \in Nat /\ seen[e] < queue[Main(p)][n]
    <2>1. queue[Main(p)][n] \in Nat /\ seen[p] < queue[Main(p)][n]
      BY <1>2, <1>5 DEF Below
    <2> QED
      BY <1>1, <1>3, <2>1
  <1> QED
    BY <1>3, <1>4, <1>6, <1>7

\* The packet that a match takes is the very frame: had a not pushed it yet, there
\* were none as new, and if it is in the queue no later one is taken.
LEMMA MatchExact ==
  ASSUME FlowInvariant, NEW e, NEW i, NEW p, NEW k, NEW a, NEW l, NEW j,
         Diamond(e, i, p, k, a, l, j), at[e] = "match",
         Tracked(seen[e], a, j, Inputs[e][i]),
         NEW n \in 1..Len(queue[Inputs[e][i]]),
         queue[Inputs[e][i]][n] >= tin[e][1],
         \A m \in 1..n-1 : queue[Inputs[e][i]][m] < tin[e][1]
  PROVE  queue[Inputs[e][i]][n] = seen[e] /\ tin[e][1] = seen[e]
  <1> DEFINE r == Inputs[e][i]
             s == queue[r]
  <1>1. e \in Element /\ a \in Element /\ r \in Queue /\ seen[e] \in Nat /\ i \in Nat
    BY DiamondTypes
  <1>2. tin[e][1] = seen[e]
    <2>1. CallShape(e) /\ tin[e] \in Seq(Nat) /\ pos[e] \in Nat
      BY <1>1 DEF FlowInvariant, TypeOK
    <2>2. tin[e] # <<>>
      BY <2>1 DEF CallShape
    <2> QED
      BY <2>1, <2>2 DEF CallShape
  <1>3. s \in Seq(Nat) /\ Increasing(s) /\ Under(s[n], r)
    BY <1>1 DEF FlowInvariant, TypeOK, QueueBehind
  <1>4. s[n] \in Nat /\ n \in Nat /\ Len(s) \in Nat
    BY <1>3
  <1>5. s[n] >= seen[e] /\ \A m \in 1..n-1 : s[m] < seen[e]
    BY <1>2
  <1>6. ASSUME NEW m \in 1..Len(s), s[m] = seen[e] PROVE s[n] = seen[e]
    <2>1. ~(m < n)
      BY <1>1, <1>4, <1>5, <1>6
    <2>2. ~(n < m)
      BY <1>1, <1>3, <1>4, <1>5, <1>6 DEF Increasing
    <2> QED
      BY <1>4, <1>6, <2>1, <2>2
  <1>7. ASSUME at[a] = "push", pos[a] <= j, seen[a] = seen[e] PROVE FALSE
    <2>1. j \in 1..Len(Outputs[a]) /\ Outputs[a][j] = r /\ Pending(a, j)
      BY <1>7 DEF Diamond, Pending
    <2>2. s[n] < seen[a]
      BY <1>1, <1>3, <2>1 DEF Under
    <2> QED
      BY <1>1, <1>4, <1>5, <1>7, <2>2
  <1> QED
    BY <1>2, <1>6, <1>7 DEF Tracked

\* A queue that has overflowed has overflowed for good.
LEMMA DroppedGrows ==
  ASSUME NEW f \in Element, Step(f), NEW q, q \notin dropped'
  PROVE  q \notin dropped
  BY DEF Step, SourceProcess, PopMain, MatchInput, MatchFails, Process, PushOutput, Pushed

\* A tracked frame that e has not taken yet stays tracked, and so does the one e
\* looks for until it comes to input i.
LEMMA TrackedKept ==
  ASSUME FlowInvariant, NEW f \in Element, Step(f),
         NEW e, NEW i, NEW p, NEW k, NEW a, NEW l, NEW j,
         Diamond(e, i, p, k, a, l, j), Paired(e, i, p, k, a, l, j),
         Inputs[e][i] \notin dropped',
         NEW x \in Nat, Tracked(x, a, j, Inputs[e][i]),
         seen[e] < x \/ ~(f = e /\ at[e] = "match" /\ pos[e] = i)
  PROVE  Tracked(x, a, j, Inputs[e][i])'
  <1> DEFINE r == Inputs[e][i]
  <1>1. /\ e \in Element /\ a \in Element /\ r \in Queue /\ seen[e] \in Nat /\ i \in Nat /\ i >= 2
        /\ i \in 1..Len(Inputs[e]) /\ seen[a] \in Nat /\ pos[a] \in Nat /\ j \in Nat
        /\ j \in 1..Len(Outputs[a]) /\ Outputs[a][j] = r /\ pos[e] \in Nat
    <2>1. j \in 1..Len(Outputs[a]) /\ Outputs[a][j] = Inputs[e][i]
      BY DEF Diamond
    <2> QED
      BY <2>1, DiamondTypes
  <1>2. /\ TypeOK /\ queue[r] \in Seq(Nat) /\ Len(queue[r]) \in Nat
        /\ \A n \in 1..Len(queue[r]) : queue[r][n] \in Nat
    <2>1. TypeOK
      BY DEF FlowInvariant
    <2>2. queue[r] \in Seq(Nat)
      BY <1>1, <2>1 DEF TypeOK
    <2> HIDE DEF r
    <2>3. \A n \in 1..Len(queue[r]) : queue[r][n] \in Nat
      BY <2>2
    <2> QED
      BY <2>1, <2>2, <2>3
  <1>3. CASE PushOutput(f) /\ Outputs[f][pos[f]] = r
    <2>1. /\ at[f] = "push" /\ pos[f] \in 1..Len(Outputs[f])
          /\ tin[f][1] = seen[f] /\ seen[f] \in Nat
      <3>1. at[f] = "push" /\ pos[f] <= Len(Outputs[f]) /\ seen[f] \in Nat
        <4>1. at[f] = "push" /\ pos[f] <= Len(Outputs[f])
          BY <1>3 DEF PushOutput
        <4>2. seen[f] \in Nat
          BY <1>2 DEF TypeOK
        <4> QED
          BY <4>1, <4>2
      <3>2. tin[f][1] = seen[f]
        BY <3>1 DEF FlowInvariant, CallShape
      <3> QED
        BY <1>2, <3>1, <3>2, AtQueue
    <2>2. f = a /\ pos[f] = j
      BY <1>1, <1>3, <2>1, WiringAssumption
    <2>3. queue'[r] = Append(queue[r], seen[a])
      <3>1. CASE Len(queue[r]) >= QueueLen
        BY <1>1, <1>3, <3>1 DEF PushOutput
      <3>2. CASE ~(Len(queue[r]) >= QueueLen)
        BY <1>1, <1>2, <1>3, <2>1, <2>2, <3>2 DEF PushOutput, TypeOK
      <3> QED
        BY <3>1, <3>2
    <2>4. /\ Len(queue'[r]) = Len(queue[r]) + 1 /\ queue'[r][Len(queue[r]) + 1] = seen[a]
          /\ \A n \in 1..Len(queue[r]) : queue'[r][n] = queue[r][n]
      <3>1. seen[a] \in Nat /\ queue[r] \in Seq(Nat)
        BY <1>1, <1>2
      <3> HIDE DEF r
      <3> QED
        BY <2>3, <3>1, Appended
    <2>5. \E n \in 1..Len(queue'[r]) : queue'[r][n] = x
      <3>1. CASE seen[a] = x
        <4>1. Len(queue[r]) + 1 \in 1..Len(queue'[r])
          BY <1>2, <2>4
        <4> QED
          BY <2>4, <3>1, <4>1
      <3>2. ASSUME NEW n \in 1..Len(queue[r]), queue[r][n] = x
            PROVE  \E m \in 1..Len(queue'[r]) : queue'[r][m] = x
        <4>1. n \in 1..Len(queue'[r])
          BY <1>2, <2>4
        <4> QED
          BY <2>4, <3>2, <4>1
      <3> QED
        BY <3>1, <3>2 DEF Tracked
    <2> QED
      BY <2>5 DEF Tracked
  <1>4. CASE ~(PushOutput(f) /\ Outputs[f][pos[f]] = r)
    <2>1. ASSUME at[a] = "push", pos[a] <= j, seen[a] = x
          PROVE  at'[a] = "push" /\ pos'[a] <= j /\ seen'[a] = x
      <3>1. CASE f # a
        BY <1>1, <1>2, <2>1, <3>1, OthersStay
      <3>2. CASE f = a /\ PushOutput(f)
        <4>1. pos[a] # j
          BY <1>1, <1>4, <3>2
        <4>2. at'[a] = "push" /\ pos'[a] = pos[a] + 1 /\ seen'[a] = seen[a]
          BY <1>1, <1>2, <3>2 DEF PushOutput, Go, TypeOK
        <4> QED
          BY <1>1, <2>1, <4>1, <4>2
      <3>3. CASE f = a /\ Pushed(f)
        <4>1. pos[a] > Len(Outputs[a])
          BY <3>3 DEF Pushed
        <4>2. Len(Outputs[a]) \in Nat /\ j <= Len(Outputs[a])
          BY DiamondTypes
        <4> QED
          BY <1>1, <2>1, <4>1, <4>2
      <3> QED
        BY <2>1, <3>1, <3>2, <3>3
          DEF Step, SourceProcess, PopMain, MatchInput, MatchFails, Process
    <2>2. ASSUME NEW m \in 1..Len(queue[r]), queue[r][m] = x
          PROVE  \E n \in 1..Len(queue'[r]) : queue'[r][n] = x
      <3>1. CASE queue'[r] = queue[r]
        BY <2>2, <3>1
      <3>2. CASE queue'[r] # queue[r]
        <4>1. f = e /\ at[e] = "match" /\ pos[e] = i
          <5>1. CASE PopMain(f)
            <6>1. Main(f) = r /\ f \notin Source
              BY <1>1, <1>2, <3>2, <5>1 DEF PopMain
            <6>2. Inputs[f] \in Seq(Queue) /\ Len(Inputs[f]) >= 1
              BY <6>1, MainInput
            <6>3. 1 \in 1..Len(Inputs[f]) /\ Inputs[f][1] = Inputs[e][i]
              BY <6>1, <6>2 DEF Main
            <6>4. i = 1
              BY <1>1, <6>3, WiringAssumption
            <6> QED
              BY <1>1, <6>4
          <5>2. CASE MatchInput(f) \/ MatchFails(f)
            <6>1. /\ at[f] = "match" /\ pos[f] <= Len(Inputs[f])
                  /\ Inputs[f][pos[f]] = r
              <7>1. CASE MatchInput(f)
                BY <1>1, <1>2, <3>2, <7>1 DEF MatchInput, TypeOK
              <7>2. CASE MatchFails(f)
                BY <1>1, <1>2, <3>2, <7>2 DEF MatchFails, TypeOK
              <7> QED
                BY <5>2, <7>1, <7>2
            <6>2. pos[f] \in 1..Len(Inputs[f])
              BY <1>2, <6>1, AtQueue
            <6> QED
              BY <1>1, <6>1, <6>2, WiringAssumption
          <5>3. CASE PushOutput(f)
            <6>1. Outputs[f][pos[f]] # r
              BY <1>4, <5>3
            <6> QED
              BY <1>1, <1>2, <3>2, <5>3, <6>1 DEF PushOutput, TypeOK
          <5> QED
            BY <3>2, <5>1, <5>2, <5>3 DEF Step, SourceProcess, Process, Pushed
        <4>2. seen[e] < x
          BY <4>1
        <4>3. tin[e][1] = seen[e]
          <5>1. CallShape(e) /\ tin[e] \in Seq(Nat)
            BY <1>1, <1>2 DEF FlowInvariant, TypeOK
          <5>2. tin[e] # <<>>
            BY <1>1, <4>1, <5>1 DEF CallShape
          <5> QED
            BY <5>1, <5>2 DEF CallShape
        <4>4. CASE MatchFails(f)
          <5>1. \A n \in 1..Len(queue[r]) : queue[r][n] < tin[e][1]
            BY <4>1, <4>4 DEF MatchFails
          <5> QED
            BY <1>1, <2>2, <4>2, <4>3, <5>1
        <4>5. CASE MatchInput(f)
          <5>1. PICK n \in 1..Len(queue[r]) :
                  /\ queue[r][n] >= tin[e][1]
                  /\ \A h \in 1..n-1 : queue[r][h] < tin[e][1]
                  /\ queue' = [queue EXCEPT ![r] = SubSeq(@, n + 1, Len(@))]
            BY <4>1, <4>5 DEF MatchInput
          <5>2. Tracked(seen[e], a, j, r)
            <6>1. r \notin dropped
              BY <4>5 DEF MatchInput
            <6> QED
              BY <1>1, <4>1, <6>1 DEF Paired
          <5>3. queue[r][n] = seen[e]
            BY <4>1, <5>1, <5>2, MatchExact
          <5>4. n < m
            <6>1. Increasing(queue[r])
              BY <1>1 DEF FlowInvariant, QueueBehind
            <6>2. queue[r][n] < queue[r][m]
              BY <2>2, <4>2, <5>3
            <6>3. ~(m < n)
              <7>1. queue[r][m] \in Nat /\ queue[r][n] \in Nat
                BY <1>2
              <7>2. m < n => queue[r][m] < queue[r][n]
                BY <6>1 DEF Increasing
              <7> QED
                BY <6>2, <7>1, <7>2
            <6> QED
              BY <1>2, <6>2, <6>3
          <5>5. queue'[r] = SubSeq(queue[r], n + 1, Len(queue[r]))
            BY <1>1, <1>2, <5>1 DEF TypeOK
          <5> HIDE DEF r
          <5>6. Rest(queue'[r], queue[r], n)
            BY <1>2, <5>5, RestCases
          <5>7. m - n \in 1..Len(queue'[r]) /\ queue'[r][m - n] = queue[r][m]
            BY <1>2, <5>4, <5>6 DEF Rest
          <5> QED
            BY <2>2, <5>7
        <4>6. MatchFails(f) \/ MatchInput(f)
          BY <3>2, <4>1 DEF Step, SourceProcess, Process, Pushed, PopMain, PushOutput
        <4> QED
          BY <4>4, <4>5, <4>6
      <3> QED
        BY <3>1, <3>2
    <2> QED
      BY <2>1, <2>2 DEF Tracked
  <1> QED
    BY <1>3, <1>4

\* What a queue of the diamond holds after a step is tracked: it was there before, or
\* the producer of the queue has just pushed what it was at.
LEMMA QueueTracked ==
  ASSUME FlowInvariant, NEW f \in Element, Step(f),
         NEW e, NEW i, NEW p, NEW k, NEW a, NEW l, NEW j,
         Diamond(e, i, p, k, a, l, j), Paired(e, i, p, k, a, l, j),
         Inputs[e][i] \notin dropped'
  PROVE  /\ \A n \in 1..Len(queue'[Main(p)]) : Tracked(queue[Main(p)][n], a, j, Inputs[e][i])'
         /\ \A n \in 1..Len(queue'[Main(e)]) : Tracked(queue[Main(e)][n], a, j, Inputs[e][i])'
  <1> DEFINE r == Inputs[e][i]
  <1>1. /\ e \in Element /\ p \in Element /\ a \in Element /\ l \in Nat /\ k \in Nat
        /\ Main(e) \in Queue /\ Main(p) \in Queue
        /\ seen[e] \in Nat /\ seen[p] \in Nat /\ seen[a] \in Nat
    BY DiamondTypes
  <1>2. /\ \A n \in 1..Len(queue[Main(p)]) : Tracked(queue[Main(p)][n], a, j, r)
        /\ \A n \in 1..Len(queue[Main(e)]) : Tracked(queue[Main(e)][n], a, j, r)
        /\ Pending(p, k) => Tracked(seen[p], a, j, r)
        /\ at[a] = "push" /\ pos[a] <= l => Tracked(seen[a], a, j, r)
    BY DroppedGrows DEF Paired
  <1>3. ASSUME NEW x \in Nat, Tracked(x, a, j, r), seen[e] < x PROVE Tracked(x, a, j, r)'
    BY <1>3, TrackedKept
  <1>4. ASSUME NEW q \in {Main(p), Main(e)}, NEW n \in 1..Len(queue'[q]),
               NEW x \in Nat, x = queue'[q][n]
        PROVE  Tracked(x, a, j, r) /\ seen[e] < x
    <2>1. q \in Queue
      BY <1>1
    <2>2. CASE \E m \in 1..Len(queue[q]) : queue[q][m] = queue'[q][n]
      BY <1>2, <1>4, <2>2, DiamondOrder
    <2>3. CASE PushOutput(f) /\ Outputs[f][pos[f]] = q /\ queue'[q][n] = seen[f]
      <3>1. at[f] = "push" /\ pos[f] \in 1..Len(Outputs[f]) /\ pos[f] \in Nat
        <4>1. at[f] = "push" /\ pos[f] <= Len(Outputs[f]) /\ TypeOK
          BY <2>3 DEF PushOutput, FlowInvariant
        <4>2. pos[f] \in Nat /\ pos[f] >= 1 /\ Outputs[f] \in Seq(Queue)
          BY <4>1, WiringAssumption DEF TypeOK
        <4> QED
          BY <4>1, <4>2
      <3>2. CASE q = Main(p)
        <4>1. l \in 1..Len(Outputs[a]) /\ Outputs[a][l] = Outputs[f][pos[f]]
          BY <2>3, <3>2 DEF Diamond
        <4>2. f = a /\ pos[f] = l
          BY <1>1, <3>1, <4>1, WiringAssumption
        <4>3. at[a] = "push" /\ pos[a] <= l /\ x = seen[a]
          BY <1>1, <1>4, <2>3, <3>1, <4>2
        <4>4. seen[e] < seen[a]
          BY <1>1, <4>3, DiamondOrder DEF Pending
        <4> QED
          BY <1>2, <4>3, <4>4
      <3>3. CASE q = Main(e)
        <4>1. k \in 1..Len(Outputs[p]) /\ Outputs[p][k] = Outputs[f][pos[f]]
          BY <2>3, <3>3 DEF Diamond
        <4>2. f = p /\ pos[f] = k
          BY <1>1, <3>1, <4>1, WiringAssumption
        <4>3. Pending(p, k) /\ x = seen[p]
          BY <1>1, <1>4, <2>3, <3>1, <4>2 DEF Pending
        <4>4. seen[e] < seen[p]
          BY <4>3, DiamondOrder
        <4> QED
          BY <1>2, <4>3, <4>4
      <3> QED
        BY <3>2, <3>3
    <2> QED
      BY <2>1, <2>2, <2>3, QueueOrigin
  <1>5. ASSUME NEW q \in {Main(p), Main(e)}, NEW n \in 1..Len(queue'[q])
        PROVE  Tracked(queue[q][n], a, j, r)'
    <2>1. PICK x \in Nat : x = queue'[q][n]
      BY <1>1, QueueOrigin
    <2>2. Tracked(x, a, j, r)'
      BY <1>3, <1>4, <2>1
    <2> QED
      BY <2>1, <2>2 DEF Tracked
  <1> QED
    BY <1>5

\* What p and a have to push is tracked.
LEMMA PendingTracked ==
  ASSUME FlowInvariant, NEW f \in Element, Step(f),
         NEW e, NEW i, NEW p, NEW k, NEW a, NEW l, NEW j,
         Diamond(e, i, p, k, a, l, j), Paired(e, i, p, k, a, l, j),
         Inputs[e][i] \notin dropped'
  PROVE  /\ Pending(p, k)' => Tracked(seen[p], a, j, Inputs[e][i])'
         /\ at'[a] = "push" /\ pos'[a] <= l => Tracked(seen[a], a, j, Inputs[e][i])'
  <1> DEFINE r == Inputs[e][i]
  <1>1. /\ e \in Element /\ p \in Element /\ p \notin Source /\ a \in Element
        /\ l \in Nat /\ k \in Nat /\ j \in Nat /\ j >= 1
        /\ Main(p) \in Queue
        /\ seen[e] \in Nat /\ seen[p] \in Nat /\ seen[a] \in Nat
        /\ pos[p] \in Nat /\ pos[a] \in Nat
    BY DiamondTypes
  <1>2. /\ \A n \in 1..Len(queue[Main(p)]) : Tracked(queue[Main(p)][n], a, j, r)
        /\ Pending(p, k) => Tracked(seen[p], a, j, r)
        /\ at[a] = "push" /\ pos[a] <= l => Tracked(seen[a], a, j, r)
    BY DroppedGrows DEF Paired
  <1>3. ASSUME NEW x \in Nat, Tracked(x, a, j, r), seen[e] < x PROVE Tracked(x, a, j, r)'
    BY <1>3, TrackedKept
  <1>4. TypeOK
    BY DEF FlowInvariant
  <1>5. ASSUME Pending(p, k)' PROVE Tracked(seen[p], a, j, r)'
    <2>1. \/ Pending(p, k) /\ seen'[p] = seen[p]
          \/ f = p /\ PopMain(p)
      <3>1. CASE f # p
        BY <1>1, <1>4, <1>5, <3>1, OthersStay DEF Pending
      <3>2. CASE f = p /\ (MatchInput(p) \/ MatchFails(p) \/ Pushed(p))
        BY <1>1, <1>4, <1>5, <3>2 DEF MatchInput, MatchFails, Pushed, Go, TypeOK, Pending
      <3>3. CASE f = p /\ Process(p)
        BY <3>3 DEF Process, Pending
      <3>4. CASE f = p /\ PushOutput(p)
        BY <1>1, <1>4, <1>5, <3>4 DEF PushOutput, Go, TypeOK, Pending
      <3>5. CASE f = p /\ SourceProcess(p)
        BY <1>1, <3>5 DEF SourceProcess
      <3> QED
        BY <3>1, <3>2, <3>3, <3>4, <3>5 DEF Step
    <2>2. CASE Pending(p, k) /\ seen'[p] = seen[p]
      <3>1. Tracked(seen[p], a, j, r) /\ seen[e] < seen[p]
        BY <1>2, <2>2, DiamondOrder
      <3>2. PICK x \in Nat : x = seen[p]
        BY <1>1
      <3>3. Tracked(x, a, j, r)'
        BY <1>3, <3>1, <3>2
      <3> QED
        BY <2>2, <3>2, <3>3 DEF Tracked
    <2>3. CASE f = p /\ PopMain(p)
      <3>1. queue[Main(p)] \in Seq(Nat) /\ queue[Main(p)] # <<>>
            /\ seen'[p] = Head(queue[Main(p)])
        BY <1>1, <1>4, <2>3 DEF PopMain, TypeOK
      <3>2. 1 \in 1..Len(queue[Main(p)]) /\ seen'[p] = queue[Main(p)][1]
        BY <3>1
      <3>3. PICK x \in Nat : x = queue[Main(p)][1]
        BY <3>1, <3>2
      <3>4. Tracked(x, a, j, r) /\ seen[e] < x
        BY <1>2, <3>2, <3>3, DiamondOrder
      <3>5. Tracked(x, a, j, r)'
        BY <1>3, <3>4
      <3> QED
        BY <3>2, <3>3, <3>5 DEF Tracked
    <2> QED
      BY <2>1, <2>2, <2>3
  <1>6. ASSUME at'[a] = "push", pos'[a] <= l PROVE Tracked(seen[a], a, j, r)'
    <2>1. \/ at[a] = "push" /\ pos[a] <= l /\ seen'[a] = seen[a]
          \/ pos'[a] = 1
      <3>1. CASE f # a
        BY <1>1, <1>4, <1>6, <3>1, OthersStay
      <3>2. CASE f = a /\ (MatchInput(a) \/ MatchFails(a) \/ Pushed(a) \/ PopMain(a))
        BY <1>1, <1>4, <1>6, <3>2 DEF MatchInput, MatchFails, Pushed, PopMain, Go, TypeOK
      <3>3. CASE f = a /\ (Process(a) \/ SourceProcess(a))
        BY <1>1, <1>4, <1>6, <3>3 DEF Process, SourceProcess, Go, TypeOK
      <3>4. CASE f = a /\ PushOutput(a)
        BY <1>1, <1>4, <1>6, <3>4 DEF PushOutput, Go, TypeOK
      <3> QED
        BY <3>1, <3>2, <3>3, <3>4 DEF Step
    <2>2. CASE at[a] = "push" /\ pos[a] <= l /\ seen'[a] = seen[a]
      <3>1. Tracked(seen[a], a, j, r)
        BY <1>2, <2>2
      <3>2. seen[e] < seen[a]
        BY <1>1, <2>2, DiamondOrder DEF Pending
      <3>3. PICK x \in Nat : x = seen[a]
        BY <1>1
      <3>4. Tracked(x, a, j, r)'
        BY <1>3, <3>1, <3>2, <3>3
      <3> QED
        BY <2>2, <3>3, <3>4 DEF Tracked
    <2>3. CASE pos'[a] = 1
      BY <1>1, <1>6, <2>3 DEF Tracked
    <2> QED
      BY <2>1, <2>2, <2>3
  <1> QED
    BY <1>5, <1>6

\* The frame that e looks for in input i is tracked until e comes to that input.
LEMMA SoughtTracked ==
  ASSUME FlowInvariant, NEW f \in Element, Step(f),
         NEW e, NEW i, NEW p, NEW k, NEW a, NEW l, NEW j,
         Diamond(e, i, p, k, a, l, j), Paired(e, i, p, k, a, l, j),
         Inputs[e][i] \notin dropped', at'[e] = "match", pos'[e] <= i
  PROVE  Tracked(seen[e], a, j, Inputs[e][i])'
  <1> DEFINE r == Inputs[e][i]
  <1>1. /\ e \in Element /\ e \notin Source /\ i \in Nat /\ i <= Len(Inputs[e])
        /\ Len(Inputs[e]) \in Nat /\ Main(e) \in Queue /\ seen[e] \in Nat /\ pos[e] \in Nat
    BY DiamondTypes
  <1>2. /\ \A n \in 1..Len(queue[Main(e)]) : Tracked(queue[Main(e)][n], a, j, r)
        /\ at[e] = "match" /\ pos[e] <= i => Tracked(seen[e], a, j, r)
    BY DroppedGrows DEF Paired
  <1>3. TypeOK
    BY DEF FlowInvariant
  <1>4. \/ /\ at[e] = "match" /\ pos[e] <= i /\ seen'[e] = seen[e]
           /\ ~(f = e /\ at[e] = "match" /\ pos[e] = i)
        \/ f = e /\ PopMain(e)
    <2>1. CASE f # e
      BY <1>1, <1>3, <2>1, OthersStay
    <2>2. CASE f = e /\ MatchInput(e)
      BY <1>1, <1>3, <2>2 DEF MatchInput, Go, TypeOK
    <2>3. CASE f = e /\ (MatchFails(e) \/ Pushed(e) \/ PushOutput(e) \/ SourceProcess(e))
      BY <1>1, <1>3, <2>3 DEF MatchFails, Pushed, PushOutput, SourceProcess, Go, TypeOK
    <2>4. CASE f = e /\ Process(e)
      BY <1>1, <1>3, <2>4 DEF Process, Go, TypeOK
    <2> QED
      BY <2>1, <2>2, <2>3, <2>4 DEF Step
  <1>5. ASSUME at[e] = "match", pos[e] <= i, seen'[e] = seen[e],
               ~(f = e /\ at[e] = "match" /\ pos[e] = i)
        PROVE  Tracked(seen[e], a, j, r)'
    <2>1. PICK x \in Nat : x = seen[e]
      BY <1>1
    <2>2. Tracked(x, a, j, r)
      BY <1>2, <1>5, <2>1
    <2>3. Tracked(x, a, j, r)'
      BY <1>5, <2>2, TrackedKept
    <2> QED
      BY <1>5, <2>1, <2>3 DEF Tracked
  <1>6. CASE f = e /\ PopMain(e)
    <2>1. queue[Main(e)] \in Seq(Nat) /\ queue[Main(e)] # <<>>
          /\ seen'[e] = Head(queue[Main(e)])
      BY <1>1, <1>3, <1>6 DEF PopMain, TypeOK
    <2>2. 1 \in 1..Len(queue[Main(e)]) /\ seen'[e] = queue[Main(e)][1]
      BY <2>1
    <2>3. PICK x \in Nat : x = queue[Main(e)][1]
      BY <2>1, <2>2
    <2>4. Tracked(x, a, j, r) /\ seen[e] < x
      BY <1>2, <2>2, <2>3, DiamondOrder
    <2>5. Tracked(x, a, j, r)'
      BY <2>4, TrackedKept
    <2> QED
      BY <2>2, <2>3, <2>5 DEF Tracked
  <1> QED
    BY <1>4, <1>5, <1>6

\* What e found in input i, and what it then gives its plugin, is the frame itself.
LEMMA FoundExactly ==
  ASSUME FlowInvariant, NEW f \in Element, Step(f),
         NEW e, NEW i, NEW p, NEW k, NEW a, NEW l, NEW j,
         Diamond(e, i, p, k, a, l, j), Paired(e, i, p, k, a, l, j),
         Inputs[e][i] \notin dropped'
  PROVE  /\ at'[e] = "match" /\ pos'[e] > i => tin'[e][i] = tin'[e][1]
         /\ given'[e] # <<>> => given'[e][i] = given'[e][1]
  <1> DEFINE r == Inputs[e][i]
  <1>1. /\ e \in Element /\ e \notin Source /\ i \in Nat /\ i >= 2 /\ i <= Len(Inputs[e])
        /\ Len(Inputs[e]) \in Nat /\ seen[e] \in Nat /\ pos[e] \in Nat /\ r \in Queue
    BY DiamondTypes
  <1>2. /\ at[e] = "match" /\ pos[e] <= i => Tracked(seen[e], a, j, r)
        /\ at[e] = "match" /\ pos[e] > i => tin[e][i] = tin[e][1]
        /\ given[e] # <<>> => given[e][i] = given[e][1]
    BY DroppedGrows DEF Paired
  <1>3. TypeOK /\ CallShape(e)
    BY <1>1 DEF FlowInvariant
  <1>4. tin[e] \in Seq(Nat) /\ queue[r] \in Seq(Nat)
    BY <1>1, <1>3 DEF TypeOK
  <1>5. CASE f # e
    BY <1>1, <1>2, <1>3, <1>5, OthersStay
  <1>6. CASE f = e /\ MatchInput(e)
    <2>1. /\ at[e] = "match" /\ pos[e] <= Len(Inputs[e]) /\ pos'[e] = pos[e] + 1
          /\ given' = given
      BY <1>1, <1>3, <1>6 DEF MatchInput, Go, TypeOK
    <2>2. Len(tin[e]) = pos[e] - 1 /\ pos[e] >= 2
      BY <1>3, <2>1 DEF CallShape
    <2>3. PICK q \in Queue : q = Inputs[e][pos[e]] /\ (pos[e] = i => q = r)
      BY <1>1, <2>1, <2>2, WiringAssumption
    <2>4. PICK n \in 1..Len(queue[q]) :
            /\ queue[q][n] >= tin[e][1]
            /\ \A m \in 1..n-1 : queue[q][m] < tin[e][1]
            /\ tin'[e] = Append(tin[e], queue[q][n])
      BY <1>1, <1>3, <1>6, <2>3 DEF MatchInput, TypeOK
    <2>5. queue[q][n] \in Nat
      <3>1. queue[q] \in Seq(Nat)
        BY <1>3 DEF TypeOK
      <3> QED
        BY <3>1
    <2>6. /\ \A m \in 1..Len(tin[e]) : tin'[e][m] = tin[e][m]
          /\ tin'[e][Len(tin[e]) + 1] = queue[q][n]
          /\ 1 \in 1..Len(tin[e])
      <3>1. 1 \in 1..Len(tin[e])
        BY <1>1, <2>2
      <3> QED
        BY <1>4, <2>4, <2>5, <3>1, Appended
    <2>7. CASE pos[e] < i
      BY <1>1, <1>2, <2>1, <2>7
    <2>8. CASE pos[e] = i
      <3>1. queue[r][n] = seen[e] /\ tin[e][1] = seen[e]
        <4>1. Tracked(seen[e], a, j, r) /\ q = r
          BY <1>1, <1>2, <2>1, <2>3, <2>8
        <4> QED
          BY <2>1, <2>4, <4>1, MatchExact
      <3>2. Len(tin[e]) + 1 = i /\ q = r
        BY <1>1, <2>2, <2>3, <2>8
      <3>3. tin'[e][i] = queue[r][n] /\ tin'[e][1] = tin[e][1]
        BY <2>6, <3>2
      <3> QED
        BY <1>2, <2>1, <3>1, <3>3
    <2>9. CASE pos[e] > i
      <3>1. i \in 1..Len(tin[e])
        BY <1>1, <2>2, <2>9
      <3> QED
        BY <1>2, <2>1, <2>6, <2>9, <3>1
    <2> QED
      BY <1>1, <2>7, <2>8, <2>9
  <1>7. CASE f = e /\ Process(e)
    <2>1. /\ at[e] = "match" /\ pos[e] > i /\ at'[e] # "match" /\ given'[e] = tin[e]
      BY <1>1, <1>3, <1>7 DEF Process, Go, TypeOK
    <2> QED
      BY <1>2, <2>1
  <1>8. CASE f = e /\ PopMain(e)
    <2>1. pos'[e] = 2 /\ given' = given
      BY <1>1, <1>3, <1>8 DEF PopMain, Go, TypeOK
    <2> QED
      BY <1>1, <1>2, <2>1
  <1>9. CASE f = e /\ (SourceProcess(e) \/ MatchFails(e) \/ PushOutput(e) \/ Pushed(e))
    <2>1. at'[e] # "match" /\ given' = given
      BY <1>1, <1>3, <1>9 DEF SourceProcess, MatchFails, PushOutput, Pushed, Go, TypeOK
    <2> QED
      BY <1>2, <2>1
  <1> QED
    BY <1>5, <1>6, <1>7, <1>8, <1>9 DEF Step

\* Every step keeps the pairs.
LEMMA PairStep == FlowInvariant /\ PairInvariant /\ [Next]_vars => PairInvariant'
  <1> SUFFICES ASSUME FlowInvariant, PairInvariant, [Next]_vars,
                      NEW e \in Element, NEW p \in Element, NEW a \in Element,
                      NEW i \in Nat, NEW k \in Nat, NEW l \in Nat, NEW j \in Nat,
                      Diamond(e, i, p, k, a, l, j)
               PROVE  Paired(e, i, p, k, a, l, j)'
    BY DEF PairInvariant, Diamond, Source, Main
  <1>1. Paired(e, i, p, k, a, l, j)
    BY DEF PairInvariant
  <1>2. CASE UNCHANGED vars
    BY <1>1, <1>2 DEF vars, Paired, Tracked, Pending
  <1>3. ASSUME NEW f \in Element, Step(f) PROVE Paired(e, i, p, k, a, l, j)'
    <2> SUFFICES ASSUME Inputs[e][i] \notin dropped'
                 PROVE  Paired(e, i, p, k, a, l, j)'
      BY DEF Paired
    <2>1. /\ \A n \in 1..Len(queue'[Main(p)]) : Tracked(queue[Main(p)][n], a, j, Inputs[e][i])'
          /\ \A n \in 1..Len(queue'[Main(e)]) : Tracked(queue[Main(e)][n], a, j, Inputs[e][i])'
      BY <1>1, <1>3, QueueTracked
    <2>2. /\ Pending(p, k)' => Tracked(seen[p], a, j, Inputs[e][i])'
          /\ at'[a] = "push" /\ pos'[a] <= l => Tracked(seen[a], a, j, Inputs[e][i])'
      BY <1>1, <1>3, PendingTracked
    <2>3. at'[e] = "match" /\ pos'[e] <= i => Tracked(seen[e], a, j, Inputs[e][i])'
      BY <1>1, <1>3, SoughtTracked
    <2>4. /\ at'[e] = "match" /\ pos'[e] > i => tin'[e][i] = tin'[e][1]
          /\ given'[e] # <<>> => given'[e][i] = given'[e][1]
      BY <1>1, <1>3, FoundExactly
    <2> QED
      BY <2>1, <2>2, <2>3, <2>4 DEF Paired
  <1> QED
    BY <1>2, <1>3 DEF Next, Step

\* Initially nothing is on its way.
LEMMA PairInit == Init => PairInvariant
  <1> SUFFICES ASSUME Init, NEW e \in Element, NEW p \in Element, NEW a \in Element,
                      NEW i \in Nat, NEW k \in Nat, NEW l \in Nat, NEW j \in Nat,
                      Diamond(e, i, p, k, a, l, j)
               PROVE  Paired(e, i, p, k, a, l, j)
    BY DEF PairInvariant
  <1>1. Main(e) \in Queue /\ Main(p) \in Queue
    BY MainInput DEF Diamond
  <1> QED
    BY <1>1 DEF Init, Paired, Pending

\* An input that comes straight from the element two steps up makes a diamond.
LEMMA AncestorDiamond ==
  ASSUME NEW e \in Element \ Source, NEW i \in 2..Len(Inputs[e]), FromAncestor(e, i)
  PROVE  \E p, a \in Element, k, l, j \in Nat : Diamond(e, i, p, k, a, l, j)
  <1>1. PICK p \in Element, a \in Element :
          /\ Main(e) \in {Outputs[p][k] : k \in 1..Len(Outputs[p])}
          /\ p \notin Source
          /\ Main(p) \in {Outputs[a][k] : k \in 1..Len(Outputs[a])}
          /\ Inputs[e][i] \in {Outputs[a][k] : k \in 1..Len(Outputs[a])}
    BY DEF FromAncestor
  <1>2. PICK k \in 1..Len(Outputs[p]) : Main(e) = Outputs[p][k]
    BY <1>1
  <1>3. PICK l \in 1..Len(Outputs[a]) : Main(p) = Outputs[a][l]
    BY <1>1
  <1>4. PICK j \in 1..Len(Outputs[a]) : Inputs[e][i] = Outputs[a][j]
    BY <1>1
  <1>5. Diamond(e, i, p, k, a, l, j)
    BY <1>1, <1>2, <1>3, <1>4 DEF Diamond
  <1>6. k \in Nat /\ l \in Nat /\ j \in Nat
    OBVIOUS
  <1> QED
    BY <1>5, <1>6

\* The pairs of every call are exact.
LEMMA PairsExact == PairInvariant => PairedExactly
  <1> SUFFICES ASSUME PairInvariant, NEW e \in Element \ Source, given[e] # <<>>,
                      NEW i \in 2..Len(Inputs[e]), FromAncestor(e, i),
                      Inputs[e][i] \notin dropped
               PROVE  given[e][i] = given[e][1]
    BY DEF PairedExactly
  <1>1. PICK p \in Element, a \in Element, k \in Nat, l \in Nat, j \in Nat :
          Diamond(e, i, p, k, a, l, j)
    BY AncestorDiamond
  <1>2. i \in Nat
    OBVIOUS
  <1>3. Paired(e, i, p, k, a, l, j)
    BY <1>1, <1>2 DEF PairInvariant
  <1> QED
    BY <1>3 DEF Paired

\* PairedExactly: unless the queue of that input has overflowed, a result is paired
\* with the very frame it was computed from, in whatever order the elements are
\* wired (TaskThread::ThreadFunc, GetInput).
THEOREM PairedExactlyHolds == Spec => []PairedExactly
  <1>1. FlowInvariant /\ PairInvariant /\ [Next]_vars => FlowInvariant' /\ PairInvariant'
    BY FlowStep, PairStep
  <1> QED
    BY <1>1, FlowInit, PairInit, PairsExact, PTL DEF Spec

\* Of an input that is fed first, a diamond is wired so.
LEMMA FedFirstDiamond ==
  ASSUME NEW e \in Element, NEW p \in Element, NEW a \in Element,
         NEW i \in Nat, NEW k \in Nat, NEW l \in Nat, NEW j \in Nat,
         Diamond(e, i, p, k, a, l, j), FedFirst(e, i)
  PROVE  j < l
  <1>1. /\ p \notin Source /\ Main(e) \in {Outputs[p][m] : m \in 1..Len(Outputs[p])}
        /\ l \in 1..Len(Outputs[a]) /\ j \in 1..Len(Outputs[a])
        /\ Outputs[a][l] = Main(p) /\ Outputs[a][j] = Inputs[e][i]
    BY DEF Diamond
  <1> QED
    BY <1>1 DEF FedFirst

\* An element that looks for its frame in an input that came straight finds it.
LEMMA MissStep ==
  ASSUME FlowInvariant, PairInvariant, [Next]_vars, MissesExplained
  PROVE  MissesExplained'
  <1>1. CASE UNCHANGED vars
    <2>1. missed' = missed /\ dropped' = dropped
      BY <1>1 DEF vars
    <2>2. \A e \in missed' : \E i \in 2..Len(Inputs[e]) :
            ~FromAncestor(e, i) \/ Inputs[e][i] \in dropped' \/ ~FedFirst(e, i)
      BY <2>1 DEF MissesExplained
    <2> QED
      BY <2>2 DEF MissesExplained, FromAncestor, FedFirst, Main, Source
  <1>2. ASSUME NEW f \in Element, Step(f) PROVE MissesExplained'
    <2>1. dropped \subseteq dropped'
      BY <1>2 DEF Step, SourceProcess, PopMain, MatchInput, MatchFails, Process, PushOutput, Pushed
    <2>2. \A e \in missed : \E i \in 2..Len(Inputs[e]) :
            ~FromAncestor(e, i) \/ Inputs[e][i] \in dropped' \/ ~FedFirst(e, i)
      BY <2>1 DEF MissesExplained
    <2>3. ASSUME MatchFails(f)
          PROVE  \E i \in 2..Len(Inputs[f]) :
                   ~FromAncestor(f, i) \/ Inputs[f][i] \in dropped' \/ ~FedFirst(f, i)
      <3>1. /\ at[f] = "match" /\ pos[f] <= Len(Inputs[f]) /\ dropped' = dropped
            /\ \A n \in 1..Len(queue[Inputs[f][pos[f]]]) :
                 queue[Inputs[f][pos[f]]][n] < tin[f][1]
        BY <2>3 DEF MatchFails
      <3>2. TypeOK /\ CallShape(f)
        BY DEF FlowInvariant
      <3>3. pos[f] \in Nat /\ Len(Inputs[f]) \in Nat /\ tin[f] \in Seq(Nat) /\ seen[f] \in Nat
        BY <3>2, WiringAssumption DEF TypeOK
      <3>4. f \notin Source /\ pos[f] \in 2..Len(Inputs[f]) /\ tin[f][1] = seen[f]
        BY <3>1, <3>2, <3>3 DEF CallShape
      <3>5. ASSUME FromAncestor(f, pos[f]), Inputs[f][pos[f]] \notin dropped,
                   FedFirst(f, pos[f])
            PROVE  FALSE
        <4>1. PICK i \in 2..Len(Inputs[f]) : i = pos[f]
          BY <3>4
        <4>2. PICK p \in Element, a \in Element, k \in Nat, l \in Nat, j \in Nat :
                Diamond(f, i, p, k, a, l, j)
          BY <3>4, <3>5, <4>1, AncestorDiamond
        <4>3. Paired(f, i, p, k, a, l, j) /\ j < l
          <5>1. i \in Nat
            BY <4>1
          <5>2. j < l
            BY <3>5, <4>1, <4>2, <5>1, FedFirstDiamond
          <5> QED
            BY <4>2, <5>1, <5>2 DEF PairInvariant
        <4>4. Tracked(seen[f], a, j, Inputs[f][i])
          BY <3>1, <3>3, <3>5, <4>1, <4>3 DEF Paired
        <4>5. seen[f] <= seen[p] /\ seen[p] <= seen[a] /\ (Pending(a, l) => seen[p] < seen[a])
          BY <4>2, DiamondOrder
        <4>6. seen[p] \in Nat /\ seen[a] \in Nat /\ pos[a] \in Nat
          BY <3>2 DEF TypeOK
        <4>7. CASE \E n \in 1..Len(queue[Inputs[f][i]]) : queue[Inputs[f][i]][n] = seen[f]
          BY <3>1, <3>3, <3>4, <4>1, <4>7
        <4>8. CASE at[a] = "push" /\ pos[a] <= j /\ seen[a] = seen[f]
          <5>1. Pending(a, l)
            BY <4>3, <4>6, <4>8 DEF Pending
          <5> QED
            BY <3>3, <4>5, <4>6, <4>8, <5>1
        <4> QED
          BY <4>4, <4>7, <4>8 DEF Tracked
      <3> QED
        BY <3>1, <3>4, <3>5
    <2>4. \A e \in missed' : e \in missed \/ (e = f /\ MatchFails(f))
      BY <1>2 DEF Step, SourceProcess, PopMain, MatchInput, MatchFails, Process, PushOutput, Pushed
    <2>5. \A e \in missed' : \E i \in 2..Len(Inputs[e]) :
            ~FromAncestor(e, i) \/ Inputs[e][i] \in dropped' \/ ~FedFirst(e, i)
      BY <2>2, <2>3, <2>4
    <2> QED
      BY <2>5 DEF MissesExplained, FromAncestor, FedFirst, Main, Source
  <1> QED
    BY <1>1, <1>2 DEF Next, Step

\* FlowPairs, whatever order the race of the threads in ConnectElement gives the outputs:
\* results are paired with their own frames, and a match that fails has an overflow or
\* that order as its reason (GetInput, ConnectElement).
THEOREM FlowPairsHolds == Spec => []FlowPairs
  <1>1. Init => MissesExplained
    BY DEF Init, MissesExplained
  <1>2. FlowInvariant /\ PairInvariant /\ MissesExplained /\ [Next]_vars
          => FlowInvariant' /\ PairInvariant' /\ MissesExplained'
    BY FlowStep, PairStep, MissStep
  <1>3. PairInvariant /\ MissesExplained => FlowPairs
    BY PairsExact DEF FlowPairs
  <1> QED
    BY <1>1, <1>2, <1>3, FlowInit, PairInit, PTL DEF Spec

=============================================================================
