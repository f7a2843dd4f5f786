------------------------------ MODULE PacketFlow ------------------------------
(***************************************************************************)
(* The packets of a running task (task.cpp, GetInput and the loop of       *)
(* ThreadFunc): every element takes a packet of its input[0], looks for a  *)
(* packet of each other input that belongs to it, calls its plugin, and    *)
(* pushes the result to its output queues, which drop their oldest packet  *)
(* when they are full. A packet is its frame_id: a source numbers its      *)
(* frames, and every plugin copies the frame_id of its input[0]. Each      *)
(* element has its own thread (async); starting and stopping are in        *)
(* TaskRuntime.tla.                                                        *)
(*                                                                         *)
(* queue     the frame ids in each input queue, oldest first               *)
(* at, pos   where the element's thread is, its loop counter over inputs   *)
(*           or outputs                                                    *)
(* tin       the packets of tensor._in so far                              *)
(* seen      the last frame id taken from input[0], or made by a source    *)
(* given     history: the packets of the last call of the plugin           *)
(* dropped   history: queues that have lost a packet to make room          *)
(* missed    history: elements whose GetInput has returned 1               *)
(***************************************************************************)
EXTENDS Integers, Sequences

CONSTANTS
  Element,
  Queue,
  Inputs,     \* ElementData::input of each element, input[0] first
  Outputs,    \* ElementData::output of each element, in the order in which the
              \* threads of its consumers connected to it (ConnectElement): any
  QueueLen,   \* ElementData::queue_len
  MaxFrame    \* bound on the frame ids explored

Source == {e \in Element : Inputs[e] = <<>>}
Main(e) == Inputs[e][1]

ASSUME QueueLenAssumption == QueueLen \in Nat \ {0}
ASSUME MaxFrameAssumption == MaxFrame \in Nat
\* An input queue belongs to one input of one element, and ConnectElement pushes
\* it into the output list of one element, once.
ASSUME WiringAssumption ==
  /\ Inputs \in [Element -> Seq(Queue)]
  /\ Outputs \in [Element -> Seq(Queue)]
  /\ \A e, f \in Element : \A i \in 1..Len(Inputs[e]), j \in 1..Len(Inputs[f]) :
       Inputs[e][i] = Inputs[f][j] => e = f /\ i = j
  /\ \A e, f \in Element : \A i \in 1..Len(Outputs[e]), j \in 1..Len(Outputs[f]) :
       Outputs[e][i] = Outputs[f][j] => e = f /\ i = j

VARIABLES queue, at, pos, tin, seen, given, dropped, missed
vars == <<queue, at, pos, tin, seen, given, dropped, missed>>

Init ==
  /\ queue = [q \in Queue |-> <<>>]
  /\ at = [e \in Element |-> "get"]
  /\ pos = [e \in Element |-> 1]
  /\ tin = [e \in Element |-> <<>>]
  /\ seen = [e \in Element |-> 0]
  /\ given = [e \in Element |-> <<>>]
  /\ dropped = {} /\ missed = {}

Go(e, where, n) ==
  /\ at' = [at EXCEPT ![e] = where]
  /\ pos' = [pos EXCEPT ![e] = n]

\* A source has no input. Its camera's callback numbers every frame, and frames
\* that found the source's own queue full are missing.
SourceProcess(e) ==
  /\ at[e] = "get" /\ e \in Source
  /\ \E f \in seen[e] + 1..MaxFrame :
       /\ tin' = [tin EXCEPT ![e] = <<f>>]
       /\ seen' = [seen EXCEPT ![e] = f]
  /\ Go(e, "push", 1)
  /\ UNCHANGED <<queue, given, dropped, missed>>

\* GetInput: the packet that decides is the oldest of input[0].
PopMain(e) ==
  /\ at[e] = "get" /\ e \notin Source
  /\ queue[Main(e)] # <<>>
  /\ tin' = [tin EXCEPT ![e] = <<Head(queue[Main(e)])>>]
  /\ seen' = [seen EXCEPT ![e] = Head(queue[Main(e)])]
  /\ queue' = [queue EXCEPT ![Main(e)] = Tail(@)]
  /\ Go(e, "match", 2)
  /\ UNCHANGED <<given, dropped, missed>>

\* Mutants of MatchInput: the newest packet is taken; the packet stays in its queue.
MatchInputWith(e, i, q, rest) ==
  /\ tin' = [tin EXCEPT ![e] = Append(@, queue[q][i])]
  /\ queue' = [queue EXCEPT ![q] = rest]
  /\ Go(e, "match", pos[e] + 1)
  /\ UNCHANGED <<seen, given, dropped, missed>>

MatchInputNewest(e) ==
  /\ at[e] = "match" /\ pos[e] <= Len(Inputs[e])
  /\ LET q == Inputs[e][pos[e]]
         n == Len(queue[q])
     IN n > 0 /\ queue[q][n] >= tin[e][1] /\ MatchInputWith(e, n, q, <<>>)

MatchInputStays(e) ==
  /\ at[e] = "match" /\ pos[e] <= Len(Inputs[e])
  /\ LET q == Inputs[e][pos[e]] IN
       \E i \in 1..Len(queue[q]) :
         /\ queue[q][i] >= tin[e][1]
         /\ \A j \in 1..i-1 : queue[q][j] < tin[e][1]
         /\ MatchInputWith(e, i, q, SubSeq(queue[q], i, Len(queue[q])))

\* The other input is popped up to its first packet that is not older.
MatchInput(e) ==
  /\ at[e] = "match" /\ pos[e] <= Len(Inputs[e])
  /\ LET q == Inputs[e][pos[e]] IN
       \E i \in 1..Len(queue[q]) :
         /\ queue[q][i] >= tin[e][1]
         /\ \A j \in 1..i-1 : queue[q][j] < tin[e][1]
         /\ tin' = [tin EXCEPT ![e] = Append(@, queue[q][i])]
         /\ queue' = [queue EXCEPT ![q] = SubSeq(@, i + 1, Len(@))]
  /\ Go(e, "match", pos[e] + 1)
  /\ UNCHANGED <<seen, given, dropped, missed>>

\* Every packet of the other input is older: all are gone, GetInput returns 1
\* and the packet of input[0] is forgotten with those matched before.
MatchFails(e) ==
  /\ at[e] = "match" /\ pos[e] <= Len(Inputs[e])
  /\ LET q == Inputs[e][pos[e]] IN
       /\ \A i \in 1..Len(queue[q]) : queue[q][i] < tin[e][1]
       /\ queue' = [queue EXCEPT ![q] = <<>>]
  /\ tin' = [tin EXCEPT ![e] = <<>>]
  /\ missed' = missed \cup {e}
  /\ Go(e, "get", 1)
  /\ UNCHANGED <<seen, given, dropped>>

\* The plugin has a result for the packets it is given, or none.
Process(e) ==
  /\ at[e] = "match" /\ pos[e] > Len(Inputs[e])
  /\ given' = [given EXCEPT ![e] = tin[e]]
  /\ \/ Go(e, "push", 1) /\ UNCHANGED tin
     \/ Go(e, "get", 1) /\ tin' = [tin EXCEPT ![e] = <<>>]
  /\ UNCHANGED <<queue, seen, dropped, missed>>

\* Mutant of PushOutput: the packet goes in front.
PushOutputFront(e) ==
  /\ at[e] = "push" /\ pos[e] <= Len(Outputs[e])
  /\ LET q == Outputs[e][pos[e]] IN
       /\ Len(queue[q]) < QueueLen
       /\ queue' = [queue EXCEPT ![q] = <<tin[e][1]>> \o @]
  /\ Go(e, "push", pos[e] + 1)
  /\ UNCHANGED <<tin, seen, given, dropped, missed>>

\* One output queue, under its mutex: a full queue first loses its oldest packet.
PushOutput(e) ==
  /\ at[e] = "push" /\ pos[e] <= Len(Outputs[e])
  /\ LET q == Outputs[e][pos[e]] IN
       IF Len(queue[q]) >= QueueLen
         THEN /\ queue' = [queue EXCEPT ![q] = Append(Tail(@), tin[e][1])]
              /\ dropped' = dropped \cup {q}
         ELSE /\ queue' = [queue EXCEPT ![q] = Append(@, tin[e][1])]
              /\ UNCHANGED dropped
  /\ Go(e, "push", pos[e] + 1)
  /\ UNCHANGED <<tin, seen, given, missed>>

Pushed(e) ==
  /\ at[e] = "push" /\ pos[e] > Len(Outputs[e])
  /\ tin' = [tin EXCEPT ![e] = <<>>]
  /\ Go(e, "get", 1)
  /\ UNCHANGED <<queue, seen, given, dropped, missed>>

\* What the thread of an element does.
Step(e) ==
  \/ SourceProcess(e) \/ PopMain(e) \/ MatchInput(e) \/ MatchFails(e)
  \/ Process(e) \/ PushOutput(e) \/ Pushed(e)

Next == \E e \in Element : Step(e)

Spec == Init /\ [][Next]_vars

-----------------------------------------------------------------------------
(* Properties.                                                             *)

TypeOK ==
  /\ queue \in [Queue -> Seq(Nat)]
  /\ \A q \in Queue : Len(queue[q]) <= QueueLen
  /\ at \in [Element -> {"get", "match", "push"}]
  /\ pos \in [Element -> Nat \ {0}]
  /\ tin \in [Element -> Seq(Nat)]
  /\ seen \in [Element -> Nat]
  /\ given \in [Element -> Seq(Nat)]
  /\ dropped \subseteq Queue /\ missed \subseteq Element

Increasing(s) == \A i, j \in 1..Len(s) : i < j => s[i] < s[j]

\* However the threads interleave and wherever packets are dropped, the packets
\* in a queue are in frame order, and all are newer than what its consumer has
\* already taken: no frame comes back after a later one.
QueuesInOrder ==
  /\ \A q \in Queue : Increasing(queue[q])
  /\ \A e \in Element \ Source : \A i \in 1..Len(queue[Main(e)]) :
       queue[Main(e)][i] > seen[e]

\* No input ever gives the plugin the same frame twice or an older one.
FramesAdvance ==
  [][\A e \in Element : given[e] # <<>> /\ given'[e] # given[e] =>
       \A i \in 1..Len(given[e]) : given'[e][i] > given[e][i]]_vars

\* The packets of a call: one of each input, none older than that of input[0].
NoneOlder ==
  \A e \in Element : given[e] # <<>> =>
    /\ Len(given[e]) = Len(Inputs[e])
    /\ \A i \in 1..Len(given[e]) : given[e][i] >= given[e][1]

\* Input i of e comes straight from the element two steps up its input[0].
FromAncestor(e, i) ==
  \E p, a \in Element :
    /\ Main(e) \in {Outputs[p][k] : k \in 1..Len(Outputs[p])}
    /\ p \notin Source
    /\ Main(p) \in {Outputs[a][k] : k \in 1..Len(Outputs[a])}
    /\ Inputs[e][i] \in {Outputs[a][k] : k \in 1..Len(Outputs[a])}

\* A result is paired with the very frame it was computed from, unless the queue
\* of that frame's input has overflowed.
PairedExactly ==
  \A e \in Element \ Source : given[e] # <<>> =>
    \A i \in 2..Len(Inputs[e]) :
      FromAncestor(e, i) /\ Inputs[e][i] \notin dropped => given[e][i] = given[e][1]

\* Whoever feeds both input i and the way to input[0] pushes to input i first:
\* the thread of e connected before the thread of p did.
FedFirst(e, i) ==
  \A p, a \in Element :
    p \notin Source /\ Main(e) \in {Outputs[p][k] : k \in 1..Len(Outputs[p])} =>
      \A l, j \in 1..Len(Outputs[a]) :
        Outputs[a][l] = Main(p) /\ Outputs[a][j] = Inputs[e][i] => j < l

\* With the slower input on input[0], as the warning in GetInput asks for, a
\* match fails for two reasons only: the further queue has overflowed, or the
\* race of the threads in ConnectElement put it behind the longer way.
MissesExplained ==
  \A e \in missed : \E i \in 2..Len(Inputs[e]) :
    ~FromAncestor(e, i) \/ Inputs[e][i] \in dropped \/ ~FedFirst(e, i)

\* Order and completeness of the packets of every call and queue, as far as queues
\* that overflow allow (TaskThread::ThreadFunc, GetInput).
FlowOrder == TypeOK /\ QueuesInOrder /\ NoneOlder

\* A result meets its own picture unless a queue has overflowed, and a match fails
\* for that reason or for the order in which the elements were connected
\* (GetInput, ConnectElement).
FlowPairs == PairedExactly /\ MissesExplained
==============================================================================
