----------------------------- MODULE FrameStream -----------------------------
(***************************************************************************)
(* What a source plugin promises to the element it belongs to, whatever    *)
(* queues, threads and restarts it has inside: a frame is numbered when it *)
(* is made, and the process call gives out frames that were made, each at  *)
(* most once and in the order of their numbers.  Frames may be lost.       *)
(***************************************************************************)
EXTENDS Integers

CONSTANT Stream   \* the elements whose frames are counted

VARIABLES
  made,    \* the number of the newest frame of each
  given,   \* the number of the last frame that was given out
  count    \* how many frames were given out

streamVars == <<made, given, count>>

Init ==
  /\ made = [s \in Stream |-> 0]
  /\ given = [s \in Stream |-> 0]
  /\ count = [s \in Stream |-> 0]

Make(s) ==
  /\ made' = [made EXCEPT ![s] = @ + 1]
  /\ UNCHANGED <<given, count>>

Give(s) ==
  /\ \E n \in (given[s] + 1)..made[s] : given' = [given EXCEPT ![s] = n]
  /\ count' = [count EXCEPT ![s] = @ + 1]
  /\ UNCHANGED made

Next == \E s \in Stream : Make(s) \/ Give(s)

Spec == Init /\ [][Next]_streamVars
==============================================================================
