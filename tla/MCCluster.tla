------------------------------ MODULE MCCluster ------------------------------
(***************************************************************************)
(* One or two slaves, one or two objects, one task.                        *)
(***************************************************************************)
EXTENDS Cluster

TwoSlaves == <<"s1", "s2">>
NoTasks == [o \in Obj |-> <<>>]
EveryTask == [o \in Obj |-> <<"yolov3">>]
==============================================================================
